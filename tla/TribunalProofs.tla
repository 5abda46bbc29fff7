--------------------------- MODULE TribunalProofs ---------------------------
(***************************************************************************)
(* Theorems about Tribunal, for every number of arbitrators, invitations,  *)
(* challenges and concurrent requests, with or without crashes; and of     *)
(* requests one at a time, that a tribunal is constituted when complete.   *)
(***************************************************************************)
EXTENDS MCTribunalSerial, TLAPS

-----------------------------------------------------------------------------
(* Lemmas *)

\* A tribunal seat always maps to a case role that opens deliberations.
LEMMA CaseRoleOfSeat == \A role : caseRoleForTribunalRole(role) \in CaseRole
BY DEF caseRoleForTribunalRole, CaseRole

TasksOK(t) == /\ t \in [Requests -> [step : Steps, arg : Args]]
              /\ \A r \in Requests : TaskOK(t[r])

\* Giving one request a well-formed continuation keeps all requests well-formed.
LEMMA TaskUpdate ==
  ASSUME NEW t, NEW u, NEW r \in Requests, NEW step \in Steps, NEW arg \in Args,
         TasksOK(t), u = [t EXCEPT ![r] = [step |-> step, arg |-> arg]],
         TaskOK([step |-> step, arg |-> arg])
  PROVE  TasksOK(u)
<1>1. u \in [Requests -> [step : Steps, arg : Args]]
  BY DEF TasksOK
<1>2. ASSUME NEW q \in Requests PROVE TaskOK(u[q])
  <2>1. CASE q = r
    BY <2>1 DEF TasksOK
  <2>2. CASE q # r
    BY <2>2 DEF TasksOK
  <2>3. QED BY <2>1, <2>2
<1>3. QED BY <1>1, <1>2 DEF TasksOK

\* A request that ends, or goes on to a step that names nothing, is well-formed.
LEMMA PlainTask ==
  ASSUME NEW step \in PlainSteps
  PROVE  step \in Steps /\ {} \in Args /\ TaskOK([step |-> step, arg |-> {}])
BY DEF PlainSteps, Steps, Args, TaskOK, InvitationSteps, ArbitratorSteps, ChallengeSteps, SweepSteps

LEMMA FinishTask ==
  ASSUME NEW r \in Requests, TasksOK(task), Finish(r)
  PROVE  TasksOK(task')
<1>1. "idle" \in PlainSteps BY DEF PlainSteps
<1>2. QED BY <1>1, PlainTask, TaskUpdate DEF Finish

LEMMA PlainContinue ==
  ASSUME NEW r \in Requests, TasksOK(task), NEW step \in PlainSteps,
         Begin(r, step, {}) \/ Continue(r, step, {})
  PROVE  TasksOK(task')
BY PlainTask, TaskUpdate DEF Begin, Continue

LEMMA InvitationContinue ==
  ASSUME NEW r \in Requests, TasksOK(task), NEW step \in InvitationSteps,
         NEW i \in Invitations, Begin(r, step, i) \/ Continue(r, step, i)
  PROVE  TasksOK(task')
<1>1. step \in Steps /\ i \in Args /\ TaskOK([step |-> step, arg |-> i])
  BY DEF Steps, Args, TaskOK, InvitationSteps, ArbitratorSteps, ChallengeSteps, SweepSteps
<1>2. QED BY <1>1, TaskUpdate DEF Begin, Continue

LEMMA ChallengeContinue ==
  ASSUME NEW r \in Requests, TasksOK(task), NEW step \in ChallengeSteps,
         NEW c \in Challenges, Begin(r, step, c) \/ Continue(r, step, c)
  PROVE  TasksOK(task')
<1>1. step \in Steps /\ c \in Args /\ TaskOK([step |-> step, arg |-> c])
  BY DEF Steps, Args, TaskOK, InvitationSteps, ArbitratorSteps, ChallengeSteps, SweepSteps
<1>2. QED BY <1>1, TaskUpdate DEF Begin, Continue

LEMMA SweepContinue ==
  ASSUME NEW r \in Requests, TasksOK(task), NEW step \in SweepSteps,
         NEW S \in SUBSET Invitations, Begin(r, step, S) \/ Continue(r, step, S)
  PROVE  TasksOK(task')
<1>1. step \in Steps /\ S \in Args /\ TaskOK([step |-> step, arg |-> S])
  BY DEF Steps, Args, TaskOK, InvitationSteps, ArbitratorSteps, ChallengeSteps, SweepSteps
<1>2. QED BY <1>1, TaskUpdate DEF Begin, Continue

LEMMA VacancyBegin ==
  ASSUME NEW r \in Requests, TasksOK(task), NEW a \in Arbitrators, Begin(r, "vacate", a)
  PROVE  TasksOK(task')
<1>1. "vacate" \in Steps /\ a \in Args /\ TaskOK([step |-> "vacate", arg |-> a])
  BY DEF Steps, Args, TaskOK, InvitationSteps, ArbitratorSteps, ChallengeSteps, SweepSteps
<1>2. QED BY <1>1, TaskUpdate DEF Begin

-----------------------------------------------------------------------------
(* The inductive invariant *)

DataOK ==
  /\ invitation \in [Invitations -> [status : AppointmentStatus \cup {"NONE"},
                                     arb : Arbitrators \cup {"NONE"},
                                     role : TribunalRole \cup {"NONE"}]]
  /\ window \in [Invitations -> [clock : {"running", "suspended", "waived"},
                                 elapsed : BOOLEAN]]
  /\ disclosed \subseteq Arbitrators
  /\ tribunal \in [composition : {"NONE", "SOLE", "THREE_MEMBER"}, constituted : BOOLEAN]
  /\ member \in [Arbitrators -> [status : MemberStatus, role : TribunalRole \cup {"NONE"}]]
  /\ team \subseteq Arbitrators \X CaseRole
  /\ challenge \in [Challenges -> [status : Decided \cup {"SUBMITTED", "NONE"},
                                   target : Arbitrators \cup {"NONE"}]]
  /\ hold \in BOOLEAN
  /\ stage \in CaseStage

\* A row that exists names an arbitrator (and an invitation, a tribunal role).
RowsNamed ==
  /\ \A i \in Invitations : invitation[i].status # "NONE" =>
       invitation[i].arb \in Arbitrators /\ invitation[i].role \in TribunalRole
  /\ \A c \in Challenges : challenge[c].status # "NONE" => challenge[c].target \in Arbitrators

\* What a request has read still exists: rows are never deleted.
TaskNamed(t) ==
  /\ t.step \in InvitationSteps => invitation[t.arg].status # "NONE"
  /\ t.step \in ChallengeSteps => challenge[t.arg].status # "NONE"
  /\ t.step \in SweepSteps => \A i \in t.arg : invitation[i].status # "NONE"
  /\ t.step = "vacate" => member[t.arg].status # "NONE"
  /\ t.step = "vacateChallenged" => member[challenge[t.arg].target].status # "NONE"
TasksNamed == \A r \in Requests : TaskNamed(task[r])

IInv == /\ DataOK
        /\ TasksOK(task)
        /\ RowsNamed
        /\ TasksNamed
        /\ AccessIffSeated
        /\ SeatNeedsDisclosure

data == <<invitation, window, disclosed, tribunal, member, team, challenge, hold, stage>>

-----------------------------------------------------------------------------
(* One step of one request *)

\* What IInv says of the rows a request has read.
LEMMA ArgNamed ==
  ASSUME IInv, NEW r \in Requests
  PROVE  LET x == task[r].arg IN
         /\ task[r].step \in InvitationSteps =>
              /\ x \in Invitations
              /\ invitation[x].status # "NONE"
              /\ invitation[x].arb \in Arbitrators
              /\ invitation[x].role \in TribunalRole
         /\ task[r].step \in ChallengeSteps =>
              /\ x \in Challenges
              /\ challenge[x].status # "NONE"
              /\ challenge[x].target \in Arbitrators
         /\ task[r].step = "vacate" => x \in Arbitrators /\ member[x].status # "NONE"
         /\ task[r].step = "vacateChallenged" => member[challenge[x].target].status # "NONE"
         /\ task[r].step \in SweepSteps =>
              x \subseteq Invitations /\ \A i \in x : invitation[i].status # "NONE"
BY DEF IInv, TasksOK, TaskOK, TasksNamed, TaskNamed, RowsNamed, ArbitratorSteps

\* Requests other than the one that moves keep naming rows that exist.
LEMMA OthersNamed ==
  ASSUME IInv, NEW r \in Requests,
         \A q \in Requests \ {r} : task'[q] = task[q],
         \A i \in Invitations : invitation[i].status # "NONE" => invitation'[i].status # "NONE",
         \A c \in Challenges : challenge[c].status # "NONE" =>
            challenge'[c].status # "NONE" /\ challenge'[c].target = challenge[c].target,
         \A a \in Arbitrators : member[a].status # "NONE" => member'[a].status # "NONE"
  PROVE  \A q \in Requests \ {r} : TaskNamed(task[q])'
<1> TAKE q \in Requests \ {r}
<1>1. TaskNamed(task[q]) /\ TaskOK(task[q])
  BY DEF IInv, TasksNamed, TasksOK
<1>2. task[q].step \in ChallengeSteps => challenge[task[q].arg].target \in Arbitrators
  BY <1>1 DEF IInv, RowsNamed, TaskNamed, TaskOK
<1>3. QED BY <1>1, <1>2 DEF TaskNamed, TaskOK, ArbitratorSteps, ChallengeSteps

\* Only the request that moves changes what it has to do.
LEMMA Moves ==
  ASSUME NEW r \in Requests, TasksOK(task), NEW step, NEW arg,
         Begin(r, step, arg) \/ Continue(r, step, arg)
  PROVE  /\ task'[r] = [step |-> step, arg |-> arg]
         /\ \A q \in Requests \ {r} : task'[q] = task[q]
BY DEF Begin, Continue, TasksOK

LEMMA Ends ==
  ASSUME NEW r \in Requests, TasksOK(task), Finish(r)
  PROVE  /\ task'[r] = [step |-> "idle", arg |-> {}]
         /\ \A q \in Requests \ {r} : task'[q] = task[q]
BY DEF Finish, TasksOK

\* The request-side half of IInv after a step of r, for each kind of continuation.
Keeps == /\ \A i \in Invitations : invitation[i].status # "NONE" => invitation'[i].status # "NONE"
         /\ \A c \in Challenges : challenge[c].status # "NONE" =>
              challenge'[c].status # "NONE" /\ challenge'[c].target = challenge[c].target
         /\ \A a \in Arbitrators : member[a].status # "NONE" => member'[a].status # "NONE"

LEMMA AfterFinish ==
  ASSUME IInv, Keeps, NEW r \in Requests, Finish(r)
  PROVE  TasksOK(task') /\ TasksNamed'
<1>1. TasksOK(task') BY FinishTask DEF IInv
<1>2. "idle" \in PlainSteps BY DEF PlainSteps
<1>3. TaskNamed(task[r])'
  BY <1>2, Ends DEF IInv, TaskNamed, PlainSteps, InvitationSteps, ChallengeSteps, SweepSteps
<1>4. \A q \in Requests \ {r} : TaskNamed(task[q])'
  BY Ends, OthersNamed DEF IInv, Keeps
<1>5. QED BY <1>1, <1>3, <1>4 DEF TasksNamed

LEMMA AfterPlain ==
  ASSUME IInv, Keeps, NEW r \in Requests, NEW step \in PlainSteps,
         Begin(r, step, {}) \/ Continue(r, step, {})
  PROVE  TasksOK(task') /\ TasksNamed'
<1>0. task'[r] = [step |-> step, arg |-> {}]
  BY Moves DEF IInv
<1>1. TasksOK(task') BY PlainContinue DEF IInv
<1>2. TaskNamed(task[r])'
  BY <1>0 DEF TaskNamed, PlainSteps, InvitationSteps, ChallengeSteps, SweepSteps
<1>3. \A q \in Requests \ {r} : TaskNamed(task[q])'
  BY Moves, OthersNamed DEF IInv, Keeps
<1>4. QED BY <1>1, <1>2, <1>3 DEF TasksNamed

LEMMA AfterInvitation ==
  ASSUME IInv, Keeps, NEW r \in Requests, NEW step \in InvitationSteps, NEW i \in Invitations,
         invitation[i].status # "NONE",
         Begin(r, step, i) \/ Continue(r, step, i)
  PROVE  TasksOK(task') /\ TasksNamed'
<1>0. task'[r] = [step |-> step, arg |-> i]
  BY Moves DEF IInv
<1>1. TasksOK(task') BY InvitationContinue DEF IInv
<1>2. TaskNamed(task[r])'
  BY <1>0 DEF Keeps, TaskNamed, InvitationSteps, ChallengeSteps, SweepSteps
<1>3. \A q \in Requests \ {r} : TaskNamed(task[q])'
  BY Moves, OthersNamed DEF IInv, Keeps
<1>4. QED BY <1>1, <1>2, <1>3 DEF TasksNamed

LEMMA AfterChallenge ==
  ASSUME IInv, Keeps, NEW r \in Requests, NEW step \in ChallengeSteps, NEW c \in Challenges,
         challenge[c].status # "NONE",
         step = "vacateChallenged" => member[challenge[c].target].status # "NONE",
         Begin(r, step, c) \/ Continue(r, step, c)
  PROVE  TasksOK(task') /\ TasksNamed'
<1>0. task'[r] = [step |-> step, arg |-> c]
  BY Moves DEF IInv
<1>1. TasksOK(task') BY ChallengeContinue DEF IInv
<1>2. challenge[c].target \in Arbitrators BY DEF IInv, RowsNamed
<1>3. TaskNamed(task[r])'
  BY <1>0, <1>2 DEF Keeps, TaskNamed, InvitationSteps, ChallengeSteps, SweepSteps
<1>4. \A q \in Requests \ {r} : TaskNamed(task[q])'
  BY Moves, OthersNamed DEF IInv, Keeps
<1>5. QED BY <1>1, <1>3, <1>4 DEF TasksNamed

LEMMA AfterSweep ==
  ASSUME IInv, Keeps, NEW r \in Requests, NEW step \in SweepSteps, NEW S \in SUBSET Invitations,
         \A i \in S : invitation[i].status # "NONE",
         Begin(r, step, S) \/ Continue(r, step, S)
  PROVE  TasksOK(task') /\ TasksNamed'
<1>0. task'[r] = [step |-> step, arg |-> S]
  BY Moves DEF IInv
<1>1. TasksOK(task') BY SweepContinue DEF IInv
<1>2. TaskNamed(task[r])'
  BY <1>0 DEF Keeps, TaskNamed, SweepSteps, InvitationSteps, ChallengeSteps
<1>3. \A q \in Requests \ {r} : TaskNamed(task[q])'
  BY Moves, OthersNamed DEF IInv, Keeps
<1>4. QED BY <1>1, <1>2, <1>3 DEF TasksNamed

LEMMA AfterVacancy ==
  ASSUME IInv, Keeps, NEW r \in Requests, NEW a \in Arbitrators,
         member[a].status # "NONE", Begin(r, "vacate", a)
  PROVE  TasksOK(task') /\ TasksNamed'
<1>0. task'[r] = [step |-> "vacate", arg |-> a]
  BY Moves DEF IInv
<1>1. TasksOK(task') BY VacancyBegin DEF IInv
<1>2. TaskNamed(task[r])'
  BY <1>0 DEF Keeps, TaskNamed, InvitationSteps, ChallengeSteps, SweepSteps
<1>3. \A q \in Requests \ {r} : TaskNamed(task[q])'
  BY Moves, OthersNamed DEF IInv, Keeps
<1>4. QED BY <1>1, <1>2, <1>3 DEF TasksNamed

LEMMA AfterNothing ==
  ASSUME IInv, Keeps, UNCHANGED task
  PROVE  TasksOK(task') /\ TasksNamed'
<1>1. TasksOK(task') BY DEF IInv
<1>2. ASSUME NEW q \in Requests PROVE TaskNamed(task[q])'
  <2>1. TaskNamed(task[q]) /\ TaskOK(task[q])
    BY DEF IInv, TasksNamed, TasksOK
  <2>2. task[q].step \in ChallengeSteps => challenge[task[q].arg].target \in Arbitrators
    BY <2>1 DEF IInv, RowsNamed, TaskNamed, TaskOK
  <2>3. QED BY <2>1, <2>2 DEF Keeps, TaskNamed, TaskOK, ArbitratorSteps, ChallengeSteps
<1>3. QED BY <1>1, <1>2 DEF TasksNamed

\* A step that leaves the rows alone keeps what IInv says of them.
LEMMA SameData ==
  ASSUME IInv, UNCHANGED data
  PROVE  Keeps /\ DataOK' /\ RowsNamed' /\ AccessIffSeated' /\ SeatNeedsDisclosure'
BY DEF IInv, data, Keeps, DataOK, RowsNamed, AccessIffSeated, SeatNeedsDisclosure, Seated

LEMMA InitIInv == Init => IInv
<1> SUFFICES ASSUME Init PROVE IInv
  OBVIOUS
<1>1. DataOK
  BY DEF Init, DataOK, NoInvitation, NoChallenge, AppointmentStatus, MemberStatus, CaseStage
<1>2. "idle" \in PlainSteps BY DEF PlainSteps
<1>3. TasksOK(task)
  BY <1>2, PlainTask DEF Init, TasksOK
<1>4. RowsNamed /\ TasksNamed
  BY DEF Init, RowsNamed, TasksNamed, TaskNamed, NoInvitation, NoChallenge, InvitationSteps,
         ChallengeSteps, SweepSteps
<1>5. AccessIffSeated /\ SeatNeedsDisclosure
  BY DEF Init, AccessIffSeated, SeatNeedsDisclosure, Seated
<1>6. QED BY <1>1, <1>3, <1>4, <1>5 DEF IInv

\* Setting the status of some rows keeps the rows' other columns.
InvitationRow == [status : AppointmentStatus \cup {"NONE"}, arb : Arbitrators \cup {"NONE"},
                  role : TribunalRole \cup {"NONE"}]
ChallengeRow == [status : Decided \cup {"SUBMITTED", "NONE"}, target : Arbitrators \cup {"NONE"}]

LEMMA InvitationStatus ==
  ASSUME NEW row \in InvitationRow, NEW s \in AppointmentStatus
  PROVE  /\ [row EXCEPT !.status = s] \in InvitationRow
         /\ [row EXCEPT !.status = s].status = s
         /\ [row EXCEPT !.status = s].arb = row.arb
         /\ [row EXCEPT !.status = s].role = row.role
BY DEF InvitationRow

LEMMA ChallengeStatus ==
  ASSUME NEW row \in ChallengeRow, NEW s \in Decided
  PROVE  /\ [row EXCEPT !.status = s] \in ChallengeRow
         /\ [row EXCEPT !.status = s].status = s
         /\ [row EXCEPT !.status = s].target = row.target
BY DEF ChallengeRow

\* One invitation, or one challenge, is given a status.
LEMMA SetInvitationStatus ==
  ASSUME IInv, NEW i \in Invitations, invitation[i].status # "NONE",
         NEW s \in AppointmentStatus,
         invitation' = [invitation EXCEPT ![i].status = s],
         UNCHANGED <<window, disclosed, tribunal, member, team, challenge, hold, stage>>
  PROVE  Keeps /\ DataOK' /\ RowsNamed' /\ AccessIffSeated' /\ SeatNeedsDisclosure'
<1>1. invitation \in [Invitations -> InvitationRow] BY DEF IInv, DataOK, InvitationRow
<1>2. s # "NONE" BY DEF AppointmentStatus
<1>3. \A j \in Invitations : invitation'[j] =
         IF j = i THEN [invitation[j] EXCEPT !.status = s] ELSE invitation[j]
  BY <1>1
<1>4. invitation' \in [Invitations -> InvitationRow]
  BY <1>1, <1>3, InvitationStatus
<1>5. DataOK' BY <1>4 DEF IInv, DataOK, InvitationRow
<1>6. Keeps /\ RowsNamed'
  BY <1>1, <1>2, <1>3, InvitationStatus DEF IInv, Keeps, RowsNamed
<1>7. AccessIffSeated' /\ SeatNeedsDisclosure'
  BY DEF IInv, AccessIffSeated, SeatNeedsDisclosure, Seated
<1>8. QED BY <1>5, <1>6, <1>7

LEMMA SetChallengeStatus ==
  ASSUME IInv, NEW c \in Challenges, challenge[c].status # "NONE", NEW s \in Decided,
         challenge' = [challenge EXCEPT ![c].status = s],
         UNCHANGED <<invitation, window, disclosed, tribunal, member, team, hold, stage>>
  PROVE  Keeps /\ DataOK' /\ RowsNamed' /\ AccessIffSeated' /\ SeatNeedsDisclosure'
<1>1. challenge \in [Challenges -> ChallengeRow] BY DEF IInv, DataOK, ChallengeRow
<1>2. s # "NONE" BY DEF Decided
<1>3. \A d \in Challenges : challenge'[d] =
         IF d = c THEN [challenge[d] EXCEPT !.status = s] ELSE challenge[d]
  BY <1>1
<1>4. challenge' \in [Challenges -> ChallengeRow]
  BY <1>1, <1>3, ChallengeStatus
<1>5. DataOK' BY <1>4 DEF IInv, DataOK, ChallengeRow
<1>6. Keeps /\ RowsNamed'
  BY <1>1, <1>2, <1>3, ChallengeStatus DEF IInv, Keeps, RowsNamed
<1>7. AccessIffSeated' /\ SeatNeedsDisclosure'
  BY DEF IInv, AccessIffSeated, SeatNeedsDisclosure, Seated
<1>8. QED BY <1>5, <1>6, <1>7

\* A bulk update of invitation statuses, as updateMany makes it.
LEMMA BulkInvitationStatus ==
  ASSUME IInv, NEW S \in SUBSET Invitations, NEW s \in AppointmentStatus,
         \A i \in S : invitation[i].status # "NONE",
         invitation' = [i \in Invitations |->
                          IF i \in S THEN [invitation[i] EXCEPT !.status = s] ELSE invitation[i]],
         UNCHANGED <<window, disclosed, tribunal, member, team, challenge, hold, stage>>
  PROVE  Keeps /\ DataOK' /\ RowsNamed' /\ AccessIffSeated' /\ SeatNeedsDisclosure'
<1>1. invitation \in [Invitations -> InvitationRow] BY DEF IInv, DataOK, InvitationRow
<1>2. s # "NONE" BY DEF AppointmentStatus
<1>3. \A j \in Invitations : invitation'[j] =
         IF j \in S THEN [invitation[j] EXCEPT !.status = s] ELSE invitation[j]
  OBVIOUS
<1>4. invitation' \in [Invitations -> InvitationRow]
  BY <1>1, <1>3, InvitationStatus
<1>5. DataOK' BY <1>4 DEF IInv, DataOK, InvitationRow
<1>6. Keeps /\ RowsNamed'
  BY <1>1, <1>2, <1>3, InvitationStatus DEF IInv, Keeps, RowsNamed
<1>7. AccessIffSeated' /\ SeatNeedsDisclosure'
  BY DEF IInv, AccessIffSeated, SeatNeedsDisclosure, Seated
<1>8. QED BY <1>5, <1>6, <1>7

-----------------------------------------------------------------------------
(* Requests that start *)

LEMMA CreateInvitation ==
  ASSUME IInv, NEW i \in Invitations, NEW a \in Arbitrators, NEW role \in TribunalRole,
         createInvitation(i, a, role)
  PROVE  Keeps /\ DataOK' /\ RowsNamed' /\ AccessIffSeated' /\ SeatNeedsDisclosure'
<1>1. DataOK'
  BY DEF IInv, createInvitation, DataOK, AppointmentStatus
<1>2. Keeps /\ RowsNamed'
  BY DEF IInv, createInvitation, DataOK, RowsNamed, Keeps
<1>3. AccessIffSeated' /\ SeatNeedsDisclosure'
  BY DEF IInv, createInvitation, AccessIffSeated, SeatNeedsDisclosure, Seated
<1>4. QED BY <1>1, <1>2, <1>3

LEMMA InviteStep ==
  ASSUME IInv, NEW r \in Requests, NEW i \in Invitations, NEW a \in Arbitrators,
         NEW role \in Roles, invite(r, i, a, role) \/ replaceMember(r, i, a, role)
  PROVE  IInv'
<1>1. role \in TribunalRole BY RolesAssumption DEF RolesAssumption
<1>2. Keeps /\ DataOK' /\ RowsNamed' /\ AccessIffSeated' /\ SeatNeedsDisclosure'
  BY <1>1, CreateInvitation DEF invite, replaceMember
<1>3. CASE invite(r, i, a, role)
  <2>1. "stagePending" \in PlainSteps BY DEF PlainSteps
  <2>2. QED BY <1>2, <1>3, <2>1, AfterPlain DEF invite, IInv
<1>4. CASE replaceMember(r, i, a, role)
  BY <1>2, <1>4, AfterNothing DEF replaceMember, Single, IInv
<1>5. QED BY <1>3, <1>4

\* Guards that only read, and hand their request a first write to do.
LEMMA GuardStep ==
  ASSUME IInv, NEW r \in Requests,
         \/ nominateChair(r)
         \/ constitute(r)
         \/ expireStaleInvitations(r)
         \/ \E i \in Invitations : submitConflictDisclosure(r, i)
         \/ \E i \in Invitations, accept \in BOOLEAN : respond(r, i, accept)
         \/ \E a \in Arbitrators : recordVacancy(r, a)
         \/ \E c \in Challenges, upheld \in BOOLEAN : decideChallenge(r, c, upheld)
  PROVE  IInv'
<1>1. UNCHANGED data
  BY DEF data, nominateChair, constitute, expireStaleInvitations, submitConflictDisclosure,
         respond, recordVacancy, decideChallenge
<1>2. Keeps /\ DataOK' /\ RowsNamed' /\ AccessIffSeated' /\ SeatNeedsDisclosure'
  BY <1>1, SameData
<1>3. CASE nominateChair(r)
  <2>1. "createChairInvitation" \in PlainSteps BY DEF PlainSteps
  <2>2. QED BY <1>2, <1>3, <2>1, AfterPlain DEF nominateChair, IInv
<1>4. CASE constitute(r)
  <2>1. "checkChallenges" \in PlainSteps BY DEF PlainSteps
  <2>2. QED BY <1>2, <1>4, <2>1, AfterPlain DEF constitute, IInv
<1>5. CASE expireStaleInvitations(r)
  <2> DEFINE S == {i \in Invitations : invitation[i].status \in Outstanding}
  <2>1. /\ "sweepDeadlines" \in SweepSteps /\ S \in SUBSET Invitations
        /\ \A i \in S : invitation[i].status # "NONE"
    BY DEF SweepSteps, Outstanding
  <2>2. Begin(r, "sweepDeadlines", S) BY <1>5 DEF expireStaleInvitations
  <2> HIDE DEF S
  <2>3. QED BY <1>2, <2>1, <2>2, AfterSweep DEF IInv
<1>6. CASE \E i \in Invitations : submitConflictDisclosure(r, i)
  <2>1. PICK i \in Invitations : submitConflictDisclosure(r, i) BY <1>6
  <2>2. "fileDisclosure" \in InvitationSteps /\ invitation[i].status # "NONE"
    BY <2>1 DEF InvitationSteps, submitConflictDisclosure
  <2>3. QED BY <1>2, <2>1, <2>2, AfterInvitation DEF submitConflictDisclosure, IInv
<1>7. CASE \E i \in Invitations, accept \in BOOLEAN : respond(r, i, accept)
  <2>1. PICK i \in Invitations, accept \in BOOLEAN : respond(r, i, accept) BY <1>7
  <2> DEFINE step == IF accept THEN "accept" ELSE "decline"
  <2>2. step \in InvitationSteps /\ invitation[i].status # "NONE" /\ Begin(r, step, i)
    BY <2>1 DEF InvitationSteps, respond, Outstanding
  <2> HIDE DEF step
  <2>3. QED BY <1>2, <2>2, AfterInvitation DEF IInv
<1>8. CASE \E a \in Arbitrators : recordVacancy(r, a)
  <2>1. PICK a \in Arbitrators : recordVacancy(r, a) BY <1>8
  <2>2. member[a].status # "NONE" BY <2>1 DEF recordVacancy, Seated
  <2>3. QED BY <1>2, <2>1, <2>2, AfterVacancy DEF recordVacancy, IInv
<1>9. CASE \E c \in Challenges, upheld \in BOOLEAN : decideChallenge(r, c, upheld)
  <2>1. PICK c \in Challenges, upheld \in BOOLEAN : decideChallenge(r, c, upheld) BY <1>9
  <2> DEFINE step == IF upheld THEN "uphold" ELSE "dismiss"
  <2>2. step \in ChallengeSteps /\ step # "vacateChallenged" /\ challenge[c].status # "NONE"
        /\ Begin(r, step, c)
    BY <2>1 DEF ChallengeSteps, decideChallenge
  <2> HIDE DEF step
  <2>3. QED BY <1>2, <2>2, AfterChallenge DEF IInv
<1>10. QED BY <1>3, <1>4, <1>5, <1>6, <1>7, <1>8, <1>9

\* Requests that are one write, and time.
LEMMA SingleStep ==
  ASSUME IInv,
         \/ \E i \in Invitations : Elapse(i)
         \/ \E r \in Requests, i \in Invitations :
              extend(r, i) \/ suspend(r, i) \/ resume(r, i) \/ waive(r, i)
         \/ \E r \in Requests : raiseHold(r) \/ releaseHold(r)
         \/ \E r \in Requests, c \in Challenges, a \in Arbitrators : raiseChallenge(r, c, a)
  PROVE  IInv'
<1>1. CASE \E i \in Invitations, clock \in {"running", "suspended", "waived"}, e \in BOOLEAN :
             SetWindow(i, clock, e) /\ UNCHANGED task
  <2>1. PICK i \in Invitations, clock \in {"running", "suspended", "waived"}, e \in BOOLEAN :
           SetWindow(i, clock, e) /\ UNCHANGED task BY <1>1
  <2>2. DataOK' BY <2>1 DEF SetWindow, IInv, DataOK
  <2>3. Keeps /\ RowsNamed' /\ AccessIffSeated' /\ SeatNeedsDisclosure'
    BY <2>1 DEF SetWindow, IInv, Keeps, RowsNamed, AccessIffSeated, SeatNeedsDisclosure, Seated
  <2>4. QED BY <2>1, <2>2, <2>3, AfterNothing DEF IInv
<1>2. CASE \E r \in Requests : raiseHold(r) \/ releaseHold(r)
  <2>1. DataOK' /\ UNCHANGED task BY <1>2 DEF raiseHold, releaseHold, Single, IInv, DataOK
  <2>2. Keeps /\ RowsNamed' /\ AccessIffSeated' /\ SeatNeedsDisclosure'
    BY <1>2 DEF raiseHold, releaseHold, IInv, Keeps, RowsNamed, AccessIffSeated,
                SeatNeedsDisclosure, Seated
  <2>3. QED BY <2>1, <2>2, AfterNothing DEF IInv
<1>3. CASE \E r \in Requests, c \in Challenges, a \in Arbitrators : raiseChallenge(r, c, a)
  <2>1. PICK r \in Requests, c \in Challenges, a \in Arbitrators : raiseChallenge(r, c, a)
    BY <1>3
  <2>2. DataOK' /\ UNCHANGED task BY <2>1 DEF raiseChallenge, Single, IInv, DataOK
  <2>3. \A d \in Challenges :
          challenge'[d] = IF d = c THEN [status |-> "SUBMITTED", target |-> a] ELSE challenge[d]
    BY <2>1 DEF raiseChallenge, IInv, DataOK
  <2>4. Keeps BY <2>1, <2>3 DEF raiseChallenge, Keeps
  <2>5. RowsNamed' BY <2>1, <2>3 DEF raiseChallenge, IInv, RowsNamed
  <2>6. AccessIffSeated' /\ SeatNeedsDisclosure'
    BY <2>1 DEF raiseChallenge, IInv, AccessIffSeated, SeatNeedsDisclosure, Seated
  <2>7. QED BY <2>2, <2>4, <2>5, <2>6, AfterNothing DEF IInv
<1>4. \A i \in Invitations : window[i].clock \in {"running", "suspended", "waived"}
                             /\ window[i].elapsed \in BOOLEAN
  BY DEF IInv, DataOK
<1>5. QED
  BY <1>1, <1>2, <1>3, <1>4 DEF Elapse, extend, suspend, resume, waive, Single

-----------------------------------------------------------------------------
(* Requests that continue *)

\* Steps that only read: the rows stay, the request goes on or ends.
LEMMA NoWriteStep ==
  ASSUME IInv, NEW r \in Requests,
         \/ RefuseAcceptance(r) \/ SweepDeadlines(r) \/ CheckChallenges(r) \/ CheckHold(r)
         \/ FindSeat(r) \/ Crash(r)
  PROVE  IInv'
<1>1. UNCHANGED data
  BY DEF data, RefuseAcceptance, SweepDeadlines, CheckChallenges, CheckHold, FindSeat, Crash
<1>2. Keeps /\ DataOK' /\ RowsNamed' /\ AccessIffSeated' /\ SeatNeedsDisclosure'
  BY <1>1, SameData
<1>3. CASE Finish(r)
  BY <1>2, <1>3, AfterFinish DEF IInv
<1>4. CASE SweepDeadlines(r) /\ ~Finish(r)
  <2> DEFINE S == {i \in task[r].arg : PastDue(i)}
  <2>1. task[r].arg \subseteq Invitations /\ \A i \in task[r].arg : invitation[i].status # "NONE"
    BY <1>4, ArgNamed DEF SweepDeadlines, At, SweepSteps
  <2>2. /\ "expire" \in SweepSteps /\ S \in SUBSET Invitations
        /\ \A i \in S : invitation[i].status # "NONE"
    BY <2>1 DEF SweepSteps
  <2>3. Continue(r, "expire", S) BY <1>4 DEF SweepDeadlines
  <2> HIDE DEF S
  <2>4. QED BY <1>2, <2>2, <2>3, AfterSweep DEF IInv
<1>5. CASE FindSeat(r)
  <2> DEFINE c == task[r].arg
             step == IF Seated(challenge[c].target) THEN "vacateChallenged" ELSE "withdraw"
  <2>1. c \in Challenges /\ challenge[c].status # "NONE"
    BY <1>5, ArgNamed DEF FindSeat, At, ChallengeSteps
  <2>2. step \in ChallengeSteps /\ Continue(r, step, c) BY <1>5 DEF FindSeat, ChallengeSteps
  <2>3. step = "vacateChallenged" => member[challenge[c].target].status # "NONE"
    BY DEF Seated
  <2> HIDE DEF c, step
  <2>4. QED BY <1>2, <2>1, <2>2, <2>3, AfterChallenge DEF IInv
<1>6. CASE CheckChallenges(r) /\ ~Finish(r)
  <2>1. "checkHold" \in PlainSteps BY DEF PlainSteps
  <2>2. QED BY <1>2, <1>6, <2>1, AfterPlain DEF CheckChallenges, IInv
<1>7. CASE CheckHold(r) /\ ~Finish(r)
  <2>1. "setConstituted" \in PlainSteps BY DEF PlainSteps
  <2>2. QED BY <1>2, <1>7, <2>1, AfterPlain DEF CheckHold, IInv
<1>8. QED BY <1>3, <1>4, <1>5, <1>6, <1>7 DEF RefuseAcceptance, Crash

\* Writes that touch neither seats nor access.
LEMMA RowWriteStep ==
  ASSUME IInv, NEW r \in Requests,
         \/ Decline(r) \/ Expire(r) \/ Withdraw(r) \/ Dismiss(r) \/ Uphold(r)
         \/ ToConflictCheckStatus(r) \/ FileDisclosure(r)
  PROVE  IInv'
<1> DEFINE RowsKept == Keeps /\ DataOK' /\ RowsNamed' /\ AccessIffSeated' /\ SeatNeedsDisclosure'
<1>1. CASE Decline(r)
  <2>1. task[r].arg \in Invitations /\ invitation[task[r].arg].status # "NONE"
    BY <1>1, ArgNamed DEF Decline, At, InvitationSteps
  <2>2. RowsKept
    BY <1>1, <2>1, SetInvitationStatus DEF Decline, AppointmentStatus
  <2>3. QED BY <1>1, <2>2, AfterFinish DEF Decline, IInv
<1>2. CASE Expire(r)
  <2>1. task[r].arg \subseteq Invitations /\ \A i \in task[r].arg : invitation[i].status # "NONE"
    BY <1>2, ArgNamed DEF Expire, At, SweepSteps
  <2>2. RowsKept
    BY <1>2, <2>1, BulkInvitationStatus DEF Expire, AppointmentStatus
  <2>3. QED BY <1>2, <2>2, AfterFinish DEF Expire, IInv
<1>3. CASE Withdraw(r)
  <2> DEFINE S == {i \in Invitations : /\ invitation[i].arb = challenge[task[r].arg].target
                                       /\ invitation[i].status \in Outstanding \cup {"ACCEPTED"}}
  <2>1. \A i \in S : invitation[i].status # "NONE" BY DEF Outstanding
  <2>2. invitation' = [i \in Invitations |->
           IF i \in S THEN [invitation[i] EXCEPT !.status = "WITHDRAWN"] ELSE invitation[i]]
    BY <1>3 DEF Withdraw
  <2>3. S \in SUBSET Invitations OBVIOUS
  <2> HIDE DEF S
  <2>4. RowsKept
    BY <1>3, <2>1, <2>2, <2>3, BulkInvitationStatus DEF Withdraw, AppointmentStatus
  <2>5. QED BY <1>3, <2>4, AfterFinish DEF Withdraw, IInv
<1>4. CASE Dismiss(r)
  <2>1. task[r].arg \in Challenges /\ challenge[task[r].arg].status # "NONE"
    BY <1>4, ArgNamed DEF Dismiss, At, ChallengeSteps
  <2>2. RowsKept BY <1>4, <2>1, SetChallengeStatus DEF Dismiss, Decided
  <2>3. QED BY <1>4, <2>2, AfterFinish DEF Dismiss, IInv
<1>5. CASE Uphold(r)
  <2>1. task[r].arg \in Challenges /\ challenge[task[r].arg].status # "NONE"
    BY <1>5, ArgNamed DEF Uphold, At, ChallengeSteps
  <2>2. RowsKept BY <1>5, <2>1, SetChallengeStatus DEF Uphold, Decided
  <2>3. "findSeat" \in ChallengeSteps /\ Continue(r, "findSeat", task[r].arg)
    BY <1>5 DEF ChallengeSteps, Uphold
  <2>4. TasksOK(task') /\ TasksNamed' BY <2>1, <2>2, <2>3, AfterChallenge
  <2>5. QED BY <2>2, <2>4 DEF IInv
<1>6. CASE ToConflictCheckStatus(r)
  <2>1. task[r].arg \in Invitations /\ invitation[task[r].arg].status # "NONE"
    BY <1>6, ArgNamed DEF ToConflictCheckStatus, At, InvitationSteps
  <2>2. RowsKept
    BY <1>6, <2>1, SetInvitationStatus DEF ToConflictCheckStatus, AppointmentStatus
  <2>3. "stageConflictCheck" \in PlainSteps BY DEF PlainSteps
  <2>4. QED BY <1>6, <2>2, <2>3, AfterPlain DEF ToConflictCheckStatus, IInv
<1>7. CASE FileDisclosure(r)
  <2>1. /\ task[r].arg \in Invitations
        /\ invitation[task[r].arg].status # "NONE"
        /\ invitation[task[r].arg].arb \in Arbitrators
    BY <1>7, ArgNamed DEF FileDisclosure, At, InvitationSteps
  <2>2. DataOK' BY <1>7, <2>1 DEF FileDisclosure, IInv, DataOK
  <2>3. Keeps /\ RowsNamed' /\ AccessIffSeated' /\ SeatNeedsDisclosure'
    BY <1>7 DEF FileDisclosure, IInv, Keeps, RowsNamed, AccessIffSeated, SeatNeedsDisclosure, Seated
  <2>4. "toConflictCheckStatus" \in InvitationSteps BY DEF InvitationSteps
  <2>5. Continue(r, "toConflictCheckStatus", task[r].arg) BY <1>7 DEF FileDisclosure
  <2>6. TasksOK(task') /\ TasksNamed' BY <2>1, <2>3, <2>4, <2>5, AfterInvitation
  <2>7. QED BY <2>2, <2>3, <2>6 DEF IInv
<1>8. QED BY <1>1, <1>2, <1>3, <1>4, <1>5, <1>6, <1>7

\* The chair's invitation, the stage, the hold of a re-screening, constitution.
LEMMA PlainWriteStep ==
  ASSUME IInv, NEW r \in Requests,
         \/ \E i \in Invitations, a \in Arbitrators : CreateChairInvitation(r, i, a)
         \/ AdvanceStage(r)
         \/ \E match \in BOOLEAN : Rescreen(r, match)
         \/ SetConstituted(r)
  PROVE  IInv'
<1>1. CASE \E i \in Invitations, a \in Arbitrators : CreateChairInvitation(r, i, a)
  <2>1. PICK i \in Invitations, a \in Arbitrators : CreateChairInvitation(r, i, a) BY <1>1
  <2>2. "CHAIR" \in TribunalRole BY DEF TribunalRole
  <2>3. Keeps /\ DataOK' /\ RowsNamed' /\ AccessIffSeated' /\ SeatNeedsDisclosure'
    BY <2>1, <2>2, CreateInvitation DEF CreateChairInvitation
  <2>4. QED BY <2>1, <2>3, AfterFinish DEF CreateChairInvitation, IInv
<1>2. CASE AdvanceStage(r)
  <2>1. DataOK' /\ Finish(r)
    BY <1>2 DEF AdvanceStage, advanceStage, IInv, DataOK, CaseStage
  <2>2. Keeps /\ RowsNamed' /\ AccessIffSeated' /\ SeatNeedsDisclosure'
    BY <1>2 DEF AdvanceStage, advanceStage, IInv, Keeps, RowsNamed, AccessIffSeated,
                SeatNeedsDisclosure, Seated
  <2>3. QED BY <2>1, <2>2, AfterFinish DEF IInv
<1>3. CASE \E match \in BOOLEAN : Rescreen(r, match)
  <2>1. DataOK' /\ Finish(r) BY <1>3 DEF Rescreen, IInv, DataOK
  <2>2. Keeps /\ RowsNamed' /\ AccessIffSeated' /\ SeatNeedsDisclosure'
    BY <1>3 DEF Rescreen, IInv, Keeps, RowsNamed, AccessIffSeated, SeatNeedsDisclosure, Seated
  <2>3. QED BY <2>1, <2>2, AfterFinish DEF IInv
<1>4. CASE SetConstituted(r)
  <2>1. DataOK' BY <1>4 DEF SetConstituted, IInv, DataOK
  <2>2. Keeps /\ RowsNamed' /\ AccessIffSeated' /\ SeatNeedsDisclosure'
    BY <1>4 DEF SetConstituted, IInv, Keeps, RowsNamed, AccessIffSeated, SeatNeedsDisclosure, Seated
  <2>3. "stageConstituted" \in PlainSteps BY DEF PlainSteps
  <2>4. QED BY <1>4, <2>1, <2>2, <2>3, AfterPlain DEF SetConstituted, IInv
<1>5. QED BY <1>1, <1>2, <1>3, <1>4

\* The transaction of an acceptance seats the arbitrator and opens access at once.
LEMMA AcceptStep ==
  ASSUME IInv, NEW r \in Requests, Accept(r)
  PROVE  IInv'
<1>1. PICK i \in Invitations, a \in Arbitrators, role \in TribunalRole :
         /\ i = task[r].arg /\ invitation[i].status # "NONE"
         /\ a = invitation[i].arb /\ role = invitation[i].role
  BY ArgNamed DEF Accept, At, InvitationSteps
<1>2. /\ a \in disclosed
      /\ member' = [member EXCEPT ![a] = [status |-> "ACTIVE", role |-> role]]
      /\ team' = team \cup {<<a, caseRoleForTribunalRole(role)>>}
      /\ invitation' = [invitation EXCEPT ![i].status = "ACCEPTED"]
      /\ tribunal' \in [composition : {"NONE", "SOLE", "THREE_MEMBER"}, constituted : BOOLEAN]
      /\ Continue(r, "rescreen", {})
      /\ UNCHANGED <<window, disclosed, challenge, hold, stage>>
  BY <1>1 DEF Accept, IInv, DataOK
<1>3. DataOK'
  <2>1. team' \subseteq Arbitrators \X CaseRole
    BY <1>1, <1>2, CaseRoleOfSeat DEF IInv, DataOK
  <2>2. invitation \in [Invitations -> InvitationRow] /\ "ACCEPTED" \in AppointmentStatus
    BY DEF IInv, DataOK, InvitationRow, AppointmentStatus
  <2>3. invitation' \in [Invitations -> InvitationRow]
    BY <1>1, <1>2, <2>2, InvitationStatus
  <2>4. member' \in [Arbitrators -> [status : MemberStatus, role : TribunalRole \cup {"NONE"}]]
    BY <1>1, <1>2 DEF IInv, DataOK, MemberStatus
  <2>5. QED BY <1>2, <2>1, <2>3, <2>4 DEF IInv, DataOK, InvitationRow
<1>4. Keeps /\ RowsNamed'
  BY <1>1, <1>2 DEF IInv, DataOK, Keeps, RowsNamed
<1>5. AccessIffSeated'
  <2>1. ASSUME NEW b \in Arbitrators, b # a
        PROVE  Seated(b)' <=> \E cr \in CaseRole : <<b, cr>> \in team'
    BY <1>1, <1>2, <2>1 DEF IInv, DataOK, AccessIffSeated, Seated
  <2>2. Seated(a)'
    BY <1>1, <1>2 DEF IInv, DataOK, Seated
  <2>3. \E cr \in CaseRole : <<a, cr>> \in team'
    BY <1>2, CaseRoleOfSeat
  <2>4. ASSUME NEW b \in Arbitrators
        PROVE  Seated(b)' <=> \E cr \in CaseRole : <<b, cr>> \in team'
    BY <2>1, <2>2, <2>3
  <2>5. QED BY <2>4 DEF AccessIffSeated
<1>6. SeatNeedsDisclosure'
  BY <1>1, <1>2 DEF IInv, DataOK, SeatNeedsDisclosure
<1>7. "rescreen" \in PlainSteps BY DEF PlainSteps
<1>8. QED BY <1>2, <1>3, <1>4, <1>5, <1>6, <1>7, AfterPlain DEF IInv

\* The transaction of a vacancy empties the seat and closes access at once.
LEMMA VacateMember ==
  ASSUME IInv, NEW a \in Arbitrators, member[a].status # "NONE", vacateMember(a),
         UNCHANGED <<invitation, window, disclosed, challenge, hold, stage>>
  PROVE  Keeps /\ DataOK' /\ RowsNamed' /\ AccessIffSeated' /\ SeatNeedsDisclosure'
<1>1. DataOK' BY DEF IInv, DataOK, vacateMember, MemberStatus
<1>2. Keeps /\ RowsNamed' BY DEF IInv, DataOK, vacateMember, Keeps, RowsNamed
<1>3. SeatNeedsDisclosure' BY DEF IInv, DataOK, vacateMember, SeatNeedsDisclosure
<1>4. AccessIffSeated'
  <2>1. ASSUME NEW b \in Arbitrators, b # a
        PROVE  Seated(b)' <=> \E cr \in CaseRole : <<b, cr>> \in team'
    BY <2>1 DEF IInv, DataOK, vacateMember, AccessIffSeated, Seated
  <2>2. ~Seated(a)' /\ \A cr \in CaseRole : <<a, cr>> \notin team'
    BY DEF IInv, DataOK, vacateMember, Seated
  <2>3. ASSUME NEW b \in Arbitrators
        PROVE  Seated(b)' <=> \E cr \in CaseRole : <<b, cr>> \in team'
    BY <2>1, <2>2
  <2>4. QED BY <2>3 DEF AccessIffSeated
<1>5. QED BY <1>1, <1>2, <1>3, <1>4

LEMMA VacateStep ==
  ASSUME IInv, NEW r \in Requests, Vacate(r) \/ VacateChallenged(r)
  PROVE  IInv'
<1>1. CASE Vacate(r)
  <2>1. task[r].arg \in Arbitrators /\ member[task[r].arg].status # "NONE"
    BY <1>1, ArgNamed DEF Vacate, At
  <2>2. Keeps /\ DataOK' /\ RowsNamed' /\ AccessIffSeated' /\ SeatNeedsDisclosure'
    BY <1>1, <2>1, VacateMember DEF Vacate
  <2>3. QED BY <1>1, <2>2, AfterFinish DEF Vacate, IInv
<1>2. CASE VacateChallenged(r)
  <2> DEFINE c == task[r].arg
  <2>1. /\ c \in Challenges /\ challenge[c].status # "NONE"
        /\ challenge[c].target \in Arbitrators
        /\ member[challenge[c].target].status # "NONE"
    BY <1>2, ArgNamed DEF VacateChallenged, At, ChallengeSteps
  <2>2. Keeps /\ DataOK' /\ RowsNamed' /\ AccessIffSeated' /\ SeatNeedsDisclosure'
    BY <1>2, <2>1, VacateMember DEF VacateChallenged
  <2>3. "withdraw" \in ChallengeSteps /\ Continue(r, "withdraw", c)
    BY <1>2 DEF ChallengeSteps, VacateChallenged
  <2> HIDE DEF c
  <2>4. TasksOK(task') /\ TasksNamed' BY <2>1, <2>2, <2>3, AfterChallenge
  <2>5. QED BY <2>2, <2>4 DEF IInv
<1>3. QED BY <1>1, <1>2

-----------------------------------------------------------------------------
(* The theorems *)

LEMMA NextIInv == IInv /\ [Next]_vars => IInv'
<1> SUFFICES ASSUME IInv, [Next]_vars PROVE IInv'
  OBVIOUS
<1>1. ASSUME NEW r \in Requests, Start(r) PROVE IInv'
  BY <1>1, InviteStep, GuardStep, SingleStep DEF Start
<1>2. ASSUME NEW r \in Requests, Step(r) PROVE IInv'
  BY <1>2, NoWriteStep, RowWriteStep, PlainWriteStep, AcceptStep, VacateStep DEF Step
<1>3. ASSUME NEW r \in Requests, Crash(r) PROVE IInv'
  BY <1>3, NoWriteStep
<1>4. ASSUME NEW i \in Invitations, Elapse(i) PROVE IInv'
  BY <1>4, SingleStep
<1>5. CASE UNCHANGED vars
  <2>1. UNCHANGED data /\ UNCHANGED task BY <1>5 DEF vars, data
  <2>2. QED BY <2>1, SameData, AfterNothing DEF IInv
<1>6. QED BY <1>1, <1>2, <1>3, <1>4, <1>5 DEF Next

\* The inductive invariant of the appointment handlers.
THEOREM Invariance == Spec => []IInv
BY InitIInv, NextIInv, PTL DEF Spec

\* Rows and requests keep the shape the schema gives them.
THEOREM TypeCorrect == Spec => []TypeOK
<1>1. IInv => TypeOK
  BY DEF IInv, DataOK, TasksOK, TypeOK
<1>2. QED BY <1>1, Invariance, PTL

\* At every moment the users with deliberation access are those whose tribunal
\* seat is ACTIVE, however acceptances, vacancies and decisions interleave.
THEOREM AccessFollowsSeat == Spec => []AccessIffSeated
<1>1. IInv => AccessIffSeated BY DEF IInv
<1>2. QED BY <1>1, Invariance, PTL

\* Nobody is ever seated without a conflict disclosure on file.
THEOREM DisclosureBeforeSeat == Spec => []SeatNeedsDisclosure
<1>1. IInv => SeatNeedsDisclosure BY DEF IInv
<1>2. QED BY <1>1, Invariance, PTL

-----------------------------------------------------------------------------
(* The refinement *)

SeatedSet == {a \in Arbitrators : Seated(a)}

\* Seats and access depend on the member rows and the case team alone.
LEMMA SameDeliberations ==
  ASSUME UNCHANGED <<disclosed, member, team>>
  PROVE  UNCHANGED <<disclosed, SeatedSet, Entitled>>
BY DEF SeatedSet, Entitled, Seated

\* The acceptance transaction is the abstract Seat.
LEMMA AcceptSeats ==
  ASSUME IInv, NEW r \in Requests, Accept(r)
  PROVE  \E a \in Arbitrators : Deliberations!Seat(a)
<1>1. PICK a \in Arbitrators, role \in TribunalRole :
         a = invitation[task[r].arg].arb /\ role = invitation[task[r].arg].role
  BY ArgNamed DEF Accept, At, InvitationSteps
<1>2. /\ a \in disclosed /\ disclosed' = disclosed
      /\ member' = [member EXCEPT ![a] = [status |-> "ACTIVE", role |-> role]]
      /\ team' = team \cup {<<a, caseRoleForTribunalRole(role)>>}
  BY <1>1 DEF Accept
<1>3. SeatedSet' = SeatedSet \cup {a}
  BY <1>2 DEF IInv, DataOK, SeatedSet, Seated
<1>4. Entitled' = Entitled \cup {a}
  BY <1>2, CaseRoleOfSeat DEF Entitled
<1>5. QED BY <1>2, <1>3, <1>4 DEF Deliberations!Seat, SeatedSet

\* The vacancy transaction is the abstract Empty.
LEMMA VacancyEmpties ==
  ASSUME IInv, NEW a \in Arbitrators, vacateMember(a), disclosed' = disclosed
  PROVE  Deliberations!Empty(a)
<1>1. SeatedSet' = SeatedSet \ {a}
  BY DEF IInv, DataOK, vacateMember, SeatedSet, Seated
<1>2. Entitled' = Entitled \ {a}
  BY DEF vacateMember, Entitled
<1>3. QED BY <1>1, <1>2 DEF Deliberations!Empty, SeatedSet

LEMMA StepRefines == IInv /\ [Next]_vars => [Deliberations!Next]_(Deliberations!vars)
<1> SUFFICES ASSUME IInv, [Next]_vars
             PROVE  Deliberations!Next \/ UNCHANGED <<disclosed, SeatedSet, Entitled>>
  BY DEF Deliberations!vars, SeatedSet
<1>1. ASSUME NEW r \in Requests, FileDisclosure(r) PROVE Deliberations!Next
  <2>1. PICK a \in Arbitrators : a = invitation[task[r].arg].arb
    BY <1>1, ArgNamed DEF FileDisclosure, At, InvitationSteps
  <2>2. disclosed' = disclosed \cup {a} /\ UNCHANGED <<SeatedSet, Entitled>>
    BY <1>1, <2>1 DEF FileDisclosure, SeatedSet, Entitled, Seated
  <2>3. Deliberations!Disclose(a) BY <2>2 DEF Deliberations!Disclose, SeatedSet
  <2>4. QED BY <2>3 DEF Deliberations!Next
<1>2. ASSUME NEW r \in Requests, Accept(r) PROVE Deliberations!Next
  BY <1>2, AcceptSeats DEF Deliberations!Next
<1>3. ASSUME NEW r \in Requests, Vacate(r) \/ VacateChallenged(r) PROVE Deliberations!Next
  <2>1. PICK a \in Arbitrators : vacateMember(a)
    BY <1>3, ArgNamed DEF Vacate, VacateChallenged, At, ChallengeSteps
  <2>2. disclosed' = disclosed BY <1>3 DEF Vacate, VacateChallenged
  <2>3. QED BY <2>1, <2>2, VacancyEmpties DEF Deliberations!Next
<1>4. ASSUME NEW r \in Requests, Start(r) PROVE UNCHANGED <<disclosed, member, team>>
  BY <1>4 DEF Start, invite, replaceMember, createInvitation, submitConflictDisclosure, respond,
       extend, suspend, resume, waive, SetWindow, recordVacancy, raiseChallenge, decideChallenge,
       nominateChair, expireStaleInvitations, constitute, raiseHold, releaseHold
<1>5. ASSUME NEW r \in Requests, Step(r), ~FileDisclosure(r), ~Accept(r), ~Vacate(r),
             ~VacateChallenged(r)
      PROVE  UNCHANGED <<disclosed, member, team>>
  BY <1>5 DEF Step, CreateChairInvitation, createInvitation, ToConflictCheckStatus, Decline,
       RefuseAcceptance, Rescreen, SweepDeadlines, Expire, CheckChallenges, CheckHold,
       SetConstituted, Dismiss, Uphold, FindSeat, Withdraw, AdvanceStage, advanceStage
<1>6. ASSUME NEW r \in Requests, Crash(r) PROVE UNCHANGED <<disclosed, member, team>>
  BY <1>6 DEF Crash
<1>7. ASSUME NEW i \in Invitations, Elapse(i) PROVE UNCHANGED <<disclosed, member, team>>
  BY <1>7 DEF Elapse, SetWindow
<1>8. CASE UNCHANGED vars
  BY <1>8, SameDeliberations DEF vars
<1>9. QED
  BY <1>1, <1>2, <1>3, <1>4, <1>5, <1>6, <1>7, <1>8, SameDeliberations DEF Next

\* Every behaviour of the appointment handlers is one that DeliberationAccess
\* allows: no interleaving parts the access to deliberations from the seat.
THEOREM GuardsDeliberations == Spec => DeliberationsGuarded
<1>1. Init => Deliberations!Init
  BY DEF Init, Deliberations!Init, Seated, Entitled
<1>2. QED
  BY <1>1, StepRefines, Invariance, PTL DEF Spec, Deliberations!Spec, DeliberationsGuarded
-----------------------------------------------------------------------------
(* Requests one at a time *)

Alone == \A r, s \in Requests : r = s

\* What a request has read is still so while no other request runs: the answer it
\* is about to write is to an open invitation, what it expires is late, the
\* challenge it decides is undecided, and what it constitutes is complete.  Time
\* alone passes meanwhile, and makes nothing that was late be in time.
Holds(t) ==
  /\ t.step \in {"accept", "decline"} => invitation[t.arg].status \in Outstanding
  /\ t.step \in {"fileDisclosure", "toConflictCheckStatus"} => invitation[t.arg].status \notin Closed
  /\ t.step = "sweepDeadlines" => \A i \in t.arg : invitation[i].status \in Outstanding
  /\ t.step = "expire" => \A i \in t.arg : invitation[i].status \in Outstanding /\ PastDue(i)
  /\ t.step \in {"uphold", "dismiss"} => challenge[t.arg].status \notin Decided
  /\ t.step \in {"checkChallenges", "checkHold", "setConstituted"} => SeatsComplete
  /\ t.step \in {"checkHold", "setConstituted"} => ~ChallengePending
  /\ t.step = "setConstituted" => ~hold

SerialInv == \A r \in Requests : Holds(task[r])

GuardedSteps == {"accept", "decline", "fileDisclosure", "toConflictCheckStatus", "sweepDeadlines", "expire",
                 "uphold", "dismiss", "checkChallenges", "checkHold", "setConstituted"}

LEMMA Unguarded ==
  ASSUME NEW t, t.step \notin GuardedSteps
  PROVE  Holds(t)'
BY DEF Holds, GuardedSteps

\* A new request holds what it has just read.
LEMMA StartHolds ==
  ASSUME IInv, NEW r \in Requests, Start(r), task[r].step = "idle"
  PROVE  Holds(task[r])'
<1>1. TasksOK(task)
  BY DEF IInv
<1>2. CASE UNCHANGED task
  BY <1>2, Unguarded DEF GuardedSteps
<1>3. CASE \E i \in Invitations, a \in Arbitrators, role \in Roles : invite(r, i, a, role)
  <2>1. Begin(r, "stagePending", {})
    BY <1>3 DEF invite
  <2>2. task'[r] = [step |-> "stagePending", arg |-> {}]
    BY <1>1, <2>1, Moves
  <2>3. QED BY <2>2, Unguarded DEF GuardedSteps
<1>4. CASE nominateChair(r)
  <2>1. Begin(r, "createChairInvitation", {})
    BY <1>4 DEF nominateChair
  <2>2. task'[r] = [step |-> "createChairInvitation", arg |-> {}]
    BY <1>1, <2>1, Moves
  <2>3. QED BY <2>2, Unguarded DEF GuardedSteps
<1>5. CASE \E a \in Arbitrators : recordVacancy(r, a)
  <2>1. PICK a \in Arbitrators : Begin(r, "vacate", a)
    BY <1>5 DEF recordVacancy
  <2>2. task'[r] = [step |-> "vacate", arg |-> a]
    BY <1>1, <2>1, Moves
  <2>3. QED BY <2>2, Unguarded DEF GuardedSteps
<1>6. CASE \E i \in Invitations : submitConflictDisclosure(r, i)
  <2>1. PICK i \in Invitations : submitConflictDisclosure(r, i)
    BY <1>6
  <2>2. task'[r] = [step |-> "fileDisclosure", arg |-> i] /\ invitation'[i].status \notin Closed
    BY <1>1, <2>1, Moves DEF submitConflictDisclosure
  <2>3. QED BY <2>2 DEF Holds
<1>7. CASE \E i \in Invitations, accept \in BOOLEAN : respond(r, i, accept)
  <2>1. PICK i \in Invitations, accept \in BOOLEAN : respond(r, i, accept)
    BY <1>7
  <2>2. PICK step \in {"accept", "decline"} : step = IF accept THEN "accept" ELSE "decline"
    OBVIOUS
  <2>3. task'[r] = [step |-> step, arg |-> i] /\ invitation'[i].status \in Outstanding
    BY <1>1, <2>1, <2>2, Moves DEF respond
  <2>4. QED BY <2>3 DEF Holds
<1>8. CASE \E c \in Challenges, upheld \in BOOLEAN : decideChallenge(r, c, upheld)
  <2>1. PICK c \in Challenges, upheld \in BOOLEAN : decideChallenge(r, c, upheld)
    BY <1>8
  <2>2. PICK step \in {"uphold", "dismiss"} : step = IF upheld THEN "uphold" ELSE "dismiss"
    OBVIOUS
  <2>3. task'[r] = [step |-> step, arg |-> c] /\ challenge'[c].status \notin Decided
    BY <1>1, <2>1, <2>2, Moves DEF decideChallenge
  <2>4. QED BY <2>3 DEF Holds
<1>9. CASE expireStaleInvitations(r)
  <2>1. PICK S : S = {i \in Invitations : invitation[i].status \in Outstanding}
    OBVIOUS
  <2>2. Begin(r, "sweepDeadlines", S) /\ UNCHANGED invitation
    BY <1>9, <2>1 DEF expireStaleInvitations
  <2>3. task'[r] = [step |-> "sweepDeadlines", arg |-> S]
    BY <1>1, <2>2, Moves
  <2>4. QED BY <2>1, <2>2, <2>3 DEF Holds
<1>10. CASE constitute(r)
  <2>1. task'[r] = [step |-> "checkChallenges", arg |-> {}]
    BY <1>1, <1>10, Moves DEF constitute
  <2>2. SeatsComplete'
    BY <1>10 DEF constitute, SeatsComplete, InSeat, Seated
  <2>3. QED BY <2>1, <2>2 DEF Holds
<1>11. QED
  BY <1>2, <1>3, <1>4, <1>5, <1>6, <1>7, <1>8, <1>9, <1>10
     DEF Start, replaceMember, extend, suspend, resume, waive, raiseChallenge, raiseHold, releaseHold, Single

\* A request that goes on holds what it held, and what it has read now.
LEMMA StepHolds ==
  ASSUME IInv, NEW r \in Requests, Step(r), Holds(task[r])
  PROVE  Holds(task[r])'
<1>1. TasksOK(task)
  BY DEF IInv
<1>2. CASE task'[r].step \notin GuardedSteps
  BY <1>2, Unguarded
<1>3. CASE FileDisclosure(r)
  <2>1. task'[r] = [step |-> "toConflictCheckStatus", arg |-> task[r].arg]
    BY <1>1, <1>3, Moves DEF FileDisclosure
  <2>2. QED BY <1>3, <2>1 DEF FileDisclosure, At, Holds
<1>4. CASE SweepDeadlines(r) /\ task'[r].step \in GuardedSteps
  <2>1. PICK S : S = {i \in task[r].arg : PastDue(i)}
    OBVIOUS
  <2>2. Continue(r, "expire", S)
    BY <1>1, <1>4, <2>1, Ends DEF SweepDeadlines, GuardedSteps
  <2>3. task'[r] = [step |-> "expire", arg |-> S]
    BY <1>1, <2>2, Moves
  <2>4. \A i \in S : invitation'[i].status \in Outstanding /\ PastDue(i)'
    BY <1>4, <2>1 DEF SweepDeadlines, At, Holds, PastDue
  <2>5. QED BY <2>3, <2>4 DEF Holds
<1>5. CASE CheckChallenges(r) /\ task'[r].step \in GuardedSteps
  <2>1. Continue(r, "checkHold", {}) /\ ~ChallengePending
    BY <1>1, <1>5, Ends DEF CheckChallenges, GuardedSteps
  <2>2. task'[r] = [step |-> "checkHold", arg |-> {}]
    BY <1>1, <2>1, Moves
  <2>3. SeatsComplete' /\ ~ChallengePending'
    BY <1>5, <2>1 DEF CheckChallenges, At, Holds, SeatsComplete, InSeat, Seated, ChallengePending
  <2>4. QED BY <2>2, <2>3 DEF Holds
<1>6. CASE CheckHold(r) /\ task'[r].step \in GuardedSteps
  <2>1. Continue(r, "setConstituted", {}) /\ ~hold
    BY <1>1, <1>6, Ends DEF CheckHold, GuardedSteps
  <2>2. task'[r] = [step |-> "setConstituted", arg |-> {}]
    BY <1>1, <2>1, Moves
  <2>3. SeatsComplete' /\ ~ChallengePending' /\ ~hold'
    BY <1>6, <2>1 DEF CheckHold, At, Holds, SeatsComplete, InSeat, Seated, ChallengePending
  <2>4. QED BY <2>2, <2>3 DEF Holds
<1>7. CASE \/ \E i \in Invitations, a \in Arbitrators : CreateChairInvitation(r, i, a)
           \/ Decline(r) \/ RefuseAcceptance(r) \/ Expire(r) \/ Vacate(r) \/ Dismiss(r) \/ Withdraw(r)
           \/ AdvanceStage(r)
           \/ \E match \in BOOLEAN : Rescreen(r, match)
  <2>1. task'[r].step = "idle"
    BY <1>1, <1>7, Ends DEF CreateChairInvitation, Decline, RefuseAcceptance, Expire, Vacate, Dismiss,
                            Withdraw, AdvanceStage, advanceStage, Rescreen
  <2>2. QED BY <2>1, Unguarded DEF GuardedSteps
<1>8. CASE \/ ToConflictCheckStatus(r) \/ Accept(r) \/ SetConstituted(r) \/ Uphold(r) \/ FindSeat(r)
           \/ VacateChallenged(r)
  <2>1. PICK step \in {"stageConflictCheck", "rescreen", "stageConstituted", "findSeat",
                       "vacateChallenged", "withdraw"}, arg \in {{}, task[r].arg} : Continue(r, step, arg)
    BY <1>8 DEF ToConflictCheckStatus, Accept, SetConstituted, Uphold, FindSeat, VacateChallenged
  <2>2. task'[r] = [step |-> step, arg |-> arg]
    BY <1>1, <2>1, Moves
  <2>3. QED BY <2>2, Unguarded DEF GuardedSteps
<1>9. QED BY <1>2, <1>3, <1>4, <1>5, <1>6, <1>7, <1>8 DEF Step

\* No new request begins beside one that is at work.
LEMMA StartsIdle ==
  ASSUME NEW r \in Requests, Start(r)
  PROVE  task[r].step = "idle"
BY DEF Start, invite, replaceMember, submitConflictDisclosure, respond, extend, suspend, resume, waive,
       recordVacancy, raiseChallenge, decideChallenge, nominateChair, expireStaleInvitations, constitute,
       raiseHold, releaseHold, Begin, Single

LEMMA TimeHolds ==
  ASSUME IInv, NEW i \in Invitations, Elapse(i), NEW r \in Requests, Holds(task[r])
  PROVE  Holds(task[r])'
<1>1. UNCHANGED <<task, invitation, tribunal, member, challenge, hold>>
  BY DEF Elapse, SetWindow
<1>2. \A j \in Invitations : PastDue(j) => PastDue(j)'
  BY DEF Elapse, SetWindow, PastDue, IInv, DataOK
<1>3. task[r].step = "expire" => task[r].arg \subseteq Invitations
  BY DEF IInv, TasksOK, TaskOK, SweepSteps
<1>4. QED BY <1>1, <1>2, <1>3 DEF Holds, SeatsComplete, InSeat, Seated, ChallengePending

LEMMA SerialNext ==
  ASSUME Alone, IInv, SerialInv, [Next]_vars
  PROVE  SerialInv'
<1> SUFFICES ASSUME NEW q \in Requests PROVE Holds(task[q])'
  BY DEF SerialInv
<1>1. Holds(task[q])
  BY DEF SerialInv
<1>2. ASSUME NEW r \in Requests, Start(r) \/ Step(r) \/ Crash(r) PROVE Holds(task[q])'
  <2>1. q = r
    BY DEF Alone
  <2>2. CASE Start(r)
    BY <2>1, <2>2, StartHolds, StartsIdle
  <2>3. CASE Step(r)
    BY <1>1, <2>1, <2>3, StepHolds
  <2>4. CASE Crash(r)
    <3>1. task'[r].step = "idle"
      BY <2>4, Ends DEF Crash, IInv
    <3>2. QED BY <2>1, <3>1, Unguarded DEF GuardedSteps
  <2>5. QED BY <1>2, <2>2, <2>3, <2>4
<1>3. ASSUME NEW i \in Invitations, Elapse(i) PROVE Holds(task[q])'
  BY <1>1, <1>3, TimeHolds
<1>4. CASE UNCHANGED vars
  BY <1>1, <1>4 DEF vars, Holds, PastDue, SeatsComplete, InSeat, Seated, ChallengePending
<1>5. QED BY <1>2, <1>3, <1>4 DEF Next

LEMMA SerialInit == Init => SerialInv
BY DEF Init, SerialInv, Holds

LEMMA SerialInvariance ==
  ASSUME Alone
  PROVE  Spec => []SerialInv
<1>1. IInv /\ SerialInv /\ [Next]_vars => SerialInv'
  BY SerialNext
<1>2. QED BY <1>1, SerialInit, Invariance, PTL DEF Spec

NoRevival == \A i \in Invitations : invitation[i].status \in Closed => invitation'[i].status \in Closed
ExpiresLate ==
  \A i \in Invitations :
    invitation[i].status # "EXPIRED" /\ invitation'[i].status = "EXPIRED" =>
      /\ invitation[i].status \in Outstanding
      /\ window[i].elapsed
      /\ window[i].clock = "running"
DecidedStays == \A c \in Challenges : challenge[c].status \in Decided => challenge'[c] = challenge[c]

\* The steps that write the status of an invitation, when what was read still holds.
LEMMA InvitationsStand ==
  ASSUME IInv, NEW r \in Requests, Start(r) \/ Step(r) \/ Crash(r), Holds(task[r])
  PROVE  NoRevival /\ ExpiresLate
<1>1. CASE UNCHANGED invitation
  BY <1>1 DEF NoRevival, ExpiresLate
<1>2. CASE \E i \in Invitations, a \in Arbitrators, role \in TribunalRole : createInvitation(i, a, role)
  <2>1. PICK i \in Invitations, a \in Arbitrators, role \in TribunalRole : createInvitation(i, a, role)
    BY <1>2
  <2>2. invitation[i].status = "NONE" /\ invitation'[i].status = "INVITED"
        /\ \A j \in Invitations \ {i} : invitation'[j] = invitation[j]
    BY <2>1 DEF createInvitation, IInv, DataOK
  <2>3. QED BY <2>2 DEF NoRevival, ExpiresLate, Closed
<1>3. CASE ToConflictCheckStatus(r) \/ Decline(r) \/ Accept(r)
  <2>1. PICK i \in Invitations : i = task[r].arg
    BY <1>3, ArgNamed DEF ToConflictCheckStatus, Decline, Accept, At, InvitationSteps
  <2>2. invitation[i].status \notin Closed
    BY <1>3, <2>1 DEF ToConflictCheckStatus, Decline, Accept, At, Holds, Outstanding, Closed
  <2>3. PICK status \in {"CONFLICT_CHECK", "DECLINED", "ACCEPTED"} :
          invitation' = [invitation EXCEPT ![i].status = status]
    BY <1>3, <2>1 DEF ToConflictCheckStatus, Decline, Accept
  <2>4. invitation'[i].status = status /\ \A j \in Invitations \ {i} : invitation'[j] = invitation[j]
    BY <2>3 DEF IInv, DataOK
  <2>5. QED BY <2>2, <2>4 DEF NoRevival, ExpiresLate
<1>4. CASE Expire(r)
  <2>1. \A i \in Invitations : IF i \in task[r].arg THEN invitation'[i].status = "EXPIRED"
                               ELSE invitation'[i] = invitation[i]
    BY <1>4 DEF Expire, IInv, DataOK
  <2>2. \A i \in task[r].arg : invitation[i].status \in Outstanding /\ PastDue(i)
    BY <1>4 DEF Expire, At, Holds
  <2>3. QED BY <2>1, <2>2 DEF NoRevival, ExpiresLate, PastDue, Closed
<1>5. CASE Withdraw(r)
  <2>1. \A i \in Invitations : invitation'[i] = invitation[i]
          \/ (invitation[i].status \notin Closed /\ invitation'[i].status = "WITHDRAWN")
    <3> SUFFICES ASSUME NEW i \in Invitations
                 PROVE  invitation'[i] = invitation[i]
                        \/ (invitation[i].status \notin Closed /\ invitation'[i].status = "WITHDRAWN")
      OBVIOUS
    <3>1. PICK old \in InvitationRow : old = invitation[i]
      BY DEF IInv, DataOK, InvitationRow
    <3>2. PICK new : new = [old EXCEPT !.status = "WITHDRAWN"]
      OBVIOUS
    <3>3. new.status = "WITHDRAWN"
      BY <3>2 DEF InvitationRow
    <3>4. invitation'[i] = old \/ (old.status \in Outstanding \cup {"ACCEPTED"} /\ invitation'[i] = new)
      BY <1>5, <3>1, <3>2 DEF Withdraw
    <3>5. QED BY <3>1, <3>3, <3>4 DEF Outstanding, Closed
  <2>2. QED BY <2>1 DEF NoRevival, ExpiresLate
<1>6. CASE Start(r)
  <2>1. ASSUME NEW i \in Invitations, NEW a \in Arbitrators, NEW role \in Roles,
               invite(r, i, a, role) \/ replaceMember(r, i, a, role)
        PROVE  createInvitation(i, a, role) /\ role \in TribunalRole
    BY <2>1, RolesAssumption DEF invite, replaceMember, RolesAssumption
  <2>2. QED
    BY <1>1, <1>2, <1>6, <2>1 DEF Start, submitConflictDisclosure, respond, extend, suspend, resume, waive,
       SetWindow, recordVacancy, raiseChallenge, decideChallenge, nominateChair, expireStaleInvitations,
       constitute, raiseHold, releaseHold
<1>7. CASE Step(r)
  <2>1. ASSUME NEW i \in Invitations, NEW a \in Arbitrators, CreateChairInvitation(r, i, a)
        PROVE  createInvitation(i, a, "CHAIR") /\ "CHAIR" \in TribunalRole
    BY <2>1 DEF CreateChairInvitation, TribunalRole
  <2>2. QED
    BY <1>1, <1>2, <1>3, <1>4, <1>5, <1>7, <2>1 DEF Step, FileDisclosure, RefuseAcceptance, Rescreen,
       SweepDeadlines, CheckChallenges, CheckHold, SetConstituted, Vacate, Dismiss, Uphold, FindSeat,
       VacateChallenged, AdvanceStage, advanceStage
<1>8. CASE Crash(r)
  BY <1>1, <1>8 DEF Crash
<1>9. QED BY <1>6, <1>7, <1>8

\* Those that write a challenge.
LEMMA ChallengesStand ==
  ASSUME IInv, NEW r \in Requests, Start(r) \/ Step(r) \/ Crash(r), Holds(task[r])
  PROVE  DecidedStays
<1>1. CASE UNCHANGED challenge
  BY <1>1 DEF DecidedStays
<1>2. CASE \E a \in Arbitrators, c \in Challenges : raiseChallenge(r, c, a)
  <2>1. PICK a \in Arbitrators, c \in Challenges : raiseChallenge(r, c, a)
    BY <1>2
  <2>2. challenge[c].status = "NONE" /\ \A d \in Challenges \ {c} : challenge'[d] = challenge[d]
    BY <2>1 DEF raiseChallenge, IInv, DataOK
  <2>3. QED BY <2>2 DEF DecidedStays, Decided
<1>3. CASE Dismiss(r) \/ Uphold(r)
  <2>1. PICK c \in Challenges : c = task[r].arg
    BY <1>3, ArgNamed DEF Dismiss, Uphold, At, ChallengeSteps
  <2>2. challenge[c].status \notin Decided
    BY <1>3, <2>1 DEF Dismiss, Uphold, At, Holds
  <2>3. \A d \in Challenges \ {c} : challenge'[d] = challenge[d]
    BY <1>3, <2>1 DEF Dismiss, Uphold, IInv, DataOK
  <2>4. QED BY <2>2, <2>3 DEF DecidedStays
<1>4. CASE Start(r)
  BY <1>1, <1>2, <1>4 DEF Start, invite, replaceMember, createInvitation, submitConflictDisclosure, respond,
     extend, suspend, resume, waive, SetWindow, recordVacancy, decideChallenge, nominateChair,
     expireStaleInvitations, constitute, raiseHold, releaseHold
<1>5. CASE Step(r)
  BY <1>1, <1>3, <1>5 DEF Step, CreateChairInvitation, createInvitation, FileDisclosure, ToConflictCheckStatus,
     Decline, RefuseAcceptance, Accept, Rescreen, SweepDeadlines, Expire, CheckChallenges, CheckHold,
     SetConstituted, Vacate, FindSeat, VacateChallenged, Withdraw, AdvanceStage, advanceStage
<1>6. CASE Crash(r)
  BY <1>1, <1>6 DEF Crash
<1>7. QED BY <1>4, <1>5, <1>6

\* Only the write of a constitution makes a tribunal constituted.
LEMMA ConstitutesComplete ==
  ASSUME IInv, NEW r \in Requests, Start(r) \/ Step(r) \/ Crash(r), Holds(task[r]),
         ~tribunal.constituted, tribunal'.constituted
  PROVE  SeatsComplete /\ ~ChallengePending /\ ~hold
<1>1. tribunal' # tribunal
  OBVIOUS
<1>2. ~Start(r) /\ ~Crash(r)
  BY <1>1 DEF Start, invite, replaceMember, createInvitation, submitConflictDisclosure, respond, extend,
     suspend, resume, waive, SetWindow, recordVacancy, raiseChallenge, decideChallenge, nominateChair,
     expireStaleInvitations, constitute, raiseHold, releaseHold, Crash
<1>3. ~Accept(r) /\ ~Vacate(r) /\ ~VacateChallenged(r)
  BY DEF Accept, Vacate, VacateChallenged, vacateMember, IInv, DataOK
<1>4. SetConstituted(r)
  BY <1>1, <1>2, <1>3 DEF Step, CreateChairInvitation, createInvitation, FileDisclosure, ToConflictCheckStatus,
     Decline, RefuseAcceptance, Rescreen, SweepDeadlines, Expire, CheckChallenges, CheckHold,
     Dismiss, Uphold, FindSeat, Withdraw, AdvanceStage, advanceStage
<1>5. QED BY <1>4 DEF SetConstituted, At, Holds

\* A tribunal whose requests run one at a time is only constituted while its seats
\* are exactly filled, no challenge is pending and no hold is active.  With two
\* requests it is not so: a run shows the race.
THEOREM ConstitutedWhenComplete ==
  ASSUME Alone
  PROVE  Spec => ConstitutedCompletely
<1>1. ASSUME IInv, SerialInv, [Next]_vars
      PROVE  ~tribunal.constituted /\ tribunal'.constituted => SeatsComplete /\ ~ChallengePending /\ ~hold
  <2>1. CASE UNCHANGED tribunal
    BY <2>1
  <2>2. ASSUME NEW r \in Requests, Start(r) \/ Step(r) \/ Crash(r)
        PROVE  ~tribunal.constituted /\ tribunal'.constituted => SeatsComplete /\ ~ChallengePending /\ ~hold
    BY <1>1, <2>2, ConstitutesComplete DEF SerialInv
  <2>3. QED BY <1>1, <2>1, <2>2 DEF Next, Elapse, SetWindow, vars
<1>2. IInv /\ SerialInv /\ [Next]_vars
        => [~tribunal.constituted /\ tribunal'.constituted => SeatsComplete /\ ~ChallengePending /\ ~hold]_vars
  BY <1>1
<1>3. QED BY <1>2, Invariance, SerialInvariance, PTL DEF Spec, ConstitutedCompletely

\* Of requests one at a time, what is over stays over: no closed invitation is
\* revived, only late and unanswered ones expire, and no challenge is decided twice.
THEOREM WhatIsOverStays ==
  ASSUME Alone
  PROVE  Spec => OutcomesStand
<1>1. ASSUME IInv, SerialInv, [Next]_vars
      PROVE  NoRevival /\ ExpiresLate /\ DecidedStays
  <2>1. CASE UNCHANGED <<invitation, challenge>>
    BY <2>1 DEF NoRevival, ExpiresLate, DecidedStays
  <2>2. ASSUME NEW r \in Requests, Start(r) \/ Step(r) \/ Crash(r)
        PROVE  NoRevival /\ ExpiresLate /\ DecidedStays
    BY <1>1, <2>2, InvitationsStand, ChallengesStand DEF SerialInv
  <2>3. QED BY <1>1, <2>1, <2>2 DEF Next, Elapse, SetWindow, vars
<1>2. IInv /\ SerialInv /\ [Next]_vars => [NoRevival]_vars /\ [ExpiresLate]_vars /\ [DecidedStays]_vars
  BY <1>1
<1>3. Spec => [][NoRevival]_vars /\ [][ExpiresLate]_vars /\ [][DecidedStays]_vars
  BY <1>2, Invariance, SerialInvariance, PTL DEF Spec
<1>4. QED BY <1>3 DEF OutcomesStand, ClosedStaysClosed, ExpiredOnlyWhenLate, DecisionFinal,
                      NoRevival, ExpiresLate, DecidedStays
=============================================================================
