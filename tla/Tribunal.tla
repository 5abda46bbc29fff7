------------------------------ MODULE Tribunal ------------------------------
(***************************************************************************)
(* The appointment of one case's arbitral tribunal (AppointmentsService):  *)
(* invitations, conflict disclosures, acceptance, constitution, vacancies  *)
(* and challenges, with the response windows DeadlinesService keeps for    *)
(* invitations and the compliance hold ComplianceService may place.        *)
(*                                                                         *)
(* Every operation is an HTTP handler that awaits one database call after  *)
(* another.  Only the calls grouped in prisma.$transaction are atomic, so  *)
(* a handler is cut here into one step per read its guard depends on and   *)
(* one step per write or transaction; task[r] is what request r has still  *)
(* to do and the identities it read.  With one request the handlers run    *)
(* one after the other; with two they interleave.                          *)
(***************************************************************************)
EXTENDS FiniteSets, Naturals

CONSTANTS
  Arbitrators,   \* approved arbitrators, each with the user account it acts by
  Invitations,   \* the invitations the case may see (bounds their number)
  Challenges,    \* the challenges the case may see (bounds their number)
  Requests,      \* requests in progress at one time: the degree of concurrency
  Roles,         \* the tribunal roles the instance's invitations propose
  RuleWindow,    \* does the pinned rule set define ARBITRATOR_ACCEPTANCE?
  Crashes        \* may a request stop half-way (process exit, failed query)?

TribunalRole == {"CHAIR", "SOLE", "CO_ARBITRATOR", "SECRETARY"}

ASSUME RolesAssumption == Roles \subseteq TribunalRole
ASSUME SwitchAssumption == RuleWindow \in BOOLEAN /\ Crashes \in BOOLEAN

VARIABLES
  invitation,   \* appointmentInvitation rows: status, arbitrator, role
  window,       \* the response window of each invitation
  disclosed,    \* arbitrators with a conflictDisclosure row for the case
  tribunal,     \* the tribunal row: its composition, whether constituted
  member,       \* tribunalMember rows, one per (tribunal, arbitrator)
  team,         \* active caseTeamMember rows holding a tribunal case role
  challenge,    \* arbitratorChallenge rows: status, challenged arbitrator
  hold,         \* is a compliance hold on the case ACTIVE?
  stage,        \* case.stage, as far as these handlers set it
  task          \* what each request in progress has still to do

vars == <<invitation, window, disclosed, tribunal, member, team, challenge,
          hold, stage, task>>

-----------------------------------------------------------------------------
(* Data *)

AppointmentStatus == {"INVITED", "CONFLICT_CHECK", "ACCEPTED", "DECLINED",
                      "EXPIRED", "WITHDRAWN"}
Outstanding == {"INVITED", "CONFLICT_CHECK"}
Closed == {"EXPIRED", "WITHDRAWN"}
Decided == {"UPHELD", "DISMISSED"}

CaseRole == {"TRIBUNAL_CHAIR", "TRIBUNAL_MEMBER", "TRIBUNAL_SECRETARY"}
CaseStage == {"EARLIER", "TRIBUNAL_APPOINTMENT_PENDING", "CONFLICT_CHECK",
              "TRIBUNAL_CONSTITUTED"}

caseRoleForTribunalRole(role) ==
  IF role \in {"CHAIR", "SOLE"} THEN "TRIBUNAL_CHAIR"
  ELSE IF role = "SECRETARY" THEN "TRIBUNAL_SECRETARY" ELSE "TRIBUNAL_MEMBER"

\* Every vacancy status (RESIGNED, REMOVED, INCAPACITATED, DECEASED) is VACATED.
MemberStatus == {"NONE", "ACTIVE", "VACATED"}

Seated(a) == member[a].status = "ACTIVE"
InSeat(role) == {a \in Arbitrators : Seated(a) /\ member[a].role = role}

\* The seats constitute() asks for, by the tribunal's composition.
SeatsComplete ==
  IF tribunal.composition = "SOLE"
  THEN \E a \in Arbitrators : /\ InSeat("SOLE") = {a}
                              /\ \A b \in Arbitrators : Seated(b) => b = a
  ELSE Cardinality(InSeat("CHAIR")) = 1 /\ Cardinality(InSeat("CO_ARBITRATOR")) = 2

ChallengePending ==
  \E c \in Challenges : challenge[c].status \in {"SUBMITTED", "UNDER_REVIEW"}

\* The test of the expiry sweep: past its due moment, neither paused nor waived.
PastDue(i) == window[i].elapsed /\ window[i].clock = "running"

-----------------------------------------------------------------------------
(* Requests in progress *)

InvitationSteps == {"accept", "decline", "fileDisclosure", "toConflictCheckStatus"}
ArbitratorSteps == {"vacate"}
ChallengeSteps == {"uphold", "dismiss", "findSeat", "vacateChallenged", "withdraw"}
SweepSteps == {"sweepDeadlines", "expire"}
PlainSteps == {"idle", "createChairInvitation", "checkChallenges", "checkHold",
               "setConstituted", "rescreen", "stagePending", "stageConflictCheck",
               "stageConstituted"}
Steps == InvitationSteps \cup ArbitratorSteps \cup ChallengeSteps \cup SweepSteps
           \cup PlainSteps
Args == Invitations \cup Arbitrators \cup Challenges \cup SUBSET Invitations

Begin(r, step, arg) ==
  /\ task[r].step = "idle"
  /\ task' = [task EXCEPT ![r] = [step |-> step, arg |-> arg]]
Continue(r, step, arg) == task' = [task EXCEPT ![r] = [step |-> step, arg |-> arg]]
Finish(r) == task' = [task EXCEPT ![r] = [step |-> "idle", arg |-> {}]]
At(r, step) == task[r].step = step
\* A request whose only state change is one write.
Single(r) == task[r].step = "idle" /\ UNCHANGED task

NoInvitation == [status |-> "NONE", arb |-> "NONE", role |-> "NONE"]
NoChallenge == [status |-> "NONE", target |-> "NONE"]

Init ==
  /\ invitation = [i \in Invitations |-> NoInvitation]
  /\ window = [i \in Invitations |-> [clock |-> "running", elapsed |-> FALSE]]
  /\ disclosed = {}
  /\ tribunal = [composition |-> "NONE", constituted |-> FALSE]
  /\ member = [a \in Arbitrators |-> [status |-> "NONE", role |-> "NONE"]]
  /\ team = {}
  /\ challenge = [c \in Challenges |-> NoChallenge]
  /\ hold = FALSE
  /\ stage = "EARLIER"
  /\ task = [r \in Requests |-> [step |-> "idle", arg |-> {}]]

-----------------------------------------------------------------------------
(* Invitations *)

\* The write of createInvitation: an INVITED row with a fresh response window.
createInvitation(i, a, role) ==
  /\ invitation[i].status = "NONE"
  /\ invitation' = [invitation EXCEPT ![i] = [status |-> "INVITED", arb |-> a, role |-> role]]
  /\ window' = [window EXCEPT ![i] = [clock |-> "running", elapsed |-> FALSE]]
  /\ UNCHANGED <<disclosed, tribunal, member, team, challenge, hold, stage>>

\* invite and defaultAppoint: the invitation, then the case's stage.
invite(r, i, a, role) ==
  /\ createInvitation(i, a, role)
  /\ Begin(r, "stagePending", {})

replaceMember(r, i, a, role) ==
  /\ createInvitation(i, a, role)
  /\ Single(r)

nominateChair(r) ==
  /\ \E i \in Invitations : invitation[i].status = "NONE"
  /\ tribunal.composition # "NONE"
  /\ Cardinality(InSeat("CO_ARBITRATOR")) >= 2
  /\ InSeat("CHAIR") = {}
  /\ Begin(r, "createChairInvitation", {})
  /\ UNCHANGED <<invitation, window, disclosed, tribunal, member, team, challenge, hold, stage>>

CreateChairInvitation(r, i, a) ==
  /\ At(r, "createChairInvitation")
  /\ createInvitation(i, a, "CHAIR")
  /\ Finish(r)

\* Mutant: the guard on closed invitations is dropped.
submitConflictDisclosureUnguarded(r, i) ==
  /\ invitation[i].status # "NONE"
  /\ Begin(r, "fileDisclosure", i)
  /\ UNCHANGED <<invitation, window, disclosed, tribunal, member, team, challenge, hold, stage>>

\* submitConflictDisclosure: guard, disclosure row, invitation status, stage.
submitConflictDisclosure(r, i) ==
  /\ invitation[i].status \notin Closed \cup {"NONE"}
  /\ Begin(r, "fileDisclosure", i)
  /\ UNCHANGED <<invitation, window, disclosed, tribunal, member, team, challenge, hold, stage>>

FileDisclosure(r) ==
  /\ At(r, "fileDisclosure")
  /\ disclosed' = disclosed \cup {invitation[task[r].arg].arb}
  /\ Continue(r, "toConflictCheckStatus", task[r].arg)
  /\ UNCHANGED <<invitation, window, tribunal, member, team, challenge, hold, stage>>

ToConflictCheckStatus(r) ==
  /\ At(r, "toConflictCheckStatus")
  /\ invitation' = [invitation EXCEPT ![task[r].arg].status = "CONFLICT_CHECK"]
  /\ Continue(r, "stageConflictCheck", {})
  /\ UNCHANGED <<window, disclosed, tribunal, member, team, challenge, hold, stage>>

\* respond: the guard on the status read first, then one write.
respond(r, i, accept) ==
  /\ invitation[i].status \in Outstanding
  /\ Begin(r, IF accept THEN "accept" ELSE "decline", i)
  /\ UNCHANGED <<invitation, window, disclosed, tribunal, member, team, challenge, hold, stage>>

Decline(r) ==
  /\ At(r, "decline")
  /\ invitation' = [invitation EXCEPT ![task[r].arg].status = "DECLINED"]
  /\ Finish(r)
  /\ UNCHANGED <<window, disclosed, tribunal, member, team, challenge, hold, stage>>

\* No disclosure on file: the acceptance is refused.
RefuseAcceptance(r) ==
  /\ At(r, "accept")
  /\ invitation[task[r].arg].arb \notin disclosed
  /\ Finish(r)
  /\ UNCHANGED <<invitation, window, disclosed, tribunal, member, team, challenge, hold, stage>>

\* Mutant: the disclosure on file is not looked up.
AcceptUndisclosed(r) ==
  LET i == task[r].arg
      a == invitation[i].arb
      role == invitation[i].role
  IN /\ At(r, "accept")
     /\ tribunal' = [tribunal EXCEPT !.composition =
                       IF @ # "NONE" THEN @
                       ELSE IF role = "SOLE" THEN "SOLE" ELSE "THREE_MEMBER"]
     /\ member' = [member EXCEPT ![a] = [status |-> "ACTIVE", role |-> role]]
     /\ team' = team \cup {<<a, caseRoleForTribunalRole(role)>>}
     /\ invitation' = [invitation EXCEPT ![i].status = "ACCEPTED"]
     /\ Continue(r, "rescreen", {})
     /\ UNCHANGED <<window, disclosed, challenge, hold, stage>>

\* The acceptance transaction.  A disclosure is never deleted, so reading it
\* as the transaction starts loses no interleaving.
Accept(r) ==
  LET i == task[r].arg
      a == invitation[i].arb
      role == invitation[i].role
  IN /\ At(r, "accept")
     /\ a \in disclosed
     /\ tribunal' = [tribunal EXCEPT !.composition =
                       IF @ # "NONE" THEN @
                       ELSE IF role = "SOLE" THEN "SOLE" ELSE "THREE_MEMBER"]
     /\ member' = [member EXCEPT ![a] = [status |-> "ACTIVE", role |-> role]]
     /\ team' = team \cup {<<a, caseRoleForTribunalRole(role)>>}
     /\ invitation' = [invitation EXCEPT ![i].status = "ACCEPTED"]
     /\ Continue(r, "rescreen", {})
     /\ UNCHANGED <<window, disclosed, challenge, hold, stage>>

\* rescreenForEvent: a match on the accepting arbitrator places a hold.
Rescreen(r, match) ==
  /\ At(r, "rescreen")
  /\ hold' = (hold \/ match)
  /\ Finish(r)
  /\ UNCHANGED <<invitation, window, disclosed, tribunal, member, team, challenge, stage>>

\* expireStaleInvitations: candidates, then their deadlines, then one updateMany
\* by id that looks at no status again.
expireStaleInvitations(r) ==
  LET candidates == {i \in Invitations : invitation[i].status \in Outstanding}
  IN /\ candidates # {}
     /\ Begin(r, "sweepDeadlines", candidates)
     /\ UNCHANGED <<invitation, window, disclosed, tribunal, member, team, challenge, hold, stage>>

SweepDeadlines(r) ==
  LET expired == {i \in task[r].arg : PastDue(i)}
  IN /\ At(r, "sweepDeadlines")
     /\ IF expired = {} THEN Finish(r) ELSE Continue(r, "expire", expired)
     /\ UNCHANGED <<invitation, window, disclosed, tribunal, member, team, challenge, hold, stage>>

Expire(r) ==
  /\ At(r, "expire")
  /\ invitation' = [i \in Invitations |->
                      IF i \in task[r].arg THEN [invitation[i] EXCEPT !.status = "EXPIRED"]
                      ELSE invitation[i]]
  /\ Finish(r)
  /\ UNCHANGED <<window, disclosed, tribunal, member, team, challenge, hold, stage>>

-----------------------------------------------------------------------------
(* Constitution and vacancies *)

\* constitute: members, then challenges, then the hold, then the write.
constitute(r) ==
  /\ tribunal.composition # "NONE"
  /\ SeatsComplete
  /\ Begin(r, "checkChallenges", {})
  /\ UNCHANGED <<invitation, window, disclosed, tribunal, member, team, challenge, hold, stage>>

\* Mutant: constitution does not look at pending challenges.
CheckChallengesSkipped(r) ==
  /\ At(r, "checkChallenges")
  /\ Continue(r, "checkHold", {})
  /\ UNCHANGED <<invitation, window, disclosed, tribunal, member, team, challenge, hold, stage>>

CheckChallenges(r) ==
  /\ At(r, "checkChallenges")
  /\ IF ChallengePending THEN Finish(r) ELSE Continue(r, "checkHold", {})
  /\ UNCHANGED <<invitation, window, disclosed, tribunal, member, team, challenge, hold, stage>>

CheckHold(r) ==
  /\ At(r, "checkHold")
  /\ IF hold THEN Finish(r) ELSE Continue(r, "setConstituted", {})
  /\ UNCHANGED <<invitation, window, disclosed, tribunal, member, team, challenge, hold, stage>>

SetConstituted(r) ==
  /\ At(r, "setConstituted")
  /\ tribunal' = [tribunal EXCEPT !.constituted = TRUE]
  /\ Continue(r, "stageConstituted", {})
  /\ UNCHANGED <<invitation, window, disclosed, member, team, challenge, hold, stage>>

\* Mutant: the case-team rows stay active when the seat is emptied.
vacateMemberKeepingAccess(a) ==
  /\ member' = [member EXCEPT ![a].status = "VACATED"]
  /\ tribunal' = [tribunal EXCEPT !.constituted = FALSE]
  /\ UNCHANGED team

\* The transaction that empties a seat: member, deliberation access, tribunal.
vacateMember(a) ==
  /\ member' = [member EXCEPT ![a].status = "VACATED"]
  /\ team' = {row \in team : row[1] # a}
  /\ tribunal' = [tribunal EXCEPT !.constituted = FALSE]

recordVacancy(r, a) ==
  /\ Seated(a)
  /\ Begin(r, "vacate", a)
  /\ UNCHANGED <<invitation, window, disclosed, tribunal, member, team, challenge, hold, stage>>

Vacate(r) ==
  /\ At(r, "vacate")
  /\ vacateMember(task[r].arg)
  /\ Finish(r)
  /\ UNCHANGED <<invitation, window, disclosed, challenge, hold, stage>>

-----------------------------------------------------------------------------
(* Challenges *)

raiseChallenge(r, c, a) ==
  /\ challenge[c].status = "NONE"
  /\ challenge' = [challenge EXCEPT ![c] = [status |-> "SUBMITTED", target |-> a]]
  /\ Single(r)
  /\ UNCHANGED <<invitation, window, disclosed, tribunal, member, team, hold, stage>>

\* decideChallenge: the guard reads decidedAt once, before the first write.
decideChallenge(r, c, upheld) ==
  /\ challenge[c].status \notin Decided \cup {"NONE"}
  /\ Begin(r, IF upheld THEN "uphold" ELSE "dismiss", c)
  /\ UNCHANGED <<invitation, window, disclosed, tribunal, member, team, challenge, hold, stage>>

Dismiss(r) ==
  /\ At(r, "dismiss")
  /\ challenge' = [challenge EXCEPT ![task[r].arg].status = "DISMISSED"]
  /\ Finish(r)
  /\ UNCHANGED <<invitation, window, disclosed, tribunal, member, team, hold, stage>>

Uphold(r) ==
  /\ At(r, "uphold")
  /\ challenge' = [challenge EXCEPT ![task[r].arg].status = "UPHELD"]
  /\ Continue(r, "findSeat", task[r].arg)
  /\ UNCHANGED <<invitation, window, disclosed, tribunal, member, team, hold, stage>>

\* The challenged arbitrator is vacated only if a seat is found ACTIVE.
FindSeat(r) ==
  LET c == task[r].arg
  IN /\ At(r, "findSeat")
     /\ Continue(r, IF Seated(challenge[c].target) THEN "vacateChallenged" ELSE "withdraw", c)
     /\ UNCHANGED <<invitation, window, disclosed, tribunal, member, team, challenge, hold, stage>>

VacateChallenged(r) ==
  /\ At(r, "vacateChallenged")
  /\ vacateMember(challenge[task[r].arg].target)
  /\ Continue(r, "withdraw", task[r].arg)
  /\ UNCHANGED <<invitation, window, disclosed, challenge, hold, stage>>

Withdraw(r) ==
  LET a == challenge[task[r].arg].target
  IN /\ At(r, "withdraw")
     /\ invitation' = [i \in Invitations |->
                         IF invitation[i].arb = a /\ invitation[i].status \in Outstanding \cup {"ACCEPTED"}
                         THEN [invitation[i] EXCEPT !.status = "WITHDRAWN"]
                         ELSE invitation[i]]
     /\ Finish(r)
     /\ UNCHANGED <<window, disclosed, tribunal, member, team, challenge, hold, stage>>

-----------------------------------------------------------------------------
(* The case's stage, response windows, compliance holds *)

\* advanceStage at the end of a handler.  It writes nothing when the stage is
\* already the target, so only the stage after the step matters.
advanceStage(r, step, target) ==
  /\ At(r, step)
  /\ stage' = target
  /\ Finish(r)
  /\ UNCHANGED <<invitation, window, disclosed, tribunal, member, team, challenge, hold>>

AdvanceStage(r) ==
  \/ advanceStage(r, "stagePending", "TRIBUNAL_APPOINTMENT_PENDING")
  \/ advanceStage(r, "stageConflictCheck", "CONFLICT_CHECK")
  \/ advanceStage(r, "stageConstituted", "TRIBUNAL_CONSTITUTED")

SetWindow(i, clock, elapsed) ==
  /\ invitation[i].status # "NONE"
  /\ window' = [window EXCEPT ![i] = [clock |-> clock, elapsed |-> elapsed]]
  /\ UNCHANGED <<invitation, disclosed, tribunal, member, team, challenge, hold, stage>>

\* The due moment passes; the time left on a suspended deadline is kept.
Elapse(i) ==
  /\ ~window[i].elapsed
  /\ window[i].clock # "suspended"
  /\ SetWindow(i, window[i].clock, TRUE)
  /\ UNCHANGED task

extend(r, i) == RuleWindow /\ Single(r) /\ SetWindow(i, "running", FALSE)
waive(r, i) == RuleWindow /\ Single(r) /\ SetWindow(i, "waived", window[i].elapsed)
suspend(r, i) ==
  /\ RuleWindow
  /\ window[i].clock # "suspended"
  /\ Single(r)
  /\ SetWindow(i, "suspended", window[i].elapsed)
resume(r, i) ==
  /\ RuleWindow
  /\ window[i].clock = "suspended"
  /\ Single(r)
  /\ SetWindow(i, "running", window[i].elapsed)

raiseHold(r) ==
  /\ Single(r)
  /\ hold' = TRUE
  /\ UNCHANGED <<invitation, window, disclosed, tribunal, member, team, challenge, stage>>

releaseHold(r) ==
  /\ hold
  /\ Single(r)
  /\ hold' = FALSE
  /\ UNCHANGED <<invitation, window, disclosed, tribunal, member, team, challenge, stage>>

\* A request that has done part of its work is lost.
Crash(r) ==
  /\ Crashes
  /\ task[r].step # "idle"
  /\ Finish(r)
  /\ UNCHANGED <<invitation, window, disclosed, tribunal, member, team, challenge, hold, stage>>

-----------------------------------------------------------------------------
(* The specification *)

\* A new request: its first read, or its only write.
Start(r) ==
  \/ \E i \in Invitations, a \in Arbitrators, role \in Roles :
        invite(r, i, a, role) \/ replaceMember(r, i, a, role)
  \/ \E i \in Invitations :
        \/ submitConflictDisclosure(r, i)
        \/ \E accept \in BOOLEAN : respond(r, i, accept)
        \/ extend(r, i) \/ suspend(r, i) \/ resume(r, i) \/ waive(r, i)
  \/ \E a \in Arbitrators : recordVacancy(r, a) \/ \E c \in Challenges : raiseChallenge(r, c, a)
  \/ \E c \in Challenges, upheld \in BOOLEAN : decideChallenge(r, c, upheld)
  \/ nominateChair(r) \/ expireStaleInvitations(r) \/ constitute(r)
  \/ raiseHold(r) \/ releaseHold(r)

\* The next step of a request in progress.
Step(r) ==
  \/ \E i \in Invitations, a \in Arbitrators : CreateChairInvitation(r, i, a)
  \/ FileDisclosure(r) \/ ToConflictCheckStatus(r)
  \/ Decline(r) \/ RefuseAcceptance(r) \/ Accept(r)
  \/ \E match \in BOOLEAN : Rescreen(r, match)
  \/ SweepDeadlines(r) \/ Expire(r)
  \/ CheckChallenges(r) \/ CheckHold(r) \/ SetConstituted(r)
  \/ Vacate(r)
  \/ Dismiss(r) \/ Uphold(r) \/ FindSeat(r) \/ VacateChallenged(r) \/ Withdraw(r)
  \/ AdvanceStage(r)

Next ==
  \/ \E r \in Requests : Start(r) \/ Step(r) \/ Crash(r)
  \/ \E i \in Invitations : Elapse(i)

Spec == Init /\ [][Next]_vars

-----------------------------------------------------------------------------
(* Properties *)

TaskOK(t) ==
  /\ t.step \in InvitationSteps => t.arg \in Invitations
  /\ t.step \in ArbitratorSteps => t.arg \in Arbitrators
  /\ t.step \in ChallengeSteps => t.arg \in Challenges
  /\ t.step \in SweepSteps => t.arg \subseteq Invitations

\* Every row and every request in progress has the shape the schema gives it.
TypeOK ==
  /\ invitation \in [Invitations -> [status : AppointmentStatus \cup {"NONE"},
                                     arb : Arbitrators \cup {"NONE"},
                                     role : TribunalRole \cup {"NONE"}]]
  /\ window \in [Invitations -> [clock : {"running", "suspended", "waived"},
                                 elapsed : BOOLEAN]]
  /\ disclosed \subseteq Arbitrators
  /\ tribunal \in [composition : {"NONE", "SOLE", "THREE_MEMBER"}, constituted : BOOLEAN]
  /\ member \in [Arbitrators -> [status : MemberStatus, role : TribunalRole \cup {"NONE"}]]
  /\ team \subseteq Arbitrators \X CaseRole
  /\ challenge \in [Challenges -> [status : Decided \cup {"SUBMITTED", "NONE"},
                                   target : Arbitrators \cup {"NONE"}]]
  /\ hold \in BOOLEAN
  /\ stage \in CaseStage
  /\ task \in [Requests -> [step : Steps, arg : Args]]
  /\ \A r \in Requests : TaskOK(task[r])

\* Deliberation access follows the seat: a user holds an active tribunal case
\* role exactly while their tribunal member row is ACTIVE, whatever acceptances,
\* vacancies and upheld challenges run at the same time.
AccessIffSeated ==
  \A a \in Arbitrators : Seated(a) <=> \E cr \in CaseRole : <<a, cr>> \in team

\* Due process: whoever sits, or sat, on the tribunal filed a disclosure first.
SeatNeedsDisclosure ==
  \A a \in Arbitrators : member[a].status # "NONE" => a \in disclosed

\* The tribunal becomes constituted only while its seats are exactly filled, no
\* challenge is pending and no compliance hold is active (constitute's comment).
ConstitutedCompletely ==
  [][~tribunal.constituted /\ tribunal'.constituted
       => SeatsComplete /\ ~ChallengePending /\ ~hold]_vars

\* An expired or withdrawn invitation is no longer open: nothing revives it.
ClosedStaysClosed ==
  [][\A i \in Invitations : invitation[i].status \in Closed =>
        invitation'[i].status \in Closed]_vars

\* The sweep expires an invitation only while it is unanswered, its due moment
\* has passed, and its window is neither suspended nor waived.
ExpiredOnlyWhenLate ==
  [][\A i \in Invitations :
        invitation[i].status # "EXPIRED" /\ invitation'[i].status = "EXPIRED" =>
          /\ invitation[i].status \in Outstanding
          /\ window[i].elapsed
          /\ window[i].clock = "running"]_vars

\* A challenge is decided once: its outcome is never replaced by another.
DecisionFinal ==
  [][\A c \in Challenges : challenge[c].status \in Decided =>
        challenge'[c] = challenge[c]]_vars

Entitled == {a \in Arbitrators : \E cr \in CaseRole : <<a, cr>> \in team}

Deliberations ==
  INSTANCE DeliberationAccess WITH seated <- {a \in Arbitrators : Seated(a)}, access <- Entitled

\* The handlers, cut into their database calls and interleaved, promise of the
\* deliberations what DeliberationAccess says: each change of a seat changes the
\* access with it, one arbitrator at a time, after that arbitrator's disclosure.
DeliberationsGuarded == Deliberations!Spec
=============================================================================
