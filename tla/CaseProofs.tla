----------------------------- MODULE CaseProofs -----------------------------
(***************************************************************************)
(* Theorems about the stage of a case, its awards, hearings and invoices,  *)
(* and what the parties put before the tribunal, as MCCase composes them,  *)
(* for any parties, users, factors, totals, bounds and set of requests.    *)
(***************************************************************************)
EXTENDS MCCase, FiniteSetTheorems, SequenceTheorems, TLAPS

(* What holds as long as requests run one at a time is said of the work of  *)
(* the only request that may have any.                                      *)
Alone == \A r, s \in Requests : r = s \/ task[r] = Idle \/ task[s] = Idle
Only(r) == \A s \in Requests \ {r} : task[s] = Idle
Moves(r, work) ==
  \/ Begin(r, work)
  \/ AtOnce(r) /\ work = Idle
  \/ task[r] # Idle /\ Continue(r, work)
-----------------------------------------------------------------------------
(* The stage, the screening and the awards *)

RegistrarStages ==
  {"SUBMITTED", "FILING_FEE_PENDING", "ADMINISTRATIVE_REVIEW", "DEFICIENCY_NOTICE_ISSUED",
   "AWAITING_CLAIMANT_CORRECTION", "CASE_REGISTERED", "NOTICE_BEING_SERVED",
   "AWAITING_RESPONDENT_REGISTRATION", "AWAITING_RESPONSE", "RESPONSE_RECEIVED",
   "ARBITRATION_TERMS_PENDING", "TRIBUNAL_APPOINTMENT_PENDING"}
IssuedStages == {"AWARD_ISSUED", "CORRECTION_OR_INTERPRETATION"}
Stages == RegistrarStages \cup IssuedStages \cup {"DRAFT", "CONFLICT_CHECK", "TRIBUNAL_CONSTITUTED", "DRAFT_AWARD"}

CheckRow ==
  [party : Parties, hold : {"none", "ACTIVE", "RELEASED"},
   status : {"PENDING", "CLEAR", "MANUAL_REVIEW", "LAPSED", "EXPIRED"} \cup Risky]
AwardRow ==
  [signed : BOOLEAN, issued : Nat, document : {"none", "dated", "undated"}, correction : {"NONE", "REQUESTED"}]

StageTask ==
  {Idle}
  \cup [step : {"submit", "rescreen"}]
  \cup [step : {"cleared", "transition", "advanceFrom"}, from : Stages, to : Stages]
  \cup [step : {"subject"}, left : SUBSET Parties, force : BOOLEAN]
  \cup [step : {"check"}, party : Parties, left : SUBSET Parties]
  \cup [step : {"result", "hold"}, check : Nat, left : SUBSET Parties]
  \cup [step : {"review", "release"}, check : Nat, seen : CheckRow, decision : {"APPROVED", "REJECTED", "ESCALATED"}]
  \cup [step : {"advance"}, to : Stages]
  \cup [step : {"issue", "correction"}, award : Nat]
  \cup [step : {"document"}, award : Nat, dated : BOOLEAN]

SomeIssued == \E i \in DOMAIN awards : awards[i].issued > 0

StageData ==
  /\ task \in [Requests -> StageTask]
  /\ stage \in Stages /\ parties \subseteq Parties
  /\ checks \in Seq(CheckRow) /\ awards \in Seq(AwardRow)

(* Work refers to rows that are there; an award about to go out is signed,  *)
(* and the case moves to a stage of issued awards after one was issued.     *)
Sound(w) ==
  /\ w.step \in {"result", "hold", "review", "release"} => w.check \in DOMAIN checks
  /\ w.step \in {"issue", "document", "correction"} => w.award \in DOMAIN awards
  /\ w.step = "issue" => awards[w.award].signed
  /\ w.step = "correction" => awards[w.award].issued > 0
  /\ w.step \in {"cleared", "transition"} => w.to \notin IssuedStages
  /\ w.step \in {"advance", "advanceFrom"} =>
       w.to # "CASE_REGISTERED" /\ (w.to \in IssuedStages => SomeIssued)

(* What the one request at work has read is still so.                       *)
Fresh(w) ==
  /\ w.step = "submit" => stage = "DRAFT"
  /\ w.step \in {"cleared", "transition", "advanceFrom"} => w.from = stage
  /\ w.step = "transition" => ~Held
  /\ w.step = "issue" => awards[w.award].issued = 0
  /\ w.step = "review" =>
       /\ w.seen.status # "PENDING"
       /\ w.seen.status \in Risky => checks[w.check].hold \in {"ACTIVE", "RELEASED"}

(* Only it may have left a check without its result, a risky result without *)
(* its hold, or a party of a registered case unscreened.                    *)
Answered(w) ==
  \A i \in DOMAIN checks :
    /\ checks[i].status = "PENDING" => w.step = "result" /\ w.check = i
    /\ checks[i].status \in Risky =>
         checks[i].hold \in {"ACTIVE", "RELEASED"} \/ (w.step = "hold" /\ w.check = i)
ToScreen(w) ==
  CASE w.step = "rescreen" -> parties
    [] w.step \in {"subject", "hold"} -> w.left
    [] w.step = "check" -> w.left \cup {w.party}
    [] w.step = "result" -> w.left \cup {checks[w.check].party}
    [] OTHER -> {}
Steady(w) ==
  /\ Fresh(w) /\ Answered(w)
  /\ stage = "CASE_REGISTERED" => parties \subseteq ScreenedParties \cup ToScreen(w)
  /\ \A i \in DOMAIN awards : awards[i].issued <= 1

StageInv ==
  /\ StageData
  /\ \A r \in Requests : Sound(task[r])
  /\ \A i \in DOMAIN awards : awards[i].issued > 0 => awards[i].signed
  /\ stage \in IssuedStages => SomeIssued
  /\ Serial => Alone /\ \A r \in Requests : Only(r) => Steady(task[r])
-----------------------------------------------------------------------------
(* Hearings *)

HearingTask ==
  {Idle} \cup [step : {"rooms", "teardown"}]
  \cup [step : {"update"}, status : Open]
  \cup [step : {"link"}, kind : Rooms, caller : Callers]

HearingSteady(w) ==
  /\ w.step = "rooms" => hearing = "none"
  /\ w.step \in {"update", "teardown", "link"} => hearing \in Open

HearingInv ==
  /\ task \in [Requests -> HearingTask]
  /\ Serial => Alone /\ \A r \in Requests : Only(r) => HearingSteady(task[r])
-----------------------------------------------------------------------------
(* Requests one at a time: whoever makes a move without ending that is the  *)
(* only one with work, before and after.                                    *)
LEMMA OneAtATime ==
  ASSUME NEW S, task \in [Requests -> S], Serial => Alone,
         NEW r \in Requests, NEW w, Moves(r, w), Serial'
  PROVE  /\ Serial /\ Only(r) /\ Alone'
         /\ \A s \in Requests : Only(s)' => task'[s] = w
<1>1. task' = [task EXCEPT ![r] = w]
  BY DEF Moves, Begin, AtOnce, Continue
<1>2. Serial /\ Only(r)
  BY DEF Moves, Begin, AtOnce, Continue, Serial, Only, Alone, Quiet
<1>3. task'[r] = w /\ \A s \in Requests \ {r} : task'[s] = Idle
  BY <1>1, <1>2 DEF Only
<1>4. Alone'
  BY <1>3 DEF Alone
<1>5. ASSUME NEW s \in Requests, Only(s)' PROVE task'[s] = w
  BY <1>3, <1>5 DEF Only
<1>6. QED BY <1>2, <1>4, <1>5

LEMMA Element ==
  ASSUME NEW S, NEW s \in Seq(S), NEW i \in DOMAIN s
  PROVE  s[i] \in S /\ i \in Nat \ {0}
OBVIOUS

LEMMA StageMove ==
  ASSUME StageInv, NEW r \in Requests, NEW w \in StageTask, Moves(r, w),
         stage' \in Stages, parties' \subseteq Parties,
         checks' \in Seq(CheckRow), awards' \in Seq(AwardRow),
         DOMAIN checks \subseteq DOMAIN checks',
         \A i \in DOMAIN awards :
           /\ i \in DOMAIN awards'
           /\ awards[i].signed => awards'[i].signed
           /\ awards[i].issued <= awards'[i].issued,
         \A i \in DOMAIN awards' : awards'[i].issued > 0 => awards'[i].signed,
         stage' \in IssuedStages => SomeIssued',
         Sound(w)',
         Serial /\ Steady(task[r]) => Steady(w)'
  PROVE  StageInv'
<1>1. task' = [task EXCEPT ![r] = w] /\ task \in [Requests -> StageTask]
  BY DEF Moves, Begin, AtOnce, Continue, StageInv, StageData
<1>2. StageData'
  BY <1>1 DEF StageData
<1>3. ASSUME NEW s \in Requests PROVE Sound(task[s])'
  <2>1. CASE s = r
    BY <1>1, <2>1 DEF Sound, SomeIssued
  <2>2. CASE s # r
    <3>1. task'[s] = task[s] /\ Sound(task[s])
      BY <1>1, <2>2 DEF StageInv
    <3>2. ASSUME NEW i \in DOMAIN awards, awards[i].issued > 0 PROVE awards'[i].issued > 0
      <4>1. awards[i] \in AwardRow /\ awards'[i] \in AwardRow
        BY Element DEF StageInv, StageData
      <4>2. QED BY <3>2, <4>1 DEF AwardRow
    <3>3. SomeIssued => SomeIssued'
      BY <3>2 DEF SomeIssued
    <3>4. QED BY <3>1, <3>2, <3>3, <2>2 DEF Sound
  <2>3. QED BY <2>1, <2>2
<1>4. ASSUME Serial' PROVE Alone' /\ \A s \in Requests : Only(s)' => Steady(task[s])'
  <2>1. /\ Serial /\ Only(r) /\ Alone'
        /\ \A s \in Requests : Only(s)' => task'[s] = w
    BY <1>1, <1>4, OneAtATime DEF StageInv
  <2>2. Steady(task[r])
    BY <2>1 DEF StageInv
  <2>3. Steady(w)'
    BY <2>1, <2>2
  <2>4. \A s \in Requests : Only(s)' => Steady(task[s])'
    BY <2>1, <2>3 DEF Steady, Fresh, Answered, ToScreen
  <2>5. QED BY <2>1, <2>4
<1>5. QED BY <1>2, <1>3, <1>4 DEF StageInv

\* The stage may move; the awards and the rows of the checks stay.
LEMMA StageMoveKeepingRows ==
  ASSUME StageInv, NEW r \in Requests, NEW w \in StageTask, Moves(r, w),
         stage' \in Stages, stage' \in IssuedStages => SomeIssued,
         parties' \subseteq Parties, checks' \in Seq(CheckRow), DOMAIN checks \subseteq DOMAIN checks',
         UNCHANGED awards,
         Sound(w)', Serial /\ Steady(task[r]) => Steady(w)'
  PROVE  StageInv'
<1>1. \A i \in DOMAIN awards : awards[i].issued <= awards'[i].issued
  <2>1. ASSUME NEW i \in DOMAIN awards PROVE awards[i] \in AwardRow
    BY Element DEF StageInv, StageData
  <2>2. QED BY <2>1 DEF AwardRow
<1>2. SomeIssued => SomeIssued'
  BY DEF SomeIssued
<1>3. QED BY <1>1, <1>2, StageMove DEF StageInv, StageData

LEMMA StageKeep ==
  ASSUME StageInv, NEW r \in Requests, NEW w \in StageTask, Moves(r, w), UNCHANGED stageVars,
         Sound(w), Serial /\ Steady(task[r]) => Steady(w)
  PROVE  StageInv'
<1>1. Sound(w)'
  BY DEF stageVars, Sound, SomeIssued
<1>2. Steady(w) => Steady(w)'
  BY DEF stageVars, Steady, Fresh, Answered, ToScreen, ScreenedParties, Held
<1>3. QED BY <1>1, <1>2, StageMoveKeepingRows DEF stageVars, StageInv, StageData

\* A handler that begins by reading: with nothing else at work, nothing is left open.
LEMMA StageBegin ==
  ASSUME StageInv, NEW r \in Requests, NEW w \in StageTask, Begin(r, w), UNCHANGED stageVars,
         Sound(w), Steady(Idle) => Fresh(w)
  PROVE  StageInv'
<1>1. task[r] = Idle /\ Moves(r, w)
  BY DEF Begin, Moves
<1>2. Steady(Idle) => Steady(w)
  BY DEF Steady, Answered, ToScreen, Idle
<1>3. QED BY <1>1, <1>2, StageKeep

\* The rows a task of each step comes with.
LEMMA StageShape ==
  ASSUME StageInv, NEW r \in Requests
  PROVE  /\ task[r].step \in {"cleared", "transition", "advanceFrom"} =>
              task[r] \in [step : {"cleared", "transition", "advanceFrom"}, from : Stages, to : Stages]
         /\ task[r].step = "subject" => task[r] \in [step : {"subject"}, left : SUBSET Parties, force : BOOLEAN]
         /\ task[r].step = "check" => task[r] \in [step : {"check"}, party : Parties, left : SUBSET Parties]
         /\ task[r].step \in {"result", "hold"} =>
              task[r] \in [step : {"result", "hold"}, check : Nat, left : SUBSET Parties]
         /\ task[r].step \in {"review", "release"} =>
              task[r] \in [step : {"review", "release"}, check : Nat, seen : CheckRow, decision : {"APPROVED", "REJECTED", "ESCALATED"}]
         /\ task[r].step = "advance" => task[r] \in [step : {"advance"}, to : Stages]
         /\ task[r].step \in {"issue", "correction"} => task[r] \in [step : {"issue", "correction"}, award : Nat]
         /\ task[r].step = "document" => task[r] \in [step : {"document"}, award : Nat, dated : BOOLEAN]
         /\ task[r].step # "idle" => task[r] # Idle
<1>1. task[r] \in StageTask
  BY DEF StageInv, StageData
<1>2. QED BY <1>1 DEF StageTask, Idle

LEMMA IdleWork == Idle \in StageTask /\ Sound(Idle) /\ Fresh(Idle)
BY DEF StageTask, Sound, Fresh, Idle

LEMMA TransitionTargets ==
  ASSUME NEW s \in DOMAIN REGISTRAR_TRANSITIONS, NEW to \in REGISTRAR_TRANSITIONS[s]
  PROVE  s \in RegistrarStages /\ to \in RegistrarStages
<1>1. s \in RegistrarStages \ {"ARBITRATION_TERMS_PENDING", "TRIBUNAL_APPOINTMENT_PENDING"}
  BY DEF REGISTRAR_TRANSITIONS, RegistrarStages
<1>2. CASE s = "SUBMITTED"
  BY <1>1, <1>2 DEF REGISTRAR_TRANSITIONS, RegistrarStages
<1>3. CASE s = "FILING_FEE_PENDING"
  BY <1>1, <1>3 DEF REGISTRAR_TRANSITIONS, RegistrarStages
<1>4. CASE s = "ADMINISTRATIVE_REVIEW"
  BY <1>1, <1>4 DEF REGISTRAR_TRANSITIONS, RegistrarStages
<1>5. CASE s = "DEFICIENCY_NOTICE_ISSUED"
  BY <1>1, <1>5 DEF REGISTRAR_TRANSITIONS, RegistrarStages
<1>6. CASE s = "AWAITING_CLAIMANT_CORRECTION"
  BY <1>1, <1>6 DEF REGISTRAR_TRANSITIONS, RegistrarStages
<1>7. CASE s = "CASE_REGISTERED"
  BY <1>1, <1>7 DEF REGISTRAR_TRANSITIONS, RegistrarStages
<1>8. CASE s = "NOTICE_BEING_SERVED"
  BY <1>1, <1>8 DEF REGISTRAR_TRANSITIONS, RegistrarStages
<1>9. CASE s = "AWAITING_RESPONDENT_REGISTRATION"
  BY <1>1, <1>9 DEF REGISTRAR_TRANSITIONS, RegistrarStages
<1>10. CASE s = "AWAITING_RESPONSE"
  BY <1>1, <1>10 DEF REGISTRAR_TRANSITIONS, RegistrarStages
<1>11. CASE s = "RESPONSE_RECEIVED"
  BY <1>1, <1>11 DEF REGISTRAR_TRANSITIONS, RegistrarStages
<1>12. QED BY <1>1, <1>2, <1>3, <1>4, <1>5, <1>6, <1>7, <1>8, <1>9, <1>10, <1>11 DEF RegistrarStages

LEMMA Submission ==
  ASSUME StageInv, NEW r \in Requests, submit(r) \/ appoint(r)
  PROVE  StageInv'
<1>1. CASE submit(r)
  <2>1. PICK w \in StageTask : w = [step |-> "submit"]
    BY DEF StageTask
  <2>2. QED BY <1>1, <2>1, StageBegin DEF submit, Sound, Fresh
<1>2. CASE appoint(r)
  <2>1. PICK to \in {"TRIBUNAL_APPOINTMENT_PENDING", "CONFLICT_CHECK", "TRIBUNAL_CONSTITUTED"} : Begin(r, AdvanceTo(to))
    BY <1>2 DEF appoint
  <2>2. PICK w \in StageTask : w = AdvanceTo(to)
    BY DEF StageTask, AdvanceTo, Stages, RegistrarStages
  <2>3. Sound(w) /\ Fresh(w)
    BY <2>2 DEF Sound, Fresh, AdvanceTo, IssuedStages
  <2>4. QED BY <1>2, <2>1, <2>2, <2>3, StageBegin DEF appoint
<1>3. QED BY <1>1, <1>2

LEMMA Transition ==
  ASSUME StageInv, NEW r \in Requests, transition(r)
  PROVE  StageInv'
<1>1. PICK to \in REGISTRAR_TRANSITIONS[stage] : Begin(r, [step |-> "cleared", from |-> stage, to |-> to])
  BY DEF transition
<1>2. stage \in RegistrarStages /\ to \in RegistrarStages
  BY TransitionTargets DEF transition
<1>3. PICK w \in StageTask : w = [step |-> "cleared", from |-> stage, to |-> to]
  BY <1>2 DEF StageTask, Stages
<1>4. Sound(w) /\ Fresh(w)
  BY <1>2, <1>3 DEF Sound, Fresh, IssuedStages, RegistrarStages
<1>5. QED BY <1>1, <1>3, <1>4, StageBegin DEF transition

LEMMA Cleared ==
  ASSUME StageInv, NEW r \in Requests, assertCaseClearedToProceed(r)
  PROVE  StageInv'
<1>1. /\ task[r] \in [step : {"cleared", "transition", "advanceFrom"}, from : Stages, to : Stages]
      /\ task[r].step = "cleared" /\ task[r] # Idle
  BY StageShape DEF assertCaseClearedToProceed, At
<1>2. PICK w : w = IF Held THEN Idle ELSE [task[r] EXCEPT !.step = "transition"]
  OBVIOUS
<1>3. w \in StageTask
  BY <1>1, <1>2 DEF StageTask
<1>4. Sound(task[r])
  BY DEF StageInv
<1>5. ~Held => w.step = "transition" /\ w.from = task[r].from /\ w.to = task[r].to
  BY <1>1, <1>2
<1>6. Sound(w)
  BY <1>1, <1>2, <1>4, <1>5, IdleWork DEF Sound
<1>7. Steady(task[r]) => Steady(w)
  <2>1. Steady(task[r]) => Fresh(w)
    BY <1>1, <1>2, <1>5 DEF Steady, Fresh, Idle
  <2>2. Answered(task[r]) => Answered(w)
    BY <1>1 DEF Answered
  <2>3. ToScreen(task[r]) = {}
    BY <1>1 DEF ToScreen
  <2>4. QED BY <2>1, <2>2, <2>3 DEF Steady
<1>8. Moves(r, w) /\ UNCHANGED stageVars
  BY <1>1, <1>2 DEF assertCaseClearedToProceed, Moves, Finish
<1>9. QED BY <1>3, <1>6, <1>7, <1>8, StageKeep

LEMMA SetTransition ==
  ASSUME StageInv, NEW r \in Requests, setTransition(r)
  PROVE  StageInv'
<1>1. /\ task[r] \in [step : {"cleared", "transition", "advanceFrom"}, from : Stages, to : Stages]
      /\ task[r].step = "transition" /\ task[r] # Idle
  BY StageShape DEF setTransition, At
<1>2. PICK w : w = IF task[r].to = "CASE_REGISTERED" THEN [step |-> "rescreen"] ELSE Idle
  OBVIOUS
<1>3. w \in StageTask /\ Sound(w)'
  BY <1>2 DEF StageTask, Sound, Idle
<1>4. Moves(r, w) /\ stage' = task[r].to /\ UNCHANGED <<parties, checks, awards>>
  BY <1>1, <1>2 DEF setTransition, MoveStage, ScreeningKept, Moves, Finish
<1>5. stage' \in Stages /\ stage' \notin IssuedStages
  BY <1>1, <1>4 DEF StageInv, Sound
<1>6. ASSUME Steady(task[r]) PROVE Steady(w)'
  <2>1. Fresh(w)'
    BY <1>2 DEF Fresh, Idle
  <2>2. Answered(w)'
    BY <1>1, <1>4, <1>6 DEF Steady, Answered
  <2>3. stage' = "CASE_REGISTERED" => parties' \subseteq ToScreen(w)'
    BY <1>2, <1>4 DEF ToScreen
  <2>4. QED BY <1>4, <1>6, <2>1, <2>2, <2>3 DEF Steady
<1>7. QED BY <1>3, <1>4, <1>5, <1>6, StageMoveKeepingRows DEF StageInv, StageData
-----------------------------------------------------------------------------
(* Screening *)

LEMMA Updated ==
  ASSUME NEW S, NEW s \in Seq(S), NEW i \in DOMAIN s, NEW e \in S
  PROVE  /\ [s EXCEPT ![i] = e] \in Seq(S)
         /\ DOMAIN [s EXCEPT ![i] = e] = DOMAIN s
         /\ \A j \in DOMAIN s : [s EXCEPT ![i] = e][j] = IF j = i THEN e ELSE s[j]
BY ExceptSeq

LEMMA Appended ==
  ASSUME NEW S, NEW s \in Seq(S), NEW e \in S
  PROVE  /\ Append(s, e) \in Seq(S)
         /\ DOMAIN Append(s, e) = DOMAIN s \cup {Len(s) + 1}
         /\ \A j \in DOMAIN s : Append(s, e)[j] = s[j] /\ j # Len(s) + 1
         /\ Append(s, e)[Len(s) + 1] = e
BY AppendProperties

LEMMA RescreenForEvent ==
  ASSUME StageInv, NEW r \in Requests, rescreenForEvent(r)
  PROVE  StageInv'
<1>1. task[r].step = "rescreen" /\ task[r] # Idle
  BY StageShape DEF rescreenForEvent, At
<1>2. PICK w \in StageTask : w = Screening(parties, FALSE)
  BY DEF StageInv, StageData, StageTask, Screening
<1>3. Moves(r, w) /\ UNCHANGED stageVars
  BY <1>1, <1>2 DEF rescreenForEvent, Moves
<1>4. Sound(w) /\ Fresh(w)
  BY <1>2 DEF Sound, Fresh, Screening
<1>5. Answered(task[r]) => Answered(w)
  BY <1>1 DEF Answered
<1>6. ToScreen(task[r]) = parties /\ ToScreen(w) = parties
  BY <1>1, <1>2 DEF ToScreen, Screening
<1>7. QED BY <1>3, <1>4, <1>5, <1>6, StageKeep DEF Steady

LEMMA AddParty ==
  ASSUME StageInv, NEW r \in Requests, addParty(r)
  PROVE  StageInv'
<1>1. PICK p \in Parties \ parties : parties' = parties \cup {p} /\ Begin(r, Screening({p}, FALSE))
  BY DEF addParty
<1>2. PICK w \in StageTask : w = Screening({p}, FALSE)
  BY DEF StageTask, Screening
<1>3. Moves(r, w) /\ UNCHANGED <<stage, checks, awards>> /\ task[r] = Idle
  BY <1>1, <1>2 DEF addParty, Moves, StageKept, Begin
<1>4. Sound(w)' /\ Fresh(w)'
  BY <1>2 DEF Sound, Fresh, Screening
<1>5. Answered(Idle) => Answered(w)'
  BY <1>3 DEF Answered, Idle
<1>6. ToScreen(Idle) = {} /\ ToScreen(w)' = {p}
  BY <1>2 DEF ToScreen, Screening, Idle
<1>7. Steady(Idle) => Steady(w)'
  BY <1>1, <1>3, <1>4, <1>5, <1>6 DEF Steady, ScreenedParties
<1>8. QED BY <1>1, <1>3, <1>4, <1>7, StageMoveKeepingRows DEF StageInv, StageData

LEMMA ScreenManually ==
  ASSUME StageInv, NEW r \in Requests, screenManually(r)
  PROVE  StageInv'
<1>1. PICK p \in parties : Begin(r, Screening({p}, TRUE))
  BY DEF screenManually
<1>2. PICK w \in StageTask : w = Screening({p}, TRUE)
  BY DEF StageInv, StageData, StageTask, Screening
<1>3. Sound(w) /\ Fresh(w)
  BY <1>2 DEF Sound, Fresh, Screening
<1>4. QED BY <1>1, <1>2, <1>3, StageBegin DEF screenManually

LEMMA ScreenSubject ==
  ASSUME StageInv, NEW r \in Requests, screenSubject(r)
  PROVE  StageInv'
<1>1. /\ task[r] \in [step : {"subject"}, left : SUBSET Parties, force : BOOLEAN]
      /\ task[r] # Idle /\ UNCHANGED stageVars
  BY StageShape DEF screenSubject, At
<1>2. ASSUME NEW w \in StageTask, Continue(r, w), w.step \in {"idle", "subject", "check"},
             task[r].left \subseteq ScreenedParties \cup ToScreen(w)
      PROVE  StageInv'
  <2>1. Sound(w) /\ Fresh(w)
    BY <1>2 DEF Sound, Fresh
  <2>2. Answered(task[r]) => Answered(w)
    BY <1>1 DEF Answered
  <2>3. ToScreen(task[r]) = task[r].left
    BY <1>1 DEF ToScreen
  <2>4. Steady(task[r]) => Steady(w)
    BY <1>2, <2>1, <2>2, <2>3 DEF Steady
  <2>5. QED BY <1>1, <1>2, <2>1, <2>4, StageKeep DEF Moves
<1>3. CASE task[r].left = {} /\ Finish(r)
  BY <1>2, <1>3, IdleWork DEF Finish, Idle
<1>4. ASSUME NEW p \in task[r].left,
             IF hasValidScreening(p) /\ ~task[r].force THEN Continue(r, Screening(task[r].left \ {p}, FALSE))
             ELSE Continue(r, [step |-> "check", party |-> p, left |-> task[r].left \ {p}])
      PROVE  StageInv'
  <2>1. CASE hasValidScreening(p) /\ ~task[r].force
    <3>1. PICK w \in StageTask : w = Screening(task[r].left \ {p}, FALSE)
      BY <1>1 DEF StageTask, Screening
    <3>2. p \in ScreenedParties
      BY <2>1 DEF hasValidScreening, ScreenedParties
    <3>3. w.step = "subject" /\ ToScreen(w) = task[r].left \ {p}
      BY <3>1 DEF ToScreen, Screening
    <3>4. QED BY <1>2, <1>4, <2>1, <3>1, <3>2, <3>3
  <2>2. CASE ~(hasValidScreening(p) /\ ~task[r].force)
    <3>1. PICK w \in StageTask : w = [step |-> "check", party |-> p, left |-> task[r].left \ {p}]
      BY <1>1 DEF StageTask
    <3>2. w.step = "check" /\ ToScreen(w) = task[r].left
      BY <3>1 DEF ToScreen
    <3>3. QED BY <1>2, <1>4, <2>2, <3>1, <3>2
  <2>3. QED BY <2>1, <2>2
<1>5. QED BY <1>3, <1>4 DEF screenSubject

LEMMA CreateCheck ==
  ASSUME StageInv, NEW r \in Requests, createCheck(r)
  PROVE  StageInv'
<1>1. /\ task[r] \in [step : {"check"}, party : Parties, left : SUBSET Parties]
      /\ task[r] # Idle /\ UNCHANGED <<stage, parties, awards>>
  BY StageShape DEF createCheck, At, StageKept
<1>2. PICK row0 \in CheckRow : row0 = [party |-> task[r].party, status |-> "PENDING", hold |-> "none"]
  BY <1>1 DEF CheckRow
<1>3. checks \in Seq(CheckRow) /\ checks' = Append(checks, row0)
  BY <1>2 DEF createCheck, StageInv, StageData
<1>4. /\ checks' \in Seq(CheckRow) /\ DOMAIN checks' = DOMAIN checks \cup {Len(checks) + 1}
      /\ \A j \in DOMAIN checks : checks'[j] = checks[j] /\ j # Len(checks) + 1
      /\ checks'[Len(checks) + 1] = row0
  BY <1>3, Appended
<1>5. PICK w \in StageTask : w = [step |-> "result", check |-> Len(checks) + 1, left |-> task[r].left]
  <2>1. Len(checks) + 1 \in Nat
    BY <1>3, LenProperties
  <2>2. QED BY <1>1, <2>1 DEF StageTask
<1>6. Moves(r, w) /\ Sound(w)' /\ Fresh(w)'
  BY <1>1, <1>4, <1>5 DEF createCheck, Moves, Sound, Fresh
<1>7. Answered(task[r]) => Answered(w)'
  BY <1>1, <1>2, <1>4, <1>5 DEF Answered, Risky
<1>8. ScreenedParties \subseteq ScreenedParties'
  BY <1>4 DEF ScreenedParties
<1>9. ToScreen(task[r]) = task[r].left \cup {task[r].party} /\ ToScreen(w)' = task[r].left \cup {task[r].party}
  BY <1>1, <1>2, <1>4, <1>5 DEF ToScreen
<1>10. Steady(task[r]) => Steady(w)'
  BY <1>1, <1>6, <1>7, <1>8, <1>9 DEF Steady
<1>11. QED BY <1>1, <1>4, <1>6, <1>10, StageMoveKeepingRows DEF StageInv, StageData

\* One check changes; who it is of does not.
LEMMA CheckMove ==
  ASSUME StageInv, NEW r \in Requests, NEW w \in StageTask, Moves(r, w),
         NEW i \in DOMAIN checks, NEW e \in CheckRow, checks' = [checks EXCEPT ![i] = e],
         UNCHANGED <<stage, parties, awards>>, e.party = checks[i].party,
         w.step \in {"idle", "subject"} \/ (w.step \in {"hold", "release"} /\ w.check = i),
         Serial /\ Steady(task[r]) =>
           /\ e.status # "PENDING" /\ ToScreen(task[r]) \subseteq ToScreen(w) \cup {e.party}
           /\ e.status \in Risky => e.hold \in {"ACTIVE", "RELEASED"} \/ w.step = "hold"
           /\ task[r].step \in {"result", "hold"} => task[r].check = i
  PROVE  StageInv'
<1>1. /\ checks' \in Seq(CheckRow) /\ DOMAIN checks' = DOMAIN checks
      /\ \A j \in DOMAIN checks : checks'[j] = IF j = i THEN e ELSE checks[j]
  BY Updated DEF StageInv, StageData
<1>2. Sound(w)'
  BY <1>1 DEF Sound
<1>3. Fresh(w)'
  BY DEF Fresh
<1>4. ASSUME Serial, Steady(task[r]) PROVE Steady(w)'
  <2>1. Answered(w)'
    BY <1>1, <1>4 DEF Steady, Answered
  <2>2. ScreenedParties \subseteq ScreenedParties' /\ e.party \in ScreenedParties'
    BY <1>1, <1>4 DEF ScreenedParties
  <2>3. ToScreen(w)' = ToScreen(w)
    BY DEF ToScreen
  <2>4. QED BY <1>3, <1>4, <2>1, <2>2, <2>3 DEF Steady
<1>5. QED BY <1>1, <1>2, <1>4, StageMoveKeepingRows DEF StageInv, StageData

LEMMA SetResult ==
  ASSUME StageInv, NEW r \in Requests, setResult(r)
  PROVE  StageInv'
<1>1. /\ task[r] \in [step : {"result", "hold"}, check : Nat, left : SUBSET Parties]
      /\ task[r].step = "result" /\ task[r] # Idle /\ UNCHANGED <<stage, parties, awards>>
  BY StageShape DEF setResult, At, StageKept
<1> DEFINE i == task[r].check
<1>2. i \in DOMAIN checks /\ checks[i] \in CheckRow
  BY <1>1, Element DEF StageInv, StageData, Sound
<1>3. PICK status \in {"CLEAR"} \cup Risky :
        /\ checks' = [checks EXCEPT ![i].status = status]
        /\ Continue(r, IF status \in Risky THEN [task[r] EXCEPT !.step = "hold"] ELSE Screening(task[r].left, FALSE))
  BY DEF setResult
<1>4. PICK e : e = [checks[i] EXCEPT !.status = status]
  OBVIOUS
<1>5. e \in CheckRow /\ e.status = status /\ e.party = checks[i].party /\ e.status # "PENDING"
  BY <1>2, <1>4 DEF CheckRow, Risky
<1>6. checks' = [checks EXCEPT ![i] = e]
  BY <1>3, <1>4
<1>7. PICK w : w = IF status \in Risky THEN [task[r] EXCEPT !.step = "hold"] ELSE Screening(task[r].left, FALSE)
  OBVIOUS
<1>8. w \in StageTask
  BY <1>1, <1>7 DEF StageTask, Screening
<1>9. ToScreen(task[r]) = task[r].left \cup {e.party} /\ task[r].left \subseteq ToScreen(w)
  BY <1>1, <1>5, <1>7 DEF ToScreen, Screening
<1>10. /\ status \in Risky => w.step = "hold" /\ w.check = i
       /\ status \notin Risky => w.step = "subject"
  BY <1>1, <1>7 DEF Screening
<1>11. Moves(r, w)
  BY <1>1, <1>3, <1>7 DEF Moves
<1>12. QED BY <1>1, <1>2, <1>5, <1>6, <1>8, <1>9, <1>10, <1>11, CheckMove

LEMMA RaiseHold ==
  ASSUME StageInv, NEW r \in Requests, raiseHold(r)
  PROVE  StageInv'
<1>1. /\ task[r] \in [step : {"result", "hold"}, check : Nat, left : SUBSET Parties]
      /\ task[r].step = "hold" /\ task[r] # Idle /\ UNCHANGED <<stage, parties, awards>>
  BY StageShape DEF raiseHold, At, StageKept
<1> DEFINE i == task[r].check
<1>2. i \in DOMAIN checks /\ checks[i] \in CheckRow
  BY <1>1, Element DEF StageInv, StageData, Sound
<1>3. PICK e : e = [checks[i] EXCEPT !.hold = "ACTIVE"]
  OBVIOUS
<1>4. e \in CheckRow /\ e.status = checks[i].status /\ e.party = checks[i].party /\ e.hold = "ACTIVE"
  BY <1>2, <1>3 DEF CheckRow
<1>5. checks' = [checks EXCEPT ![i] = e]
  BY <1>3 DEF raiseHold
<1>6. PICK w \in StageTask : w = Screening(task[r].left, FALSE)
  BY <1>1 DEF StageTask, Screening
<1>7. ToScreen(task[r]) = ToScreen(w) /\ w.step = "subject"
  BY <1>1, <1>6 DEF ToScreen, Screening
<1>8. Steady(task[r]) => checks[i].status # "PENDING"
  BY <1>1, <1>2 DEF Steady, Answered
<1>9. Moves(r, w)
  BY <1>1, <1>6 DEF raiseHold, Moves
<1>10. QED BY <1>1, <1>2, <1>4, <1>5, <1>7, <1>8, <1>9, CheckMove

LEMMA ReleaseHold ==
  ASSUME StageInv, NEW r \in Requests, releaseHold(r)
  PROVE  StageInv'
<1>1. PICK i \in DOMAIN checks : checks[i].hold = "ACTIVE" /\ checks' = [checks EXCEPT ![i].hold = "RELEASED"]
  BY DEF releaseHold
<1>2. checks[i] \in CheckRow
  BY Element DEF StageInv, StageData
<1>3. PICK e : e = [checks[i] EXCEPT !.hold = "RELEASED"]
  OBVIOUS
<1>4. e \in CheckRow /\ e.status = checks[i].status /\ e.party = checks[i].party /\ e.hold = "RELEASED"
  BY <1>2, <1>3 DEF CheckRow
<1>5. checks' = [checks EXCEPT ![i] = e]
  BY <1>1, <1>3
<1>6. Moves(r, Idle) /\ task[r] = Idle /\ UNCHANGED <<stage, parties, awards>> /\ Idle.step = "idle"
  BY DEF releaseHold, Moves, AtOnce, StageKept, Idle
<1>7. Steady(Idle) => checks[i].status # "PENDING"
  BY DEF Steady, Answered, Idle
<1>8. Steady(task[r]) =>
        /\ e.status # "PENDING" /\ ToScreen(task[r]) \subseteq ToScreen(Idle) \cup {e.party}
        /\ e.status \in Risky => e.hold \in {"ACTIVE", "RELEASED"}
        /\ task[r].step \notin {"result", "hold"}
  BY <1>4, <1>6, <1>7
<1>9. PICK w \in StageTask : w = Idle
  BY IdleWork
<1>10. QED BY <1>4, <1>5, <1>6, <1>8, <1>9, CheckMove

LEMMA ReviewCheck ==
  ASSUME StageInv, NEW r \in Requests, reviewCheck(r)
  PROVE  StageInv'
<1>1. PICK i \in DOMAIN checks, decision \in {"APPROVED", "REJECTED", "ESCALATED"} :
        Begin(r, [step |-> "review", check |-> i, seen |-> checks[i], decision |-> decision])
  BY DEF reviewCheck
<1>2. checks[i] \in CheckRow /\ i \in Nat
  BY Element DEF StageInv, StageData
<1>3. PICK w \in StageTask : w = [step |-> "review", check |-> i, seen |-> checks[i], decision |-> decision]
  BY <1>2 DEF StageTask
<1>4. Sound(w)
  BY <1>3 DEF Sound
<1>5. Steady(Idle) => Fresh(w)
  BY <1>3 DEF Steady, Answered, Fresh, Idle
<1>6. QED BY <1>1, <1>3, <1>4, <1>5, StageBegin DEF reviewCheck

\* The status written back is the one that was read, or MANUAL_REVIEW.
LEMMA SetReview ==
  ASSUME StageInv, NEW r \in Requests, setReview(r)
  PROVE  StageInv'
<1>1. /\ task[r] \in [step : {"review", "release"}, check : Nat, seen : CheckRow,
                      decision : {"APPROVED", "REJECTED", "ESCALATED"}]
      /\ task[r].step = "review" /\ task[r] # Idle /\ UNCHANGED <<stage, parties, awards>>
  BY StageShape DEF setReview, At, StageKept
<1> DEFINE i == task[r].check
           status == IF task[r].decision = "ESCALATED" THEN "MANUAL_REVIEW" ELSE task[r].seen.status
<1>2. i \in DOMAIN checks /\ checks[i] \in CheckRow
  BY <1>1, Element DEF StageInv, StageData, Sound
<1>3. PICK e : e = [checks[i] EXCEPT !.status = status]
  OBVIOUS
<1>4. task[r].seen \in CheckRow
  BY <1>1
<1>5. e \in CheckRow /\ e.status = status /\ e.party = checks[i].party /\ e.hold = checks[i].hold
  BY <1>2, <1>3, <1>4 DEF CheckRow
<1>6. checks' = [checks EXCEPT ![i] = e]
  BY <1>3 DEF setReview
<1>7. PICK w : w = IF task[r].decision = "APPROVED" /\ task[r].seen.hold = "ACTIVE"
                   THEN [task[r] EXCEPT !.step = "release"] ELSE Idle
  OBVIOUS
<1>8. w \in StageTask
  BY <1>1, <1>7, IdleWork DEF StageTask
<1>9. w.step = "idle" \/ (w.step = "release" /\ w.check = i)
  BY <1>1, <1>7 DEF Idle
<1>10. ToScreen(task[r]) = {}
  BY <1>1 DEF ToScreen
<1>11. Steady(task[r]) => /\ e.status # "PENDING"
                          /\ e.status \in Risky => e.hold \in {"ACTIVE", "RELEASED"}
  BY <1>1, <1>5 DEF Steady, Fresh, Risky
<1>12. Moves(r, w)
  BY <1>1, <1>7 DEF setReview, Moves, Finish
<1>13. QED BY <1>1, <1>2, <1>5, <1>6, <1>8, <1>9, <1>10, <1>11, <1>12, CheckMove

LEMMA ReleaseReviewed ==
  ASSUME StageInv, NEW r \in Requests, releaseReviewed(r)
  PROVE  StageInv'
<1>1. /\ task[r] \in [step : {"review", "release"}, check : Nat, seen : CheckRow,
                      decision : {"APPROVED", "REJECTED", "ESCALATED"}]
      /\ task[r].step = "release" /\ task[r] # Idle /\ UNCHANGED <<stage, parties, awards>>
  BY StageShape DEF releaseReviewed, At, StageKept
<1> DEFINE i == task[r].check
<1>2. i \in DOMAIN checks /\ checks[i] \in CheckRow
  BY <1>1, Element DEF StageInv, StageData, Sound
<1>3. PICK e : e = [checks[i] EXCEPT !.hold = "RELEASED"]
  OBVIOUS
<1>4. e \in CheckRow /\ e.status = checks[i].status /\ e.party = checks[i].party /\ e.hold = "RELEASED"
  BY <1>2, <1>3 DEF CheckRow
<1>5. checks' = [checks EXCEPT ![i] = e]
  BY <1>3 DEF releaseReviewed
<1>6. Moves(r, Idle) /\ ToScreen(task[r]) = {} /\ Idle.step = "idle"
  BY <1>1 DEF releaseReviewed, Moves, Finish, ToScreen, Idle
<1>7. Steady(task[r]) => checks[i].status # "PENDING"
  BY <1>1, <1>2 DEF Steady, Answered
<1>8. QED BY <1>1, <1>2, <1>4, <1>5, <1>6, <1>7, IdleWork, CheckMove

\* Checks that lapse or expire are neither waited for nor held.
LEMMA ChecksAge ==
  ASSUME StageInv, UNCHANGED <<task, stage, parties, awards>>, Serial' => Serial,
         checks' \in Seq(CheckRow), DOMAIN checks' = DOMAIN checks,
         \A i \in DOMAIN checks :
           /\ checks'[i].party = checks[i].party /\ checks'[i].hold = checks[i].hold
           /\ \/ checks'[i].status = checks[i].status
              \/ checks[i].status # "PENDING" /\ checks'[i].status \in {"LAPSED", "EXPIRED"}
  PROVE  StageInv'
<1>1. StageData'
  BY DEF StageInv, StageData
<1>2. \A r \in Requests : Sound(task[r])'
  BY DEF StageInv, Sound, SomeIssued
<1>3. ASSUME NEW r \in Requests, task[r].step # "result" \/ task[r].check \in DOMAIN checks, Steady(task[r])
      PROVE  Steady(task[r])'
  <2>1. Answered(task[r])'
    BY <1>3 DEF Steady, Answered, Risky
  <2>2. ScreenedParties \subseteq ScreenedParties'
    BY DEF ScreenedParties
  <2>3. ToScreen(task[r])' = ToScreen(task[r])
    BY <1>3 DEF ToScreen
  <2>4. task[r].step = "transition" => ~Held'
    BY <1>3 DEF Steady, Fresh, Held
  <2>5. task[r].step = "review" /\ task[r].seen.status \in Risky => checks'[task[r].check].hold \in {"ACTIVE", "RELEASED"}
    BY <1>3 DEF Steady, Fresh, Sound, StageInv
  <2>6. Fresh(task[r])'
    BY <1>3, <2>4, <2>5 DEF Steady, Fresh
  <2>7. QED BY <1>3, <2>1, <2>2, <2>3, <2>6 DEF Steady
<1>4. ASSUME Serial' PROVE Alone' /\ \A r \in Requests : Only(r)' => Steady(task[r])'
  <2>1. Alone'
    BY <1>4 DEF StageInv, Alone
  <2>2. ASSUME NEW r \in Requests, Only(r)' PROVE Steady(task[r])'
    <3>1. Steady(task[r])
      BY <1>4, <2>2 DEF StageInv, Only
    <3>2. QED BY <1>3, <3>1 DEF StageInv, Sound
  <2>3. QED BY <2>1, <2>2
<1>5. QED BY <1>1, <1>2, <1>4 DEF StageInv, SomeIssued

LEMMA Lapse ==
  ASSUME StageInv, lapse
  PROVE  StageInv'
<1>1. PICK i \in DOMAIN checks : checks[i].status = "CLEAR" /\ checks' = [checks EXCEPT ![i].status = "LAPSED"]
  BY DEF lapse
<1>2. checks \in Seq(CheckRow) /\ checks[i] \in CheckRow
  BY Element DEF StageInv, StageData
<1>3. PICK e : e = [checks[i] EXCEPT !.status = "LAPSED"]
  OBVIOUS
<1>4. e \in CheckRow /\ e.status = "LAPSED" /\ e.party = checks[i].party /\ e.hold = checks[i].hold
  BY <1>2, <1>3 DEF CheckRow
<1>5. checks' = [checks EXCEPT ![i] = e]
  BY <1>1, <1>3
<1>6. /\ checks' \in Seq(CheckRow) /\ DOMAIN checks' = DOMAIN checks
      /\ \A j \in DOMAIN checks : checks'[j] = IF j = i THEN e ELSE checks[j]
  BY <1>2, <1>4, <1>5, Updated
<1>7. UNCHANGED <<task, alone, stage, parties, awards>>
  BY DEF lapse, StageKept
<1>8. QED BY <1>1, <1>4, <1>6, <1>7, ChecksAge DEF Serial

LEMMA MarkExpired ==
  ASSUME StageInv, NEW r \in Requests, markExpired(r)
  PROVE  StageInv'
<1> DEFINE Aged(c) == IF c.status = "LAPSED" THEN [c EXCEPT !.status = "EXPIRED"] ELSE c
<1>1. checks' = [i \in DOMAIN checks |-> Aged(checks[i])]
  BY DEF markExpired
<1>2. ASSUME NEW c \in CheckRow
      PROVE  /\ Aged(c) \in CheckRow /\ Aged(c).party = c.party /\ Aged(c).hold = c.hold
             /\ Aged(c).status = c.status \/ (c.status # "PENDING" /\ Aged(c).status \in {"LAPSED", "EXPIRED"})
  BY <1>2 DEF CheckRow
<1>3. checks \in Seq(CheckRow) /\ \A i \in DOMAIN checks : checks[i] \in CheckRow
  BY Element DEF StageInv, StageData
<1> HIDE DEF Aged
<1>4. checks' \in [1..Len(checks) -> CheckRow] /\ Len(checks) \in Nat /\ DOMAIN checks' = DOMAIN checks
  BY <1>1, <1>2, <1>3, LenProperties
<1>5. checks' \in Seq(CheckRow)
  BY <1>4, SeqDef
<1>6. UNCHANGED <<task, stage, parties, awards>> /\ (Serial' => Serial)
  BY DEF markExpired, StageKept, AtOnce, Serial
<1>7. QED BY <1>1, <1>2, <1>3, <1>4, <1>5, <1>6, ChecksAge
-----------------------------------------------------------------------------
(* The stage as appointments and awards move it, and the awards *)

LEMMA AdvanceStage ==
  ASSUME StageInv, NEW r \in Requests, advanceStage(r)
  PROVE  StageInv'
<1>1. /\ task[r] \in [step : {"advance"}, to : Stages]
      /\ task[r] # Idle /\ UNCHANGED stageVars
  BY StageShape DEF advanceStage, At
<1>2. PICK w : w = IF stage = task[r].to THEN Idle
                   ELSE [step |-> "advanceFrom", from |-> stage, to |-> task[r].to]
  OBVIOUS
<1>3. w \in StageTask
  BY <1>1, <1>2, IdleWork DEF StageTask, StageInv, StageData
<1>4. Sound(task[r])
  BY DEF StageInv
<1>5. Sound(w) /\ Fresh(w)
  BY <1>1, <1>2, <1>4, IdleWork DEF Sound, Fresh
<1>6. (Answered(task[r]) => Answered(w)) /\ ToScreen(task[r]) = {}
  BY <1>1 DEF Answered, ToScreen
<1>7. Moves(r, w)
  BY <1>1, <1>2 DEF advanceStage, Moves, Finish
<1>8. QED BY <1>1, <1>3, <1>5, <1>6, <1>7, StageKeep DEF Steady

LEMMA SetStage ==
  ASSUME StageInv, NEW r \in Requests, setStage(r) \/ setSubmitted(r)
  PROVE  StageInv'
<1>1. /\ task[r] # Idle /\ task[r].step \in {"submit", "advanceFrom"}
      /\ stage' \in Stages /\ stage' # "CASE_REGISTERED" /\ (stage' \in IssuedStages => SomeIssued)
  <2>1. CASE setStage(r)
    BY <2>1, StageShape DEF setStage, At, MoveStage, StageInv, Sound
  <2>2. CASE setSubmitted(r)
    BY <2>2, StageShape DEF setSubmitted, At, MoveStage, Stages, RegistrarStages, IssuedStages
  <2>3. QED BY <2>1, <2>2
<1>2. Moves(r, Idle) /\ UNCHANGED <<parties, checks, awards>>
  BY <1>1 DEF setStage, setSubmitted, Moves, Finish, ScreeningKept
<1>3. PICK w \in StageTask : w = Idle
  BY IdleWork
<1>4. Sound(w)' /\ Fresh(w)'
  BY <1>3 DEF Sound, Fresh, Idle
<1>5. Answered(task[r]) => Answered(w)'
  BY <1>1, <1>2 DEF Answered
<1>6. Steady(task[r]) => Steady(w)'
  BY <1>1, <1>2, <1>4, <1>5 DEF Steady
<1>7. QED BY <1>1, <1>2, <1>3, <1>4, <1>6, StageMoveKeepingRows DEF StageInv, StageData

\* One award changes: it stays signed and issued, and goes out only when signed.
LEMMA AwardMove ==
  ASSUME StageInv, NEW r \in Requests, NEW w \in StageTask, Moves(r, w),
         NEW i \in DOMAIN awards, NEW e \in AwardRow, awards' = [awards EXCEPT ![i] = e],
         UNCHANGED <<stage, parties, checks>>,
         awards[i].signed => e.signed, awards[i].issued <= e.issued, e.issued > 0 => e.signed,
         \/ w = Idle
         \/ w.step = "advance" /\ w.to # "CASE_REGISTERED" /\ (w.to \in IssuedStages => e.issued > 0),
         Serial /\ Steady(task[r]) => e.issued <= 1,
         task[r].step \in {"idle", "issue", "document", "correction"}
  PROVE  StageInv'
<1>1. /\ awards' \in Seq(AwardRow) /\ DOMAIN awards' = DOMAIN awards
      /\ \A j \in DOMAIN awards : awards'[j] = IF j = i THEN e ELSE awards[j]
  BY Updated DEF StageInv, StageData
<1>2. \A j \in DOMAIN awards : awards[j] \in AwardRow
  BY Element DEF StageInv, StageData
<1>3. \A j \in DOMAIN awards :
        /\ awards[j].signed => awards'[j].signed
        /\ awards[j].issued <= awards'[j].issued
        /\ awards'[j].issued > 0 => awards'[j].signed
  BY <1>1, <1>2 DEF StageInv, AwardRow
<1>4. Sound(w)'
  BY <1>1 DEF Sound, SomeIssued, Idle
<1>5. stage' \in IssuedStages => SomeIssued'
  BY <1>1, <1>2, <1>3 DEF StageInv, SomeIssued, AwardRow
<1>6. ASSUME Serial, Steady(task[r]) PROVE Steady(w)'
  <2>1. Fresh(w)'
    BY DEF Fresh, Idle
  <2>2. Answered(w)'
    BY <1>6 DEF Steady, Answered
  <2>3. ToScreen(task[r]) = {}
    BY DEF ToScreen
  <2>4. \A j \in DOMAIN awards' : awards'[j].issued <= 1
    BY <1>1, <1>6 DEF Steady
  <2>5. QED BY <1>6, <2>1, <2>2, <2>3, <2>4 DEF Steady, ScreenedParties
<1>7. QED BY <1>1, <1>3, <1>4, <1>5, <1>6, StageMove DEF StageInv, StageData

LEMMA CreateAward ==
  ASSUME StageInv, NEW r \in Requests, createAward(r)
  PROVE  StageInv'
<1>1. PICK w \in StageTask : w = AdvanceTo("DRAFT_AWARD")
  BY DEF StageTask, AdvanceTo, Stages
<1>2. Moves(r, w) /\ task[r] = Idle /\ UNCHANGED <<stage, parties, checks>>
  BY <1>1 DEF createAward, Moves, Begin, StageKept, ScreeningKept
<1>3. awards' = Append(awards, NewAward) /\ NewAward \in AwardRow /\ NewAward.issued = 0
  BY DEF createAward, NewAward, AwardRow
<1>4. /\ awards' \in Seq(AwardRow) /\ DOMAIN awards' = DOMAIN awards \cup {Len(awards) + 1}
      /\ \A j \in DOMAIN awards : awards'[j] = awards[j] /\ awards[j] \in AwardRow
      /\ awards'[Len(awards) + 1] = NewAward
  BY <1>3, Appended, Element DEF StageInv, StageData
<1>5. Sound(w)' /\ Fresh(w)'
  BY <1>1 DEF Sound, Fresh, AdvanceTo, IssuedStages
<1>6. stage' \in IssuedStages => SomeIssued'
  BY <1>2, <1>4 DEF StageInv, SomeIssued
<1>7. Steady(Idle) => Steady(w)'
  <2>1. Answered(Idle) => Answered(w)'
    BY <1>2 DEF Answered, Idle
  <2>2. ToScreen(Idle) = {}
    BY DEF ToScreen, Idle
  <2>3. Steady(Idle) => \A j \in DOMAIN awards' : awards'[j].issued <= 1
    BY <1>3, <1>4 DEF Steady
  <2>4. QED BY <1>2, <1>5, <2>1, <2>2, <2>3 DEF Steady, ScreenedParties
<1>8. /\ \A j \in DOMAIN awards : awards[j].issued <= awards'[j].issued
      /\ \A j \in DOMAIN awards' : awards'[j].issued > 0 => awards'[j].signed
  BY <1>3, <1>4 DEF StageInv, AwardRow
<1>9. QED BY <1>2, <1>4, <1>5, <1>6, <1>7, <1>8, StageMove DEF StageInv, StageData

LEMMA Sign ==
  ASSUME StageInv, NEW r \in Requests, sign(r)
  PROVE  StageInv'
<1>1. PICK i \in DOMAIN awards : awards' = [awards EXCEPT ![i].signed = TRUE]
  BY DEF sign
<1>2. awards[i] \in AwardRow
  BY Element DEF StageInv, StageData
<1>3. PICK e : e = [awards[i] EXCEPT !.signed = TRUE]
  OBVIOUS
<1>4. e \in AwardRow /\ e.signed /\ e.issued = awards[i].issued /\ awards[i].issued \in Nat
  BY <1>2, <1>3 DEF AwardRow
<1>5. awards' = [awards EXCEPT ![i] = e]
  BY <1>1, <1>3
<1>6. Moves(r, Idle) /\ task[r].step = "idle" /\ UNCHANGED <<stage, parties, checks>>
  BY DEF sign, Moves, AtOnce, StageKept, ScreeningKept, Idle
<1>7. PICK w \in StageTask : w = Idle
  BY IdleWork
<1>8. Steady(task[r]) => e.issued <= 1
  BY <1>4 DEF Steady
<1>9. /\ awards[i].signed => e.signed
      /\ awards[i].issued <= e.issued
      /\ e.issued > 0 => e.signed
  BY <1>4
<1>10. e \in AwardRow
  BY <1>4
<1>11. QED BY <1>5, <1>6, <1>7, <1>8, <1>9, <1>10, AwardMove

\* What an award is asked of when a handler on it begins.
LEMMA AwardHandlers ==
  ASSUME StageInv, NEW r \in Requests, issue(r) \/ generateDocument(r) \/ requestCorrection(r)
  PROVE  StageInv'
<1> DEFINE Asked(i, w) ==
       \/ /\ awards[i].signed /\ awards[i].issued = 0
          /\ w = [step |-> "issue", award |-> i]
       \/ w = [step |-> "document", award |-> i, dated |-> awards[i].issued > 0]
       \/ awards[i].issued > 0 /\ w = [step |-> "correction", award |-> i]
<1>0. PICK i \in DOMAIN awards : \E w : Begin(r, w) /\ UNCHANGED stageVars /\ Asked(i, w)
  BY DEF issue, generateDocument, requestCorrection
<1>1. PICK w : Begin(r, w) /\ UNCHANGED stageVars /\ Asked(i, w)
  BY <1>0
<1>2. i \in Nat
  BY Element DEF StageInv, StageData
<1>3. w \in StageTask
  <2>1. CASE w.step = "document"
    <3>1. w = [step |-> "document", award |-> i, dated |-> awards[i].issued > 0]
      BY <1>1, <2>1
    <3>2. (awards[i].issued > 0) \in BOOLEAN
      OBVIOUS
    <3>3. w \in [step : {"document"}, award : Nat, dated : BOOLEAN]
      BY <1>2, <3>1, <3>2, Zenon
    <3>4. QED BY <3>3 DEF StageTask
  <2>2. CASE w.step # "document"
    BY <1>1, <1>2, <2>2 DEF StageTask
  <2>3. QED BY <2>1, <2>2
<1>4. Sound(w) /\ Fresh(w)
  BY <1>1 DEF Sound, Fresh
<1>5. QED BY <1>1, <1>3, <1>4, StageBegin

LEMMA PutOnAward ==
  ASSUME StageInv, NEW r \in Requests, setIssued(r) \/ setDocument(r) \/ setCorrection(r)
  PROVE  StageInv'
<1> DEFINE i == task[r].award
<1>1. /\ task[r] # Idle /\ task[r].step \in {"issue", "document", "correction"}
      /\ i \in DOMAIN awards /\ awards[i] \in AwardRow
  BY StageShape, Element DEF setIssued, setDocument, setCorrection, At, StageInv, StageData, Sound
<1>2. PICK w, e :
        /\ Continue(r, w) /\ awards' = [awards EXCEPT ![i] = e] /\ UNCHANGED <<stage, parties, checks>>
        /\ \/ /\ task[r].step = "issue" /\ e = [awards[i] EXCEPT !.issued = @ + 1]
              /\ w = AdvanceTo("AWARD_ISSUED")
           \/ /\ task[r].step = "document" /\ \E d \in {"dated", "undated"} : e = [awards[i] EXCEPT !.document = d]
              /\ w = Idle
           \/ /\ task[r].step = "correction" /\ e = [awards[i] EXCEPT !.correction = "REQUESTED"]
              /\ w = AdvanceTo("CORRECTION_OR_INTERPRETATION")
  BY DEF setIssued, setDocument, setCorrection, PutAward, Award, Finish, StageKept, ScreeningKept, At
<1>3. /\ e \in AwardRow /\ e.signed = awards[i].signed
      /\ e.issued = IF task[r].step = "issue" THEN awards[i].issued + 1 ELSE awards[i].issued
  <2>1. awards[i].issued \in Nat
    BY <1>1 DEF AwardRow
  <2>2. CASE e = [awards[i] EXCEPT !.issued = @ + 1] /\ task[r].step = "issue"
    BY <1>1, <2>1, <2>2 DEF AwardRow
  <2>3. ASSUME NEW d \in {"dated", "undated"}, e = [awards[i] EXCEPT !.document = d], task[r].step # "issue"
        PROVE  <1>3
    BY <1>1, <2>3 DEF AwardRow
  <2>4. CASE e = [awards[i] EXCEPT !.correction = "REQUESTED"] /\ task[r].step # "issue"
    BY <1>1, <2>4 DEF AwardRow
  <2>5. QED BY <1>2, <2>2, <2>3, <2>4
<1>4. Sound(task[r]) /\ (awards[i].issued > 0 => awards[i].signed) /\ awards[i].issued \in Nat
  BY <1>1 DEF StageInv, AwardRow
<1>5. w \in StageTask
  BY <1>2, IdleWork DEF StageTask, AdvanceTo, Stages, IssuedStages
<1>6. /\ awards[i].issued <= e.issued /\ (awards[i].signed => e.signed)
      /\ e.issued > 0 => e.signed
  BY <1>1, <1>3, <1>4 DEF Sound
<1>7. w = Idle \/ (w.step = "advance" /\ w.to # "CASE_REGISTERED" /\ (w.to \in IssuedStages => e.issued > 0))
  BY <1>1, <1>2, <1>3, <1>4 DEF Sound, AdvanceTo
<1>8. Steady(task[r]) => e.issued <= 1
  BY <1>1, <1>3, <1>4 DEF Steady, Fresh
<1>9. Moves(r, w)
  BY <1>1, <1>2 DEF Moves
<1>10. QED BY <1>1, <1>2, <1>3, <1>5, <1>6, <1>7, <1>8, <1>9, AwardMove

LEMMA StageStep ==
  ASSUME StageInv, StageNext
  PROVE  StageInv'
<1>1. CASE lapse
  BY <1>1, Lapse
<1>2. ASSUME NEW r \in Requests,
             submit(r) \/ setSubmitted(r) \/ appoint(r) \/ advanceStage(r) \/ setStage(r) \/ RegistrarStep(r)
      PROVE  StageInv'
  BY <1>2, Submission, SetStage, AdvanceStage, Transition, Cleared, SetTransition DEF RegistrarStep
<1>3. ASSUME NEW r \in Requests, ScreeningStep(r) PROVE StageInv'
  BY <1>3, RescreenForEvent, AddParty, ScreenManually, ScreenSubject, CreateCheck, SetResult, RaiseHold,
     ReleaseHold, ReviewCheck, SetReview, ReleaseReviewed, MarkExpired DEF ScreeningStep
<1>4. ASSUME NEW r \in Requests, AwardStep(r) PROVE StageInv'
  BY <1>4, CreateAward, Sign, AwardHandlers, PutOnAward DEF AwardStep
<1>5. QED BY <1>1, <1>2, <1>3, <1>4 DEF StageNext

\* Who moves the stage, and with which history row.
LEMMA StageMovers ==
  ASSUME StageInv, StageNext
  PROVE  \/ UNCHANGED <<stage, history>>
         \/ \E r \in Requests :
              /\ task[r] # Idle /\ UNCHANGED alone
              /\ \/ At(r, "submit") /\ MoveStage("DRAFT", "SUBMITTED")
                 \/ task[r].step \in {"transition", "advanceFrom"} /\ MoveStage(task[r].from, task[r].to)
<1> DEFINE Moved(r) ==
       /\ task[r] # Idle /\ UNCHANGED alone
       /\ \/ At(r, "submit") /\ MoveStage("DRAFT", "SUBMITTED")
          \/ task[r].step \in {"transition", "advanceFrom"} /\ MoveStage(task[r].from, task[r].to)
<1>1. ASSUME NEW r \in Requests, setSubmitted(r) \/ setStage(r) \/ setTransition(r) PROVE Moved(r)
  BY <1>1, StageShape DEF setSubmitted, setStage, setTransition, At, Finish, Continue
<1>2. ASSUME NEW r \in Requests,
             submit(r) \/ appoint(r) \/ advanceStage(r) \/ transition(r) \/ assertCaseClearedToProceed(r)
      PROVE  UNCHANGED <<stage, history>>
  BY <1>2 DEF submit, appoint, advanceStage, transition, assertCaseClearedToProceed, stageVars
<1>3. ASSUME NEW r \in Requests, ScreeningStep(r) PROVE UNCHANGED <<stage, history>>
  BY <1>3 DEF ScreeningStep, rescreenForEvent, addParty, screenManually, screenSubject, createCheck,
     setResult, raiseHold, releaseHold, reviewCheck, setReview, releaseReviewed, markExpired, stageVars, StageKept
<1>4. ASSUME NEW r \in Requests, AwardStep(r) PROVE UNCHANGED <<stage, history>>
  BY <1>4 DEF AwardStep, createAward, sign, issue, setIssued, generateDocument, setDocument,
     requestCorrection, setCorrection, PutAward, stageVars, StageKept
<1>5. lapse => UNCHANGED <<stage, history>>
  BY DEF lapse, StageKept
<1> HIDE DEF Moved
<1>6. UNCHANGED <<stage, history>> \/ \E r \in Requests : Moved(r)
  BY <1>1, <1>2, <1>3, <1>4, <1>5 DEF StageNext, RegistrarStep
<1>7. QED BY <1>6 DEF Moved

LEMMA HistoryFollows ==
  ASSUME StageInv, StageNext, history.to = stage
  PROVE  /\ history'.to = stage'
         /\ Serial' /\ history' # history => history'.from = stage
<1>1. ASSUME NEW r \in Requests, task[r] # Idle, UNCHANGED alone, Serial' PROVE Steady(task[r])
  BY <1>1 DEF StageInv, Serial, Alone, Only
<1>2. QED BY <1>1, StageMovers DEF MoveStage, Steady, Fresh, At

LEMMA StepIsScreened ==
  ASSUME StageInv, StageNext, NEW r \in Requests, Serial', At(r, "transition"), stage' # stage
  PROVE  /\ \A i \in DOMAIN checks :
              checks[i].hold # "ACTIVE" /\ (checks[i].status \in Risky => checks[i].hold = "RELEASED")
         /\ stage = "CASE_REGISTERED" => parties \subseteq ScreenedParties
<1>1. PICK q \in Requests : task[q] # Idle /\ UNCHANGED alone
  BY StageMovers
<1>2. Serial /\ Alone /\ task[r] # Idle
  BY <1>1, StageShape DEF Serial, StageInv, At
<1>3. Only(r)
  BY <1>2 DEF Alone, Only
<1>4. Steady(task[r])
  BY <1>2, <1>3 DEF StageInv
<1>5. ~Held /\ Answered(task[r]) /\ ToScreen(task[r]) = {}
  BY <1>4 DEF Steady, Fresh, At, ToScreen
<1>6. QED BY <1>4, <1>5 DEF Steady, Held, Answered, At
-----------------------------------------------------------------------------
(* Hearings *)

LEMMA HearingMove ==
  ASSUME HearingInv, NEW r \in Requests, NEW w \in HearingTask, Moves(r, w),
         Serial /\ HearingSteady(task[r]) => HearingSteady(w)'
  PROVE  HearingInv'
<1>1. task' = [task EXCEPT ![r] = w] /\ task \in [Requests -> HearingTask]
  BY DEF Moves, Begin, AtOnce, Continue, HearingInv
<1>2. ASSUME Serial' PROVE Alone' /\ \A s \in Requests : Only(s)' => HearingSteady(task[s])'
  <2>1. /\ Serial /\ Only(r) /\ Alone'
        /\ \A s \in Requests : Only(s)' => task'[s] = w
    BY <1>1, <1>2, OneAtATime DEF HearingInv
  <2>2. HearingSteady(w)'
    BY <2>1 DEF HearingInv
  <2>3. QED BY <2>1, <2>2 DEF HearingSteady
<1>3. QED BY <1>1, <1>2 DEF HearingInv

\* What each step of a hearing's handlers does to its status, and what is left to do.
LEMMA HearingMoves ==
  ASSUME HearingInv, HearingsNext
  PROVE  \E r \in Requests, w \in HearingTask :
           /\ Moves(r, w)
           /\ \/ task[r] = Idle /\ UNCHANGED <<hearing, links>> /\ HearingSteady(w)
              \/ w = task[r] /\ UNCHANGED <<hearing, links>>
              \/ /\ task[r].step \in {"rooms", "update", "teardown", "link"} /\ w = Idle
                 /\ \/ UNCHANGED <<hearing, links>>
                    \/ task[r].step = "link" /\ UNCHANGED hearing
                    \/ task[r].step \in {"rooms", "update", "teardown"} /\ UNCHANGED links
<1> DEFINE Step(r, w) ==
       /\ Moves(r, w)
       /\ \/ task[r] = Idle /\ UNCHANGED <<hearing, links>> /\ HearingSteady(w)
          \/ w = task[r] /\ UNCHANGED <<hearing, links>>
          \/ /\ task[r].step \in {"rooms", "update", "teardown", "link"} /\ w = Idle
             /\ \/ UNCHANGED <<hearing, links>>
                \/ task[r].step = "link" /\ UNCHANGED hearing
                \/ task[r].step \in {"rooms", "update", "teardown"} /\ UNCHANGED links
<1>1. PICK r \in Requests :
        \/ schedule(r) \/ createRoom(r) \/ roomFails(r) \/ createHearing(r) \/ update(r) \/ setUpdated(r)
        \/ cancel(r) \/ deleteRoom(r) \/ setCancelled(r) \/ getRoomJoinLink(r) \/ issueJoinUrl(r)
        \/ addParticipant(r) \/ recordAttendance(r)
  BY DEF HearingsNext
<1>2. task \in [Requests -> HearingTask] /\ (task[r].step # "idle" => task[r] # Idle) /\ Idle \in HearingTask
  BY DEF HearingInv, HearingTask, Idle
<1>3. CASE schedule(r) \/ cancel(r)
  <2>1. PICK step \in {"rooms", "teardown"} :
          /\ Begin(r, [step |-> step]) /\ UNCHANGED <<hearing, links>>
          /\ step = "rooms" => hearing = "none"
          /\ step = "teardown" => hearing \in Open
    BY <1>3 DEF schedule, cancel, hearingVars
  <2>2. PICK w \in HearingTask : w = [step |-> step]
    BY DEF HearingTask
  <2>3. Step(r, w)
    BY <2>1, <2>2 DEF Moves, Begin, HearingSteady
  <2>4. QED BY <2>3
<1>4. CASE update(r)
  <2>1. PICK status \in Open : Begin(r, [step |-> "update", status |-> status])
    BY <1>4 DEF update
  <2>2. PICK w \in HearingTask : w = [step |-> "update", status |-> status]
    BY DEF HearingTask
  <2>3. Step(r, w)
    BY <1>4, <2>1, <2>2 DEF update, hearingVars, Moves, Begin, HearingSteady
  <2>4. QED BY <2>3
<1>5. CASE getRoomJoinLink(r)
  <2>1. PICK k \in Rooms, caller \in Callers : Begin(r, [step |-> "link", kind |-> k, caller |-> caller])
    BY <1>5 DEF getRoomJoinLink
  <2>2. PICK w \in HearingTask : w = [step |-> "link", kind |-> k, caller |-> caller]
    BY DEF HearingTask
  <2>3. Step(r, w)
    BY <1>5, <2>1, <2>2 DEF getRoomJoinLink, hearingVars, Moves, Begin, HearingSteady
  <2>4. QED BY <2>3
<1>6. CASE addParticipant(r) \/ recordAttendance(r)
  <2>1. AtOnce(r) /\ UNCHANGED <<hearing, links>>
    BY <1>6 DEF addParticipant, recordAttendance
  <2>2. Step(r, Idle)
    BY <2>1 DEF Moves, AtOnce
  <2>3. QED BY <1>2, <2>2
<1>7. CASE createRoom(r) \/ deleteRoom(r)
  <2>1. task[r] # Idle /\ task[r] \in HearingTask /\ UNCHANGED <<task, alone, hearing, links>>
    BY <1>2, <1>7 DEF createRoom, deleteRoom, At
  <2>2. Step(r, task[r])
    BY <1>2, <2>1 DEF Moves, Continue
  <2>3. QED BY <2>1, <2>2
<1>8. CASE roomFails(r) \/ createHearing(r) \/ setUpdated(r) \/ setCancelled(r) \/ issueJoinUrl(r)
  <2>1. Step(r, Idle)
    BY <1>2, <1>8 DEF roomFails, createHearing, setUpdated, setCancelled, issueJoinUrl, At, Moves, Finish, hearingVars
  <2>2. QED BY <1>2, <2>1
<1>9. QED BY <1>1, <1>3, <1>4, <1>5, <1>6, <1>7, <1>8

LEMMA HearingStep ==
  ASSUME HearingInv, HearingsNext
  PROVE  /\ HearingInv'
         /\ Serial' /\ hearing = "CANCELLED" => UNCHANGED <<hearing, links>>
<1>1. PICK r \in Requests, w \in HearingTask :
        /\ Moves(r, w)
        /\ \/ task[r] = Idle /\ UNCHANGED <<hearing, links>> /\ HearingSteady(w)
           \/ w = task[r] /\ UNCHANGED <<hearing, links>>
           \/ /\ task[r].step \in {"rooms", "update", "teardown", "link"} /\ w = Idle
              /\ \/ UNCHANGED <<hearing, links>>
                 \/ task[r].step = "link" /\ UNCHANGED hearing
                 \/ task[r].step \in {"rooms", "update", "teardown"} /\ UNCHANGED links
  BY HearingMoves
<1>2. Serial /\ HearingSteady(task[r]) => HearingSteady(w)'
  BY <1>1 DEF HearingSteady, Idle
<1>3. HearingInv'
  BY <1>1, <1>2, HearingMove
<1>4. ASSUME Serial', hearing = "CANCELLED" PROVE UNCHANGED <<hearing, links>>
  <2>1. Serial /\ Only(r)
    BY <1>1, <1>4, OneAtATime DEF HearingInv
  <2>2. HearingSteady(task[r])
    BY <2>1 DEF HearingInv
  <2>3. QED BY <1>1, <1>4, <2>2 DEF HearingSteady, Open
<1>5. QED BY <1>3, <1>4
-----------------------------------------------------------------------------
(* What the parties put before the tribunal or the registry *)

StepsOf(k) ==
  CASE k = "production" -> {"documents", "produced"}
    [] k = "interim" -> {"decideInterim"}
    [] k = "joinder" -> {"comment", "decideJoinder", "withdraw"}
    [] k = "default" -> {"factor", "review", "report", "reported", "decideDefault", "defaultStage"}
    [] k = "expedited" -> {"consent", "consents", "track", "activate"}
    [] k = "filing" -> {"version", "reject", "supersede", "approve", "receipt"}
    [] OTHER -> {"submit", "reported by expert", "oath"}
Shaped(w) ==
  w = Idle \/ (w.step \in StepsOf(kind) /\ w = [step |-> w.step, seen |-> w.seen, args |-> w.args])

VersionRow == [status : {"SUBMITTED", "SUPERSEDED"}, receipt : BOOLEAN]
CorrectionRow == [of : Nat, approval : {"PENDING", "REJECTED", "APPROVED"}, new : Nat]
OfVersion(c) == row.corrections[c].of
ApprovedCorrections == {i \in DOMAIN row.corrections : row.corrections[i].approval = "APPROVED"}

(* The record of each kind of matter, and what is so whatever runs with what. *)
Matter ==
  /\ kind = "production" =>
       /\ row = [status |-> row.status, decision |-> row.decision, documents |-> row.documents]
       /\ row.status \in Granted => row.decision \in Granted
  /\ kind = "interim" => row = [status |-> row.status, decision |-> row.decision]
  /\ kind = "joinder" =>
       /\ row = [status |-> row.status, decision |-> row.decision]
       /\ row.status = "REQUESTED" => row.decision = NoDecision
  /\ kind = "default" =>
       row = [stage |-> row.stage, satisfied |-> row.satisfied, report |-> row.report, decision |-> row.decision]
  /\ kind = "expedited" => row = [status |-> row.status, basis |-> row.basis, consent |-> row.consent]
  /\ kind = "filing" =>
       /\ row \in [versions : Seq(VersionRow), corrections : Seq(CorrectionRow)]
       /\ \A i \in DOMAIN row.corrections : OfVersion(i) \in DOMAIN row.versions
       /\ \A i \in ApprovedCorrections :
            /\ row.corrections[i].new = OfVersion(i) + 1 /\ OfVersion(i) + 1 \in DOMAIN row.versions
            /\ row.versions[OfVersion(i)].status = "SUPERSEDED"

(* What a request carries from one call to the next.                        *)
Carried(w) ==
  /\ kind = "joinder" /\ w.step = "decideJoinder" => w.args \in Decision
  /\ kind = "expedited" /\ w.step = "track" => w.args \in {"DECLINED", "AGREED"}
  /\ kind = "filing" /\ w # Idle =>
       /\ w.args \in DOMAIN row.corrections
       /\ w.step \in {"supersede", "approve", "receipt"} => OfVersion(w.args) + 1 \in DOMAIN row.versions
       /\ w.step = "approve" => row.versions[OfVersion(w.args)].status = "SUPERSEDED"

(* What is still so while one request runs at a time.  A correction that is *)
(* being approved has its version before it has its approval.               *)
Grounded(w) ==
  /\ kind = "production" =>
       /\ row.status = "PRODUCED" => row.decision \in Granted
       /\ w.step \in {"documents", "produced"} => row.decision \in Granted
  /\ kind = "interim" /\ w.step = "decideInterim" => row.decision = NoDecision
  /\ kind = "joinder" /\ w.step \in {"comment", "decideJoinder", "withdraw"} => row.decision = NoDecision
  /\ kind = "default" /\ w.step \in {"decideDefault", "defaultStage"} /\ w.args = "PROCEED" => MayProceed(row)
  /\ kind = "expedited" /\ w.step = "activate" /\ row.basis = "PARTY_AGREEMENT" => Agreement(row)
  /\ kind = "filing" =>
       /\ Len(row.versions) =
            1 + Cardinality(ApprovedCorrections) + (IF w.step \in {"supersede", "approve"} THEN 1 ELSE 0)
       /\ \A v \in DOMAIN row.versions :
            row.versions[v].status = "SUPERSEDED" <=> v < Len(row.versions) - (IF w.step = "supersede" THEN 1 ELSE 0)
       /\ w.step \in {"version", "reject", "supersede", "approve"} => row.corrections[w.args].approval = "PENDING"
       /\ w.step \in {"supersede", "approve"} => Len(row.versions) = OfVersion(w.args) + 1

ApplicationInv ==
  /\ task = [r \in Requests |-> task[r]]
  /\ Matter
  /\ \A r \in Requests : Shaped(task[r]) /\ Carried(task[r])
  /\ Serial => Alone /\ (Quiet => Grounded(Idle)) /\ \A r \in Requests : Only(r) => Grounded(task[r])

LEMMA ApplicationMove ==
  ASSUME ApplicationInv, NEW r \in Requests, NEW w, Moves(r, w), UNCHANGED kind,
         Shaped(w), Matter', Carried(w)',
         \A v : Shaped(v) /\ Carried(v) => Carried(v)',
         Serial /\ Grounded(task[r]) => Grounded(w)'
  PROVE  ApplicationInv'
<1>1. task' = [task EXCEPT ![r] = w]
  BY DEF Moves, Begin, AtOnce, Continue, ApplicationInv
<1>2. task \in [Requests -> {task[s] : s \in Requests}]
  BY DEF ApplicationInv
<1>3. task' = [s \in Requests |-> task'[s]] /\ task'[r] = w /\ \A s \in Requests \ {r} : task'[s] = task[s]
  BY <1>1, <1>2
<1>4. ASSUME NEW s \in Requests PROVE Shaped(task[s])' /\ Carried(task[s])'
  <2>1. Shaped(w)'
    BY DEF Shaped
  <2>2. CASE s = r
    BY <1>3, <2>1, <2>2 DEF Shaped, Carried
  <2>3. CASE s # r
    BY <1>3, <2>3 DEF ApplicationInv, Shaped, Carried
  <2>4. QED BY <2>2, <2>3
<1>5. ASSUME Serial'
      PROVE  Alone' /\ (Quiet' => Grounded(Idle)') /\ \A s \in Requests : Only(s)' => Grounded(task[s])'
  <2>1. /\ Serial /\ Only(r) /\ Alone'
        /\ \A s \in Requests : Only(s)' => task'[s] = w
    BY <1>2, <1>5, OneAtATime DEF ApplicationInv
  <2>2. Grounded(w)'
    BY <2>1 DEF ApplicationInv
  <2>3. Quiet' => w = Idle
    BY <1>3 DEF Quiet
  <2>4. Quiet' => Grounded(Idle)'
    BY <2>2, <2>3 DEF Grounded, OfVersion
  <2>5. \A s \in Requests : Only(s)' => Grounded(task[s])'
    BY <2>1, <2>2 DEF Grounded, OfVersion
  <2>6. QED BY <2>1, <2>4, <2>5
<1>6. QED BY <1>3, <1>4, <1>5 DEF ApplicationInv

Others == {"production", "interim", "joinder", "default", "expedited", "filing"}

LEMMA StepsOfKind ==
  ASSUME ApplicationInv, NEW r \in Requests
  PROVE  /\ kind = "production" => task[r].step \in {"idle", "documents", "produced"}
         /\ kind = "interim" => task[r].step \in {"idle", "decideInterim"}
         /\ kind = "joinder" => task[r].step \in {"idle", "comment", "decideJoinder", "withdraw"}
         /\ kind = "default" => task[r].step \in {"idle", "factor", "review", "report", "reported", "decideDefault", "defaultStage"}
         /\ kind = "expedited" => task[r].step \in {"idle", "consent", "consents", "track", "activate"}
         /\ kind = "filing" => task[r].step \in {"idle", "version", "reject", "supersede", "approve", "receipt"}
         /\ kind \notin Others => task[r].step \in {"idle", "submit", "reported by expert", "oath"}
<1>1. task[r].step = "idle" \/ task[r].step \in StepsOf(kind)
  BY DEF ApplicationInv, Shaped, Idle
<1>2. kind = "production" => StepsOf(kind) = {"documents", "produced"}
  BY DEF StepsOf
<1>3. kind = "interim" => StepsOf(kind) = {"decideInterim"}
  BY DEF StepsOf
<1>4. kind = "joinder" => StepsOf(kind) = {"comment", "decideJoinder", "withdraw"}
  BY DEF StepsOf
<1>5. kind = "default" => StepsOf(kind) = {"factor", "review", "report", "reported", "decideDefault", "defaultStage"}
  BY DEF StepsOf
<1>6. kind = "expedited" => StepsOf(kind) = {"consent", "consents", "track", "activate"}
  BY DEF StepsOf
<1>7. kind = "filing" => StepsOf(kind) = {"version", "reject", "supersede", "approve", "receipt"}
  BY DEF StepsOf
<1>8. kind \notin Others => StepsOf(kind) = {"submit", "reported by expert", "oath"}
  BY DEF StepsOf, Others
<1>9. QED BY <1>1, <1>2, <1>3, <1>4, <1>5, <1>6, <1>7, <1>8

\* Whose steps a matter of each kind takes.
ProductionStep(r) ==
  \/ object(r) \/ reply(r) \/ flagNonCompliance(r) \/ (\E d \in Decision : decideProduction(r, d))
  \/ produce(r) \/ addDocuments(r) \/ setProduced(r)
InterimStep(r) == InterimController(r) \/ setInterim(r)
JoinderStep(r) ==
  \/ comment(r) \/ withdraw(r) \/ \E d \in {"GRANTED", "DENIED"} : decideJoinder(r, d)
  \/ openComments(r) \/ setJoinder(r) \/ setWithdrawn(r)
DefaultStep(r) ==
  \/ DefaultsController(r) \/ setFactor(r) \/ setRegistrarReview(r) \/ setReport(r) \/ setReported(r)
  \/ recordDefault(r) \/ setDefaultStage(r)
ExpeditedStep(r) ==
  \/ \E u \in Users, answer \in {"yes", "no"} : consent(r, u, answer)
  \/ activate(r) \/ terminate(r) \/ setConsent(r) \/ readConsents(r) \/ setTrack(r) \/ setActive(r)
FilingStep(r) ==
  \/ \E i \in 1..(MaxRows + 1) : requestFilingCorrection(r, i) \/ \E approve \in BOOLEAN : decideCorrection(r, i, approve)
  \/ rejectCorrection(r) \/ createVersion(r) \/ supersede(r) \/ approveCorrection(r) \/ issueReceipt(r)
EvidenceStep(r) == EvidenceController(r) \/ addVersion(r) \/ setExpertReported(r) \/ setOath(r)

LEMMA KindSteps ==
  ASSUME ApplicationInv, ApplicationsNext
  PROVE  \E r \in Requests :
           \/ kind = "production" /\ ProductionStep(r)
           \/ kind = "interim" /\ InterimStep(r)
           \/ kind = "joinder" /\ JoinderStep(r)
           \/ kind = "default" /\ DefaultStep(r)
           \/ kind = "expedited" /\ ExpeditedStep(r)
           \/ kind = "filing" /\ FilingStep(r)
           \/ kind \notin Others /\ EvidenceStep(r)
<1> DEFINE Step(r) ==
       \/ kind = "production" /\ ProductionStep(r)
       \/ kind = "interim" /\ InterimStep(r)
       \/ kind = "joinder" /\ JoinderStep(r)
       \/ kind = "default" /\ DefaultStep(r)
       \/ kind = "expedited" /\ ExpeditedStep(r)
       \/ kind = "filing" /\ FilingStep(r)
       \/ kind \notin Others /\ EvidenceStep(r)
<1>1. PICK r \in Requests :
        \/ FilingsController(r) \/ InterimController(r) \/ DefaultsController(r)
        \/ CaseTracksController(r) \/ EvidenceController(r) \/ Work(r)
  BY DEF ApplicationsNext
<1>3. FilingsController(r) => Step(r)
  BY DEF FilingsController, object, reply, flagNonCompliance, decideProduction, produce, ProductionStep, FilingStep
<1>4. InterimController(r) => Step(r)
  BY DEF InterimController, oppose, modify, discharge, decideInterim, InterimStep
<1>5. DefaultsController(r) => Step(r)
  BY DEF DefaultsController, issueNotice, reviewFactor, fileRegistrarReport, decideDefault, DefaultStep
<1>6. CaseTracksController(r) => Step(r)
  BY DEF CaseTracksController, consent, activate, terminate, comment, withdraw, decideJoinder, ExpeditedStep, JoinderStep
<1>7. EvidenceController(r) => Step(r)
  BY DEF EvidenceController, submitStatement, recordOath, ruleObjection, EvidenceStep, Others
<1>8. Work(r) => Step(r)
  <2>1. addDocuments(r) \/ setProduced(r) => Step(r)
    BY StepsOfKind DEF addDocuments, setProduced, At, Others, ProductionStep
  <2>2. setInterim(r) => Step(r)
    BY StepsOfKind DEF setInterim, At, Others, InterimStep
  <2>3. openComments(r) \/ setJoinder(r) \/ setWithdrawn(r) => Step(r)
    BY StepsOfKind DEF openComments, setJoinder, setWithdrawn, At, Others, JoinderStep
  <2>4. setFactor(r) \/ setRegistrarReview(r) \/ setReport(r) \/ setReported(r) \/ recordDefault(r) \/ setDefaultStage(r)
          => Step(r)
    BY StepsOfKind DEF setFactor, setRegistrarReview, setReport, setReported, recordDefault, setDefaultStage,
       At, Others, DefaultStep
  <2>5. setConsent(r) \/ readConsents(r) \/ setTrack(r) \/ setActive(r) => Step(r)
    BY StepsOfKind DEF setConsent, readConsents, setTrack, setActive, At, Others, ExpeditedStep
  <2>6. rejectCorrection(r) \/ createVersion(r) \/ supersede(r) \/ approveCorrection(r) \/ issueReceipt(r) => Step(r)
    BY StepsOfKind DEF rejectCorrection, createVersion, supersede, approveCorrection, issueReceipt,
       At, Others, FilingStep
  <2>7. addVersion(r) \/ setExpertReported(r) \/ setOath(r) => Step(r)
    BY StepsOfKind DEF addVersion, setExpertReported, setOath, At, EvidenceStep, Others
  <2>8. QED BY <2>1, <2>2, <2>3, <2>4, <2>5, <2>6, <2>7 DEF Work
<1>9. QED BY <1>1, <1>3, <1>4, <1>5, <1>6, <1>7, <1>8

\* What the three ways of going on come to.
LEMMA Begun ==
  ASSUME NEW r \in Requests, NEW step, NEW args, Read(r, step, args)
  PROVE  \E w : /\ w = [step |-> step, seen |-> row, args |-> args]
                /\ Moves(r, w) /\ task[r] = Idle /\ UNCHANGED <<kind, row>>
BY DEF Read, Moves, Begin

LEMMA Settled ==
  ASSUME NEW r \in Requests, NEW new, Set(r, new)
  PROVE  Moves(r, Idle) /\ task[r] = Idle /\ row' = new /\ UNCHANGED kind
BY DEF Set, Moves, AtOnce

LEMMA PutOn ==
  ASSUME ApplicationInv, NEW r \in Requests, task[r].step # "idle", NEW new, NEW step, Put(r, new, step)
  PROVE  /\ row' = new /\ UNCHANGED <<kind, alone>>
         /\ step = "done" => Moves(r, Idle)
         /\ step # "done" => \E w : /\ w = [step |-> step, seen |-> task[r].seen, args |-> task[r].args]
                                   /\ Moves(r, w)
<1>1. task[r] # Idle
  BY DEF Idle
<1>2. task[r] = [step |-> task[r].step, seen |-> task[r].seen, args |-> task[r].args]
  BY <1>1 DEF ApplicationInv, Shaped
<1>3. [task[r] EXCEPT !.step = step] = [step |-> step, seen |-> task[r].seen, args |-> task[r].args]
  BY <1>2
<1>4. QED BY <1>1, <1>3 DEF Put, Finish, Continue, Moves

(* What every step of these handlers keeps, as the properties say it.       *)
StandsStep ==
  /\ ((kind = "default" \/ (kind \in {"interim", "joinder"} /\ Serial)) /\ row.decision # NoDecision
        => row'.decision = row.decision)
  /\ (kind = "joinder" /\ Serial /\ row.decision # NoDecision => row'.status = row.status)
GroundedStep ==
  Serial =>
    /\ (kind = "production" /\ row'.status = "PRODUCED" => row.decision \in Granted)
    /\ (kind = "default" /\ row'.stage = "PROCEED_AUTHORISED" /\ row.stage # row'.stage => MayProceed(row))
    /\ (kind = "expedited" /\ row'.status = "ACTIVE" /\ row.status # "ACTIVE" /\ row.basis = "PARTY_AGREEMENT"
         => Agreement(row))

LEMMA AtWork ==
  ASSUME ApplicationInv, Serial, NEW r \in Requests
  PROVE  /\ task[r] # Idle => Grounded(task[r])
         /\ \E q \in Requests : Grounded(task[q])
<1>1. task[r] # Idle => Only(r)
  BY DEF ApplicationInv, Alone, Only
<1>2. \E q \in Requests : Only(q)
  BY DEF ApplicationInv, Alone, Only
<1>3. QED BY <1>1, <1>2 DEF ApplicationInv

LEMMA Production ==
  ASSUME ApplicationInv, kind = "production", NEW r \in Requests, ProductionStep(r)
  PROVE  ApplicationInv' /\ StandsStep /\ GroundedStep
<1>1. /\ row = [status |-> row.status, decision |-> row.decision, documents |-> row.documents]
      /\ row.status \in Granted => row.decision \in Granted
  BY DEF ApplicationInv, Matter
<1>2. \A v : Carried(v)' \/ kind' # "production"
  BY DEF Carried
<1>3. Serial /\ row.status = "PRODUCED" => row.decision \in Granted
  BY AtWork DEF Grounded
<1>4. ASSUME NEW new, Set(r, new), new = [status |-> new.status, decision |-> new.decision, documents |-> new.documents],
             new.status # "PRODUCED", new.status \in Granted => new.decision \in Granted
      PROVE  ApplicationInv' /\ StandsStep /\ GroundedStep
  <2>1. Moves(r, Idle) /\ row' = new /\ UNCHANGED kind
    BY <1>4, Settled
  <2>2. Matter' /\ Shaped(Idle) /\ Grounded(Idle)'
    BY <1>4, <2>1 DEF Matter, Shaped, Grounded, Idle
  <2>3. ApplicationInv'
    BY <1>2, <2>1, <2>2, ApplicationMove
  <2>4. QED BY <1>4, <2>1, <2>3 DEF StandsStep, GroundedStep
<1>5. CASE object(r) \/ reply(r) \/ flagNonCompliance(r)
  <2>1. PICK status \in {"OBJECTED", "REPLIED", "NON_COMPLIANCE"} : Set(r, [row EXCEPT !.status = status])
    BY <1>5 DEF object, reply, flagNonCompliance
  <2>2. QED BY <1>1, <1>4, <2>1 DEF Granted
<1>6. ASSUME NEW d \in Decision, decideProduction(r, d) PROVE ApplicationInv' /\ StandsStep /\ GroundedStep
  <2>1. PICK new : new = [row EXCEPT !.status = d, !.decision = d]
    OBVIOUS
  <2>2. new = [status |-> d, decision |-> d, documents |-> row.documents]
    BY <1>1, <2>1
  <2>3. Set(r, new)
    BY <1>6, <2>1 DEF decideProduction
  <2>4. QED BY <1>4, <2>2, <2>3 DEF Decision, Granted
<1>7. CASE produce(r)
  <2>1. PICK w : /\ w = [step |-> "documents", seen |-> row, args |-> {}]
                 /\ Moves(r, w) /\ UNCHANGED <<kind, row>>
    BY <1>7, Begun DEF produce
  <2>2. Shaped(w) /\ Matter' /\ (Serial => Grounded(w)')
    BY <1>1, <1>3, <1>7, <2>1 DEF Shaped, StepsOf, Matter, Grounded, produce, ApplicationInv
  <2>3. ApplicationInv'
    BY <1>2, <2>1, <2>2, ApplicationMove
  <2>4. QED BY <1>3, <2>1, <2>3 DEF StandsStep, GroundedStep
<1>8. CASE addDocuments(r) \/ setProduced(r)
  <2>1. /\ task[r] # Idle /\ task[r].step \in {"documents", "produced"}
        /\ Serial => row.decision \in Granted
    BY <1>8, AtWork DEF addDocuments, setProduced, At, Idle, Grounded
  <2>2. PICK w : /\ Moves(r, w) /\ UNCHANGED kind /\ Shaped(w)
                 /\ row' = [status |-> row'.status, decision |-> row.decision, documents |-> row'.documents]
                 /\ row'.status = row.status \/ row'.status = "PRODUCED"
    <3>1. CASE addDocuments(r)
      <4>1. PICK w : /\ w = [step |-> "produced", seen |-> task[r].seen, args |-> task[r].args]
                     /\ Moves(r, w) /\ UNCHANGED kind /\ row' = [row EXCEPT !.documents = TRUE]
        BY <2>1, <3>1, PutOn DEF addDocuments
      <4>2. Shaped(w)
        BY <4>1 DEF Shaped, StepsOf
      <4>3. QED BY <1>1, <4>1, <4>2
    <3>2. CASE setProduced(r)
      BY <1>1, <2>1, <3>2, PutOn DEF setProduced, Shaped
    <3>3. QED BY <1>8, <3>1, <3>2
  <2>3. Matter' /\ (Serial => Grounded(w)')
    BY <1>1, <2>1, <2>2 DEF Matter, Grounded, Granted
  <2>4. ApplicationInv'
    BY <1>2, <2>2, <2>3, ApplicationMove
  <2>5. QED BY <2>1, <2>2, <2>4 DEF StandsStep, GroundedStep
<1>9. QED BY <1>5, <1>6, <1>7, <1>8 DEF ProductionStep

\* Interim measures and joinder: a decision, or a comment, is asked for while there
\* is none, and what is written changes the status and perhaps the decision.
LEMMA InterimOrJoinder ==
  ASSUME ApplicationInv, NEW r \in Requests,
         (kind = "interim" /\ InterimStep(r)) \/ (kind = "joinder" /\ JoinderStep(r))
  PROVE  ApplicationInv' /\ StandsStep /\ GroundedStep
<1>1. /\ row = [status |-> row.status, decision |-> row.decision]
      /\ kind = "joinder" /\ row.status = "REQUESTED" => row.decision = NoDecision
  BY DEF ApplicationInv, Matter
<1>2. ASSUME NEW v, Shaped(v), Carried(v) PROVE Carried(v)' \/ kind' # kind
  BY <1>2 DEF Carried
<1>3. CASE oppose(r) \/ modify(r) \/ discharge(r)
  <2>1. PICK status \in {"OPPOSED", "MODIFIED", "DISCHARGED"} : kind = "interim" /\ Set(r, [row EXCEPT !.status = status])
    BY <1>3 DEF oppose, modify, discharge
  <2>2. Moves(r, Idle) /\ row' = [row EXCEPT !.status = status] /\ UNCHANGED kind
    BY <2>1, Settled
  <2>3. row' = [status |-> status, decision |-> row.decision]
    BY <1>1, <2>2
  <2>4. Matter' /\ Shaped(Idle) /\ Carried(Idle)' /\ Grounded(Idle)'
    BY <2>1, <2>2, <2>3 DEF Matter, Shaped, Carried, Grounded, Idle
  <2>5. ApplicationInv'
    BY <1>2, <2>2, <2>4, ApplicationMove
  <2>6. QED BY <2>1, <2>3, <2>5 DEF StandsStep, GroundedStep
<1>4. ASSUME NEW step \in {"decideInterim", "comment", "decideJoinder", "withdraw"}, NEW args, Read(r, step, args),
             step \in StepsOf(kind), row.decision = NoDecision, step = "decideJoinder" => args \in Decision
      PROVE  ApplicationInv' /\ StandsStep /\ GroundedStep
  <2>1. PICK w : w = [step |-> step, seen |-> row, args |-> args] /\ Moves(r, w) /\ UNCHANGED <<kind, row>>
    BY <1>4, Begun
  <2>2. Shaped(w) /\ Matter' /\ Carried(w)' /\ Grounded(w)'
    BY <1>1, <1>4, <2>1 DEF Shaped, Matter, Carried, Grounded, InterimStep, JoinderStep
  <2>3. ApplicationInv'
    BY <1>2, <2>1, <2>2, ApplicationMove
  <2>4. QED BY <2>1, <2>3 DEF StandsStep, GroundedStep
<1>5. CASE \E d \in Decision : decideInterim(r, d)
  <2>1. PICK d \in Decision : Read(r, "decideInterim", d)
    BY <1>5 DEF decideInterim
  <2>2. row.decision = NoDecision /\ kind = "interim" /\ "decideInterim" \in StepsOf(kind)
    BY <1>5 DEF decideInterim, StepsOf
  <2>3. QED BY <1>4, <2>1, <2>2
<1>6. CASE comment(r)
  BY <1>1, <1>4, <1>6 DEF comment, StepsOf
<1>7. CASE withdraw(r)
  BY <1>4, <1>7 DEF withdraw, StepsOf
<1>8. CASE \E d \in {"GRANTED", "DENIED"} : decideJoinder(r, d)
  <2>1. PICK d \in {"GRANTED", "DENIED"} : Read(r, "decideJoinder", d)
    BY <1>8 DEF decideJoinder
  <2>2. row.decision = NoDecision /\ kind = "joinder" /\ "decideJoinder" \in StepsOf(kind)
    BY <1>8 DEF decideJoinder, StepsOf
  <2>3. QED BY <1>4, <2>1, <2>2 DEF Decision, Granted
<1>9. ASSUME task[r].step \in {"decideInterim", "comment", "decideJoinder", "withdraw"},
             NEW new, Put(r, new, "done"), new = [status |-> new.status, decision |-> new.decision],
             kind = "joinder" /\ new.status = "REQUESTED" => new.decision = NoDecision
      PROVE  ApplicationInv' /\ StandsStep /\ GroundedStep
  <2>1. Moves(r, Idle) /\ row' = new /\ UNCHANGED <<kind, alone>>
    BY <1>9, PutOn
  <2>2. Matter' /\ Shaped(Idle) /\ Carried(Idle)' /\ Grounded(Idle)'
    BY <1>9, <2>1 DEF Matter, Shaped, Carried, Grounded, Idle
  <2>3. ApplicationInv'
    BY <1>2, <2>1, <2>2, ApplicationMove
  <2>4. Serial => row.decision = NoDecision
    <3>1. Serial => Grounded(task[r])
      BY <1>9, AtWork DEF Idle
    <3>2. \/ kind = "interim" /\ task[r].step = "decideInterim"
          \/ kind = "joinder" /\ task[r].step \in {"comment", "decideJoinder", "withdraw"}
      BY <1>9, StepsOfKind
    <3>3. QED BY <3>1, <3>2 DEF Grounded
  <2>5. QED BY <2>1, <2>3, <2>4 DEF StandsStep, GroundedStep
<1>10. CASE setInterim(r)
  <2> DEFINE d == task[r].args
  <2>1. PICK new : new = [row EXCEPT !.status = d, !.decision = d]
    OBVIOUS
  <2>2. new = [status |-> d, decision |-> d]
    BY <1>1, <2>1
  <2>3. Put(r, new, "done")
    BY <1>10, <2>1 DEF setInterim
  <2>4. kind # "joinder" /\ task[r].step = "decideInterim"
    BY <1>10, StepsOfKind DEF setInterim, At
  <2>5. new = [status |-> new.status, decision |-> new.decision]
    BY <2>2
  <2>6. QED BY <1>9, <2>3, <2>4, <2>5
<1>11. CASE setJoinder(r)
  <2> DEFINE d == task[r].args
  <2>1. PICK new : new = [row EXCEPT !.status = d, !.decision = d]
    OBVIOUS
  <2>2. new = [status |-> d, decision |-> d]
    BY <1>1, <2>1
  <2>3. Put(r, new, "done")
    BY <1>11, <2>1 DEF setJoinder
  <2>4. kind = "joinder" => d \in Decision
    BY <1>11 DEF ApplicationInv, Carried, setJoinder, At
  <2>5. QED BY <1>9, <1>11, <2>2, <2>3, <2>4 DEF setJoinder, At, Decision, Granted
<1>12. CASE openComments(r) \/ setWithdrawn(r)
  <2>1. PICK status \in {"COMMENTS_OPEN", "WITHDRAWN"} : Put(r, [row EXCEPT !.status = status], "done")
    BY <1>12 DEF openComments, setWithdrawn
  <2>2. PICK new : new = [row EXCEPT !.status = status]
    OBVIOUS
  <2>3. new = [status |-> status, decision |-> row.decision]
    BY <1>1, <2>2
  <2>4. QED BY <1>9, <1>12, <2>1, <2>2, <2>3 DEF openComments, setWithdrawn, At
<1>13. QED BY <1>3, <1>5, <1>6, <1>7, <1>8, <1>10, <1>11, <1>12 DEF InterimStep, InterimController, JoinderStep

\* Default proceedings.  The decision is written only where there is none; the stage
\* that authorises them follows a decision taken on every factor and the report.
LEMMA DefaultProceedings ==
  ASSUME ApplicationInv, kind = "default", NEW r \in Requests, DefaultStep(r)
  PROVE  ApplicationInv' /\ StandsStep /\ GroundedStep
<1>1. row = [stage |-> row.stage, satisfied |-> row.satisfied, report |-> row.report, decision |-> row.decision]
  BY DEF ApplicationInv, Matter
<1>2. \A v : Carried(v)' \/ kind' # "default"
  BY DEF Carried
<1>3. ASSUME NEW stage0, issueNotice(r, stage0), stage0 \in NoticeStage PROVE ApplicationInv' /\ StandsStep /\ GroundedStep
  <2>1. PICK new : new = [row EXCEPT !.stage = stage0]
    OBVIOUS
  <2>2. new = [stage |-> stage0, satisfied |-> row.satisfied, report |-> row.report, decision |-> row.decision]
    BY <1>1, <2>1
  <2>3. Moves(r, Idle) /\ row' = new /\ UNCHANGED kind
    BY <1>3, <2>1, Settled DEF issueNotice
  <2>4. Matter' /\ Shaped(Idle) /\ Grounded(Idle)'
    BY <2>2, <2>3 DEF Matter, Shaped, Grounded, Idle
  <2>5. ApplicationInv'
    BY <1>2, <2>3, <2>4, ApplicationMove
  <2>6. QED BY <1>3, <2>2, <2>3, <2>5 DEF StandsStep, GroundedStep, NoticeStage
<1>4. ASSUME NEW step \in {"factor", "report", "decideDefault"}, NEW args, Read(r, step, args),
             step = "decideDefault" /\ args = "PROCEED" => MayProceed(row)
      PROVE  ApplicationInv' /\ StandsStep /\ GroundedStep
  <2>1. PICK w : w = [step |-> step, seen |-> row, args |-> args] /\ Moves(r, w) /\ UNCHANGED <<kind, row>>
    BY <1>4, Begun
  <2>2. Shaped(w) /\ Matter' /\ Grounded(w)'
    BY <1>1, <1>4, <2>1 DEF Shaped, StepsOf, Matter, Grounded
  <2>3. ApplicationInv'
    BY <1>2, <2>1, <2>2, ApplicationMove
  <2>4. QED BY <2>1, <2>3 DEF StandsStep, GroundedStep
<1>5. ASSUME DefaultsController(r) PROVE ApplicationInv' /\ StandsStep /\ GroundedStep
  BY <1>3, <1>4, <1>5 DEF DefaultsController, reviewFactor, fileRegistrarReport, decideDefault
<1>6. ASSUME NEW new, NEW step, Put(r, new, step), task[r].step # "idle",
             new = [stage |-> new.stage, satisfied |-> new.satisfied, report |-> new.report, decision |-> new.decision],
             step \in {"done", "review", "reported", "defaultStage"},
             row.decision # NoDecision => new.decision = row.decision,
             Serial /\ new.stage = "PROCEED_AUTHORISED" /\ row.stage # new.stage => MayProceed(row),
             Serial /\ step = "defaultStage" =>
               task[r].step = "decideDefault" /\ new.satisfied = row.satisfied /\ new.report = row.report
      PROVE  ApplicationInv' /\ StandsStep /\ GroundedStep
  <2>1. /\ row' = new /\ UNCHANGED <<kind, alone>>
        /\ step = "done" => Moves(r, Idle)
        /\ step # "done" => \E w : /\ w = [step |-> step, seen |-> task[r].seen, args |-> task[r].args]
                                   /\ Moves(r, w)
    BY <1>6, PutOn
  <2>2. PICK w : /\ Moves(r, w)
                 /\ w = IF step = "done" THEN Idle ELSE [step |-> step, seen |-> task[r].seen, args |-> task[r].args]
    BY <2>1
  <2>3. Shaped(w) /\ Matter'
    BY <1>6, <2>1, <2>2 DEF Shaped, StepsOf, Matter
  <2>4. Serial /\ Grounded(task[r]) => Grounded(w)'
    BY <1>6, <2>1, <2>2 DEF Grounded, MayProceed, Idle
  <2>5. ApplicationInv'
    BY <1>2, <2>1, <2>2, <2>3, <2>4, ApplicationMove
  <2>6. QED BY <1>6, <2>1, <2>5 DEF StandsStep, GroundedStep
<1>7. CASE setFactor(r)
  <2>1. PICK new, step : /\ Put(r, new, step) /\ step \in {"done", "review"}
                         /\ \E set : new = [row EXCEPT !.satisfied = set]
    BY <1>7 DEF setFactor
  <2>2. PICK set : new = [row EXCEPT !.satisfied = set]
    BY <2>1
  <2>3. new = [stage |-> row.stage, satisfied |-> set, report |-> row.report, decision |-> row.decision]
    BY <1>1, <2>2
  <2>4. QED BY <1>6, <1>7, <2>1, <2>3 DEF setFactor, At
<1>8. CASE setRegistrarReview(r) \/ setReported(r)
  <2>1. PICK new : /\ Put(r, new, "done")
                   /\ \E to \in {"REGISTRAR_REVIEW", "TRIBUNAL_REVIEW"} : new = [row EXCEPT !.stage = to]
    BY <1>8 DEF setRegistrarReview, setReported
  <2>2. PICK to \in {"REGISTRAR_REVIEW", "TRIBUNAL_REVIEW"} : new = [row EXCEPT !.stage = to]
    BY <2>1
  <2>3. new = [stage |-> to, satisfied |-> row.satisfied, report |-> row.report, decision |-> row.decision]
    BY <1>1, <2>2
  <2>4. QED BY <1>6, <1>8, <2>1, <2>3 DEF setRegistrarReview, setReported, At
<1>9. CASE setReport(r)
  <2>1. PICK new : new = [row EXCEPT !.report = task[r].args]
    OBVIOUS
  <2>2. new = [stage |-> row.stage, satisfied |-> row.satisfied, report |-> task[r].args, decision |-> row.decision]
    BY <1>1, <2>1
  <2>3. QED BY <1>6, <1>9, <2>1, <2>2 DEF setReport, At
<1>10. CASE recordDefault(r)
  <2>1. PICK new : new = [row EXCEPT !.decision = task[r].args]
    OBVIOUS
  <2>2. new = [stage |-> row.stage, satisfied |-> row.satisfied, report |-> row.report, decision |-> task[r].args]
    BY <1>1, <2>1
  <2>3. IF row.decision = NoDecision THEN Put(r, new, "defaultStage") ELSE Put(r, row, "done")
    BY <1>10, <2>1 DEF recordDefault
  <2>4. task[r].step = "decideDefault"
    BY <1>10 DEF recordDefault, At
  <2>5. CASE row.decision = NoDecision
    BY <1>6, <2>2, <2>3, <2>4, <2>5
  <2>6. CASE row.decision # NoDecision
    BY <1>1, <1>6, <2>3, <2>4, <2>6
  <2>7. QED BY <2>5, <2>6
<1>11. CASE setDefaultStage(r)
  <2>1. PICK to : to = CASE task[r].args = "PROCEED" -> "PROCEED_AUTHORISED"
                         [] task[r].args = "REFUSE" -> "PROCEED_REFUSED"
                         [] OTHER -> "CURED"
    OBVIOUS
  <2>2. PICK new : new = [row EXCEPT !.stage = to]
    OBVIOUS
  <2>3. new = [stage |-> to, satisfied |-> row.satisfied, report |-> row.report, decision |-> row.decision]
    BY <1>1, <2>2
  <2>4. Put(r, new, "done") /\ task[r].step = "defaultStage"
    BY <1>11, <2>1, <2>2 DEF setDefaultStage, At
  <2>5. Serial => Grounded(task[r])
    BY <2>4, AtWork DEF Idle
  <2>6. to = "PROCEED_AUTHORISED" => task[r].args = "PROCEED"
    BY <2>1
  <2>7. Serial /\ to = "PROCEED_AUTHORISED" => MayProceed(row)
    BY <2>4, <2>5, <2>6 DEF Grounded
  <2>8. QED BY <1>6, <2>3, <2>4, <2>7
<1>12. QED BY <1>5, <1>7, <1>8, <1>9, <1>10, <1>11 DEF DefaultStep

\* The expedited track: AGREED and DECLINED are all that consents make of it.
LEMMA Expedited ==
  ASSUME ApplicationInv, kind = "expedited", NEW r \in Requests, ExpeditedStep(r)
  PROVE  ApplicationInv' /\ StandsStep /\ GroundedStep
<1>1. row = [status |-> row.status, basis |-> row.basis, consent |-> row.consent]
  BY DEF ApplicationInv, Matter
<1>2. \A v : Carried(v) /\ kind' = "expedited" => Carried(v)'
  BY DEF Carried
<1>3. ASSUME NEW w, Moves(r, w), Shaped(w), UNCHANGED kind,
             w.step = "track" => w.args \in {"DECLINED", "AGREED"},
             row' = [status |-> row'.status, basis |-> row'.basis, consent |-> row'.consent],
             w.step = "activate" => /\ row' = row
                                    /\ row.basis = "PARTY_AGREEMENT" => Agreement(row),
             Serial /\ row'.status = "ACTIVE" /\ row.status # "ACTIVE" /\ row.basis = "PARTY_AGREEMENT" => Agreement(row)
      PROVE  ApplicationInv' /\ StandsStep /\ GroundedStep
  <2>1. Matter' /\ Carried(w)' /\ Grounded(w)'
    BY <1>3 DEF Matter, Carried, Grounded
  <2>2. ApplicationInv'
    BY <1>2, <1>3, <2>1, ApplicationMove
  <2>3. QED BY <1>3, <2>2 DEF StandsStep, GroundedStep
<1>4. ASSUME NEW u \in Users, NEW answer \in {"yes", "no"}, consent(r, u, answer)
      PROVE  ApplicationInv' /\ StandsStep /\ GroundedStep
  <2>1. PICK args : Read(r, "consent", args)
    BY <1>4 DEF consent
  <2>2. PICK w : w = [step |-> "consent", seen |-> row, args |-> args] /\ Moves(r, w) /\ UNCHANGED <<kind, row>>
    BY <2>1, Begun
  <2>3. Shaped(w)
    BY <2>2 DEF Shaped, StepsOf
  <2>4. QED BY <1>1, <1>3, <2>2, <2>3
<1>5. CASE activate(r)
  <2>1. PICK w : w = [step |-> "activate", seen |-> row, args |-> {}] /\ Moves(r, w) /\ UNCHANGED <<kind, row>>
    BY <1>5, Begun DEF activate
  <2>2. Shaped(w)
    BY <2>1 DEF Shaped, StepsOf
  <2>3. QED BY <1>1, <1>3, <1>5, <2>1, <2>2 DEF activate
<1>6. Shaped(Idle) /\ Idle.step = "idle"
  BY DEF Shaped, Idle
<1>7. CASE terminate(r)
  <2>1. PICK new : new = [row EXCEPT !.status = "TERMINATED"]
    OBVIOUS
  <2>2. new = [status |-> "TERMINATED", basis |-> row.basis, consent |-> row.consent]
    BY <1>1, <2>1
  <2>3. Moves(r, Idle) /\ row' = new /\ UNCHANGED kind
    BY <1>7, <2>1, Settled DEF terminate
  <2>4. QED BY <1>3, <1>6, <2>2, <2>3
<1>8. CASE setConsent(r)
  <2>1. PICK new, all : new = [row EXCEPT !.consent = all] /\ Put(r, new, "consents")
    BY <1>8 DEF setConsent
  <2>2. new = [status |-> row.status, basis |-> row.basis, consent |-> all]
    BY <1>1, <2>1
  <2>3. PICK w : /\ w = [step |-> "consents", seen |-> task[r].seen, args |-> task[r].args]
                 /\ Moves(r, w) /\ row' = new /\ UNCHANGED kind
    BY <1>8, <2>1, PutOn DEF setConsent, At
  <2>4. Shaped(w)
    BY <2>3 DEF Shaped, StepsOf
  <2>5. QED BY <1>3, <2>2, <2>3, <2>4
<1>9. CASE readConsents(r)
  <2>1. task[r] # Idle /\ UNCHANGED <<kind, row>>
    BY <1>9 DEF readConsents, At, Idle
  <2>2. task[r] = [step |-> task[r].step, seen |-> task[r].seen, args |-> task[r].args]
    BY <2>1 DEF ApplicationInv, Shaped
  <2>3. PICK status \in {"DECLINED", "AGREED"} :
          Finish(r) \/ Continue(r, [task[r] EXCEPT !.step = "track", !.args = status])
    BY <1>9 DEF readConsents
  <2>4. PICK w : w = [task[r] EXCEPT !.step = "track", !.args = status]
    OBVIOUS
  <2>5. w = [step |-> "track", seen |-> task[r].seen, args |-> status]
    BY <2>2, <2>4
  <2>6. Shaped(w)
    BY <2>1, <2>5 DEF Shaped, StepsOf
  <2>7. CASE Finish(r)
    BY <1>1, <1>3, <1>6, <2>1, <2>7 DEF Finish, Moves
  <2>8. CASE Continue(r, w)
    BY <1>1, <1>3, <2>1, <2>5, <2>6, <2>8 DEF Moves
  <2>9. QED BY <2>3, <2>4, <2>7, <2>8
<1>10. CASE setTrack(r) \/ setActive(r)
  <2>1. PICK status : /\ Put(r, [row EXCEPT !.status = status], "done")
                      /\ \/ task[r].step = "track" /\ status = task[r].args
                         \/ task[r].step = "activate" /\ status = "ACTIVE"
    BY <1>10 DEF setTrack, setActive, At
  <2>2. PICK new : new = [row EXCEPT !.status = status]
    OBVIOUS
  <2>3. new = [status |-> status, basis |-> row.basis, consent |-> row.consent]
    BY <1>1, <2>2
  <2>4. Moves(r, Idle) /\ row' = new /\ UNCHANGED kind
    BY <2>1, <2>2, PutOn
  <2>5. task[r].step = "track" => status # "ACTIVE"
    BY <2>1 DEF ApplicationInv, Carried
  <2>6. Serial /\ task[r].step = "activate" /\ row.basis = "PARTY_AGREEMENT" => Agreement(row)
    BY AtWork DEF Grounded, Idle
  <2>7. QED BY <1>3, <1>6, <2>1, <2>3, <2>4, <2>5, <2>6
<1>11. QED BY <1>4, <1>5, <1>7, <1>8, <1>9, <1>10 DEF ExpeditedStep

\* Filings.  Versions are added and only ever become superseded; a correction keeps
\* the version it is of.
LEMMA FilingMove ==
  ASSUME ApplicationInv, kind = "filing", NEW r \in Requests, NEW w, Moves(r, w), UNCHANGED kind,
         NEW nv \in Seq(VersionRow), NEW nc \in Seq(CorrectionRow), row' = [versions |-> nv, corrections |-> nc],
         DOMAIN row.versions \subseteq DOMAIN nv, DOMAIN row.corrections \subseteq DOMAIN nc,
         \A i \in DOMAIN row.versions : row.versions[i].status = "SUPERSEDED" => nv[i].status = "SUPERSEDED",
         \A i \in DOMAIN row.corrections : nc[i].of = row.corrections[i].of,
         \A i \in DOMAIN nc :
           /\ nc[i].of \in DOMAIN nv
           /\ nc[i].approval = "APPROVED" =>
                nc[i].new = nc[i].of + 1 /\ nc[i].of + 1 \in DOMAIN nv /\ nv[nc[i].of].status = "SUPERSEDED",
         Shaped(w), Carried(w)',
         Serial /\ Grounded(task[r]) => Grounded(w)'
  PROVE  ApplicationInv' /\ StandsStep /\ GroundedStep
<1>1. Matter'
  BY DEF Matter, OfVersion, ApprovedCorrections
<1>2. \A i \in DOMAIN row.corrections : OfVersion(i)' = OfVersion(i) /\ OfVersion(i) \in DOMAIN row.versions
  BY DEF OfVersion, ApplicationInv, Matter
<1>3. ASSUME NEW v, Carried(v) PROVE Carried(v)'
  BY <1>2, <1>3 DEF Carried, Idle
<1>4. ApplicationInv'
  BY <1>1, <1>3, ApplicationMove
<1>5. QED BY <1>4 DEF StandsStep, GroundedStep

LEMMA FilingRow ==
  ASSUME ApplicationInv, kind = "filing"
  PROVE  /\ row = [versions |-> row.versions, corrections |-> row.corrections]
         /\ row.versions \in Seq(VersionRow) /\ row.corrections \in Seq(CorrectionRow)
         /\ \A i \in DOMAIN row.corrections : row.corrections[i] \in CorrectionRow /\ i \in Nat
         /\ \A i \in DOMAIN row.versions : row.versions[i] \in VersionRow /\ i \in Nat
         /\ DOMAIN row.versions = 1..Len(row.versions) /\ Len(row.versions) \in Nat
         /\ \A i \in DOMAIN row.corrections :
              /\ OfVersion(i) \in DOMAIN row.versions
              /\ row.corrections[i].approval = "APPROVED" =>
                   /\ row.corrections[i].new = OfVersion(i) + 1 /\ OfVersion(i) + 1 \in DOMAIN row.versions
                   /\ row.versions[OfVersion(i)].status = "SUPERSEDED"
         /\ IsFiniteSet(ApprovedCorrections) /\ Cardinality(ApprovedCorrections) \in Nat
<1>1. row \in [versions : Seq(VersionRow), corrections : Seq(CorrectionRow)]
  BY DEF ApplicationInv, Matter
<1>2. row.versions \in Seq(VersionRow) /\ row.corrections \in Seq(CorrectionRow)
  BY <1>1
<1>3. row = [versions |-> row.versions, corrections |-> row.corrections]
  BY <1>1
<1>4. /\ \A i \in DOMAIN row.corrections : row.corrections[i] \in CorrectionRow /\ i \in Nat
      /\ \A i \in DOMAIN row.versions : row.versions[i] \in VersionRow /\ i \in Nat
  BY <1>2, Element
<1>5. DOMAIN row.versions = 1..Len(row.versions) /\ Len(row.versions) \in Nat
  BY <1>2, LenProperties
<1>6. DOMAIN row.corrections = 1..Len(row.corrections) /\ Len(row.corrections) \in Nat
  BY <1>2, LenProperties
<1>7. IsFiniteSet(1..Len(row.corrections)) /\ ApprovedCorrections \subseteq 1..Len(row.corrections)
  BY <1>6, FS_Interval DEF ApprovedCorrections
<1>8. IsFiniteSet(ApprovedCorrections) /\ Cardinality(ApprovedCorrections) \in Nat
  BY <1>7, FS_Subset, FS_CardinalityType
<1>9. QED BY <1>2, <1>3, <1>4, <1>5, <1>8 DEF ApplicationInv, Matter, ApprovedCorrections

LEMMA RequestCorrection ==
  ASSUME ApplicationInv, kind = "filing", NEW r \in Requests, NEW v, requestFilingCorrection(r, v)
  PROVE  ApplicationInv' /\ StandsStep /\ GroundedStep
<1> DEFINE V == row.versions
           C == row.corrections
<1>1. v \in DOMAIN V
  BY DEF requestFilingCorrection
<1>2. PICK c : c = [of |-> v, approval |-> "PENDING", new |-> 0]
  OBVIOUS
<1>3. c \in CorrectionRow
  BY <1>1, <1>2, FilingRow DEF CorrectionRow
<1>4. PICK new : new = [row EXCEPT !.corrections = Append(@, c)]
  OBVIOUS
<1>5. new = [versions |-> V, corrections |-> Append(C, c)]
  BY <1>4, FilingRow
<1>6. Moves(r, Idle) /\ row' = new /\ UNCHANGED kind /\ task[r] = Idle
  BY <1>2, <1>4, Settled DEF requestFilingCorrection
<1>7. /\ Append(C, c) \in Seq(CorrectionRow) /\ DOMAIN Append(C, c) = DOMAIN C \cup {Len(C) + 1}
      /\ \A j \in DOMAIN C : Append(C, c)[j] = C[j] /\ j # Len(C) + 1
      /\ Append(C, c)[Len(C) + 1] = c
  BY <1>3, Appended, FilingRow
<1>8. ApprovedCorrections' = ApprovedCorrections
  BY <1>2, <1>5, <1>6, <1>7 DEF ApprovedCorrections
<1>9. Shaped(Idle) /\ Carried(Idle)'
  BY <1>6 DEF Shaped, Carried, Idle
<1>10. Grounded(Idle) => Grounded(Idle)'
  BY <1>5, <1>6, <1>8 DEF Grounded, Idle
<1>11. \A i \in DOMAIN Append(C, c) :
         /\ Append(C, c)[i].of \in DOMAIN V
         /\ Append(C, c)[i].approval = "APPROVED" =>
              /\ Append(C, c)[i].new = Append(C, c)[i].of + 1 /\ Append(C, c)[i].of + 1 \in DOMAIN V
              /\ V[Append(C, c)[i].of].status = "SUPERSEDED"
  BY <1>1, <1>2, <1>7, FilingRow DEF OfVersion
<1>12. PICK nc \in Seq(CorrectionRow) : nc = Append(C, c)
  BY <1>7
<1>13. V \in Seq(VersionRow)
  BY FilingRow
<1>14. QED BY <1>5, <1>6, <1>7, <1>9, <1>10, <1>11, <1>12, <1>13, FilingMove

LEMMA DecideCorrection ==
  ASSUME ApplicationInv, kind = "filing", NEW r \in Requests, NEW c, NEW approve \in BOOLEAN,
         decideCorrection(r, c, approve)
  PROVE  ApplicationInv' /\ StandsStep /\ GroundedStep
<1>1. PICK step \in {"version", "reject"} : Read(r, step, c)
  BY DEF decideCorrection
<1>2. PICK w : /\ w = [step |-> step, seen |-> row, args |-> c]
               /\ Moves(r, w) /\ task[r] = Idle /\ UNCHANGED <<kind, row>>
  BY <1>1, Begun
<1>3. c \in DOMAIN row.corrections /\ row.corrections[c].approval = "PENDING"
  BY DEF decideCorrection
<1>4. Shaped(w) /\ Carried(w)' /\ Matter'
  BY <1>2, <1>3 DEF Shaped, StepsOf, Carried, Matter, OfVersion, ApprovedCorrections, ApplicationInv
<1>5. Grounded(Idle) => Grounded(w)'
  BY <1>2, <1>3 DEF Grounded, ApprovedCorrections, Idle
<1>6. \A v : Carried(v) => Carried(v)'
  BY <1>2 DEF Carried, OfVersion
<1>7. ApplicationInv'
  BY <1>2, <1>4, <1>5, <1>6, ApplicationMove
<1>8. QED BY <1>2, <1>7 DEF StandsStep, GroundedStep

\* The correction a request is at work on, and what it has done for it.
LEMMA Correcting ==
  ASSUME ApplicationInv, kind = "filing", NEW r \in Requests, task[r].step # "idle"
  PROVE  /\ task[r].args \in DOMAIN row.corrections
         /\ task[r].step \in {"supersede", "approve", "receipt"} => OfVersion(task[r].args) + 1 \in DOMAIN row.versions
         /\ task[r].step = "approve" => row.versions[OfVersion(task[r].args)].status = "SUPERSEDED"
BY DEF ApplicationInv, Carried, Idle

LEMMA RejectCorrection ==
  ASSUME ApplicationInv, kind = "filing", NEW r \in Requests, rejectCorrection(r)
  PROVE  ApplicationInv' /\ StandsStep /\ GroundedStep
<1> DEFINE V == row.versions
           C == row.corrections
<1>0. PICK c : c = task[r].args
  OBVIOUS
<1>1. c \in DOMAIN C /\ task[r].step = "reject"
  BY <1>0, Correcting DEF rejectCorrection, At
<1>2. PICK e : e = [C[c] EXCEPT !.approval = "REJECTED"]
  OBVIOUS
<1>3. e \in CorrectionRow /\ e.of = C[c].of /\ e.approval = "REJECTED"
  BY <1>1, <1>2, FilingRow DEF CorrectionRow
<1>14. PICK nc : nc = [C EXCEPT ![c] = e]
  OBVIOUS
<1>4. /\ nc \in Seq(CorrectionRow) /\ DOMAIN nc = DOMAIN C
      /\ \A i \in DOMAIN C : nc[i] = IF i = c THEN e ELSE C[i]
  <2>1. C \in Seq(CorrectionRow)
    BY FilingRow
  <2>2. QED BY <1>1, <1>3, <1>14, <2>1, Updated
<1>5. PICK new : new = [row EXCEPT !.corrections = nc]
  OBVIOUS
<1>6. new = [versions |-> V, corrections |-> nc]
  BY <1>5, FilingRow
<1>7. Put(r, new, "done")
  BY <1>0, <1>2, <1>14, <1>5 DEF rejectCorrection
<1>8. Moves(r, Idle) /\ row' = new /\ UNCHANGED kind
  BY <1>1, <1>7, PutOn
<1>9. Shaped(Idle) /\ Carried(Idle)' /\ V \in Seq(VersionRow)
  BY <1>8, FilingRow DEF Shaped, Carried, Idle
<1>10. Grounded(task[r]) => Grounded(Idle)'
  <2>1. C[c].approval = "PENDING" => ApprovedCorrections' = ApprovedCorrections
    BY <1>3, <1>4, <1>6, <1>8 DEF ApprovedCorrections
  <2>2. QED BY <1>0, <1>1, <1>6, <1>8, <2>1 DEF Grounded, Idle
<1>11. \A i \in DOMAIN nc :
         /\ nc[i].of \in DOMAIN V
         /\ nc[i].approval = "APPROVED" =>
              nc[i].new = nc[i].of + 1 /\ nc[i].of + 1 \in DOMAIN V /\ V[nc[i].of].status = "SUPERSEDED"
  BY <1>3, <1>4, FilingRow DEF OfVersion
<1>12. \A i \in DOMAIN C : nc[i].of = C[i].of
  BY <1>3, <1>4
<1>13. QED BY <1>4, <1>6, <1>8, <1>9, <1>10, <1>11, <1>12, FilingMove

LEMMA CreateVersion ==
  ASSUME ApplicationInv, kind = "filing", NEW r \in Requests, createVersion(r)
  PROVE  ApplicationInv' /\ StandsStep /\ GroundedStep
<1> DEFINE V == row.versions
           C == row.corrections
<1>0. PICK c : c = task[r].args
  OBVIOUS
<1>1. c \in DOMAIN C /\ task[r].step = "version" /\ OfVersion(c) \in DOMAIN V
  BY <1>0, Correcting, FilingRow DEF createVersion, At
<1>2. CASE OfVersion(c) < Len(V)
  <2>1. Put(r, row, "done")
    BY <1>0, <1>2 DEF createVersion, OfVersion
  <2>2. Moves(r, Idle) /\ UNCHANGED <<kind, row>>
    BY <1>1, <2>1, PutOn
  <2>3. Shaped(Idle) /\ Carried(Idle)' /\ Matter'
    BY <2>2 DEF Shaped, Carried, Idle, Matter, OfVersion, ApprovedCorrections, ApplicationInv
  <2>4. Grounded(task[r]) => Grounded(Idle)'
    BY <1>0, <1>1, <2>2 DEF Grounded, ApprovedCorrections, Idle
  <2>5. \A v : Carried(v) => Carried(v)'
    BY <2>2 DEF Carried, OfVersion
  <2>6. ApplicationInv'
    BY <2>2, <2>3, <2>4, <2>5, ApplicationMove
  <2>7. QED BY <2>2, <2>6 DEF StandsStep, GroundedStep
<1>3. CASE ~(OfVersion(c) < Len(V))
  <2>1. OfVersion(c) = Len(V) /\ Len(V) \in Nat
    BY <1>1, <1>3, FilingRow
  <2>2. PICK e \in VersionRow : e = [status |-> "SUBMITTED", receipt |-> FALSE]
    BY DEF VersionRow
  <2>0. PICK nv : nv = Append(V, e)
    OBVIOUS
  <2>3. /\ nv \in Seq(VersionRow) /\ DOMAIN nv = DOMAIN V \cup {Len(V) + 1}
        /\ \A j \in DOMAIN V : nv[j] = V[j] /\ j # Len(V) + 1
        /\ nv[Len(V) + 1] = e /\ Len(nv) = Len(V) + 1
    <3>1. V \in Seq(VersionRow)
      BY FilingRow
    <3>2. QED BY <2>0, <3>1, Appended, AppendProperties
  <2>4. PICK new : new = [row EXCEPT !.versions = nv]
    OBVIOUS
  <2>5. new = [versions |-> nv, corrections |-> C]
    BY <2>4, FilingRow
  <2>6. Put(r, new, "supersede")
    BY <1>0, <1>3, <2>2, <2>0, <2>4 DEF createVersion, OfVersion
  <2>7. PICK w : /\ w = [step |-> "supersede", seen |-> task[r].seen, args |-> c]
                 /\ Moves(r, w) /\ row' = new /\ UNCHANGED kind
    BY <1>0, <1>1, <2>6, PutOn
  <2>8. OfVersion(c)' = OfVersion(c) /\ ApprovedCorrections' = ApprovedCorrections
    BY <2>5, <2>7 DEF OfVersion, ApprovedCorrections
  <2>9. Shaped(w) /\ Carried(w)'
    BY <1>1, <2>1, <2>3, <2>5, <2>7, <2>8 DEF Shaped, StepsOf, Carried
  <2>10. Grounded(task[r]) => Grounded(w)'
    <3>1. ASSUME Grounded(task[r]), NEW v \in DOMAIN nv PROVE nv[v].status = "SUPERSEDED" <=> v < Len(nv) - 1
      BY <1>0, <1>1, <2>1, <2>2, <2>3, <3>1, FilingRow DEF Grounded
    <3>2. ASSUME Grounded(task[r])
          PROVE  Len(nv) = 1 + Cardinality(ApprovedCorrections) + 1 /\ C[c].approval = "PENDING"
      BY <1>0, <1>1, <2>1, <2>3, <3>2, FilingRow DEF Grounded
    <3>3. row'.versions = nv /\ row'.corrections = C /\ w.step = "supersede" /\ w.args = c /\ kind' = "filing"
      BY <2>5, <2>7
    <3>4. QED BY <2>1, <2>3, <2>8, <3>1, <3>2, <3>3 DEF Grounded
  <2>11. \A i \in DOMAIN C :
           /\ C[i].of \in DOMAIN nv
           /\ C[i].approval = "APPROVED" =>
                C[i].new = C[i].of + 1 /\ C[i].of + 1 \in DOMAIN nv /\ nv[C[i].of].status = "SUPERSEDED"
    BY <2>3, FilingRow DEF OfVersion
  <2>12. C \in Seq(CorrectionRow)
    BY FilingRow
  <2>13. \A i \in DOMAIN V : V[i].status = "SUPERSEDED" => nv[i].status = "SUPERSEDED"
    BY <2>3
  <2>14. DOMAIN V \subseteq DOMAIN nv /\ nv \in Seq(VersionRow)
    BY <2>3
  <2>15. QED BY <2>5, <2>7, <2>9, <2>10, <2>11, <2>12, <2>13, <2>14, FilingMove
<1>4. QED BY <1>2, <1>3

\* A version changes its status to SUPERSEDED, or gets its receipt.
LEMMA VersionMove ==
  ASSUME ApplicationInv, kind = "filing", NEW r \in Requests, NEW w, Moves(r, w), UNCHANGED kind,
         NEW k \in DOMAIN row.versions, NEW e \in VersionRow,
         row' = [versions |-> [row.versions EXCEPT ![k] = e], corrections |-> row.corrections],
         row.versions[k].status = "SUPERSEDED" => e.status = "SUPERSEDED",
         Shaped(w), w = Idle \/ w = [step |-> "approve", seen |-> task[r].seen, args |-> task[r].args],
         w # Idle => task[r].step = "supersede" /\ k = OfVersion(task[r].args) /\ e.status = "SUPERSEDED",
         w = Idle => task[r].step = "receipt" /\ e.status = row.versions[k].status
  PROVE  ApplicationInv' /\ StandsStep /\ GroundedStep
<1> DEFINE V == row.versions
           C == row.corrections
<1>1. V \in Seq(VersionRow) /\ C \in Seq(CorrectionRow)
  BY FilingRow
<1>2. PICK nv : nv = [V EXCEPT ![k] = e]
  OBVIOUS
<1>3. /\ nv \in Seq(VersionRow) /\ DOMAIN nv = DOMAIN V
      /\ \A j \in DOMAIN V : nv[j] = IF j = k THEN e ELSE V[j]
  BY <1>1, <1>2, Updated
<1>4. row' = [versions |-> nv, corrections |-> C] /\ Len(nv) = Len(V)
  BY <1>1, <1>2, <1>3, LenProperties
<1>5. ApprovedCorrections' = ApprovedCorrections /\ \A c : OfVersion(c)' = OfVersion(c)
  BY <1>4 DEF ApprovedCorrections, OfVersion
<1>6. \A j \in DOMAIN V : V[j].status = "SUPERSEDED" => nv[j].status = "SUPERSEDED"
  BY <1>3
<1>7. \A i \in DOMAIN C :
        /\ C[i].of \in DOMAIN nv
        /\ C[i].approval = "APPROVED" =>
             C[i].new = C[i].of + 1 /\ C[i].of + 1 \in DOMAIN nv /\ nv[C[i].of].status = "SUPERSEDED"
  BY <1>3, <1>6, FilingRow DEF OfVersion
<1>8. CASE w = Idle
  <2>1. Carried(w)'
    BY <1>8 DEF Carried
  <2>2. Grounded(task[r]) => Grounded(w)'
    <3>1. \A j \in DOMAIN V : nv[j].status = V[j].status
      BY <1>3, <1>8
    <3>2. w.step = "idle" /\ task[r].step = "receipt" /\ kind' = "filing"
      BY <1>8 DEF Idle
    <3>3. QED BY <1>3, <1>4, <1>5, <3>1, <3>2 DEF Grounded
  <2>3. QED BY <1>1, <1>3, <1>4, <1>6, <1>7, <2>1, <2>2, FilingMove
<1>9. CASE w # Idle
  <2>1. PICK c : c = task[r].args
    OBVIOUS
  <2>2. /\ w = [step |-> "approve", seen |-> task[r].seen, args |-> c]
        /\ task[r].step = "supersede" /\ k = OfVersion(c) /\ e.status = "SUPERSEDED" /\ kind' = "filing"
    BY <1>9, <2>1
  <2>3. c \in DOMAIN C /\ OfVersion(c) + 1 \in DOMAIN V
    BY <2>1, <2>2, Correcting
  <2>4. Carried(w)'
    BY <1>3, <1>4, <1>5, <2>2, <2>3 DEF Carried
  <2>5. ASSUME Grounded(task[r]) PROVE Grounded(w)'
    <3>1. /\ Len(V) = 1 + Cardinality(ApprovedCorrections) + 1
          /\ C[c].approval = "PENDING" /\ Len(V) = OfVersion(c) + 1
          /\ \A v \in DOMAIN V : V[v].status = "SUPERSEDED" <=> v < Len(V) - 1
      BY <2>1, <2>2, <2>5 DEF Grounded
    <3>2. ASSUME NEW v \in DOMAIN nv PROVE nv[v].status = "SUPERSEDED" <=> v < Len(nv)
      <4>1. k = Len(V) - 1 /\ Len(V) \in Nat /\ v \in 1..Len(V) /\ v \in DOMAIN V
        BY <1>3, <2>2, <3>1, FilingRow
      <4>2. CASE v = k
        BY <1>3, <1>4, <2>2, <4>1, <4>2
      <4>3. CASE v # k
        BY <1>3, <1>4, <3>1, <4>1, <4>3
      <4>4. QED BY <4>2, <4>3
    <3>3. QED BY <1>4, <1>5, <2>2, <3>1, <3>2, FilingRow DEF Grounded
  <2>6. QED BY <1>1, <1>3, <1>4, <1>6, <1>7, <2>4, <2>5, FilingMove
<1>10. QED BY <1>8, <1>9

LEMMA SupersedeVersion ==
  ASSUME ApplicationInv, kind = "filing", NEW r \in Requests, supersede(r) \/ issueReceipt(r)
  PROVE  ApplicationInv' /\ StandsStep /\ GroundedStep
<1>1. /\ task[r].step \in {"supersede", "receipt"} /\ task[r].args \in DOMAIN row.corrections
      /\ OfVersion(task[r].args) + 1 \in DOMAIN row.versions
  BY Correcting DEF supersede, issueReceipt, At
<1>2. CASE supersede(r)
  <2>1. PICK k : k = OfVersion(task[r].args)
    OBVIOUS
  <2>2. k \in DOMAIN row.versions /\ row.versions[k] \in VersionRow
    BY <1>1, <2>1, FilingRow
  <2>3. PICK e : e = [row.versions[k] EXCEPT !.status = "SUPERSEDED"]
    OBVIOUS
  <2>4. e \in VersionRow /\ e.status = "SUPERSEDED"
    BY <2>2, <2>3 DEF VersionRow
  <2>5. PICK new : new = [row EXCEPT !.versions[k].status = "SUPERSEDED"]
    OBVIOUS
  <2>6. new = [versions |-> [row.versions EXCEPT ![k] = e], corrections |-> row.corrections]
    BY <2>3, <2>5, FilingRow
  <2>7. Put(r, new, "approve") /\ task[r].step = "supersede"
    BY <1>2, <2>1, <2>5 DEF supersede, OfVersion, At
  <2>8. PICK w : /\ w = [step |-> "approve", seen |-> task[r].seen, args |-> task[r].args]
                 /\ Moves(r, w) /\ row' = new /\ UNCHANGED kind
    BY <2>7, PutOn
  <2>9. Shaped(w) /\ w # Idle
    BY <2>8 DEF Shaped, StepsOf, Idle
  <2>10. QED BY <2>1, <2>2, <2>4, <2>6, <2>7, <2>8, <2>9, VersionMove
<1>3. CASE issueReceipt(r)
  <2>1. PICK k : k = OfVersion(task[r].args) + 1
    OBVIOUS
  <2>2. k \in DOMAIN row.versions /\ row.versions[k] \in VersionRow
    BY <1>1, <2>1, FilingRow
  <2>3. PICK e : e = [row.versions[k] EXCEPT !.receipt = TRUE]
    OBVIOUS
  <2>4. e \in VersionRow /\ e.status = row.versions[k].status
    BY <2>2, <2>3 DEF VersionRow
  <2>5. PICK new : new = [row EXCEPT !.versions[k].receipt = TRUE]
    OBVIOUS
  <2>6. new = [versions |-> [row.versions EXCEPT ![k] = e], corrections |-> row.corrections]
    BY <2>3, <2>5, FilingRow
  <2>7. Put(r, new, "done") /\ task[r].step = "receipt"
    BY <1>3, <2>1, <2>5 DEF issueReceipt, OfVersion, At
  <2>8. Moves(r, Idle) /\ row' = new /\ UNCHANGED kind
    BY <2>7, PutOn
  <2>9. PICK w : w = Idle /\ Shaped(w)
    BY DEF Shaped
  <2>10. QED BY <2>2, <2>4, <2>6, <2>7, <2>8, <2>9, VersionMove
<1>4. QED BY <1>2, <1>3

LEMMA ApproveCorrection ==
  ASSUME ApplicationInv, kind = "filing", NEW r \in Requests, approveCorrection(r)
  PROVE  ApplicationInv' /\ StandsStep /\ GroundedStep
<1> DEFINE V == row.versions
           C == row.corrections
<1>1. PICK c : c = task[r].args
  OBVIOUS
<1>2. /\ c \in DOMAIN C /\ task[r].step = "approve" /\ OfVersion(c) \in DOMAIN V /\ OfVersion(c) + 1 \in DOMAIN V
      /\ V[OfVersion(c)].status = "SUPERSEDED"
  BY <1>1, Correcting, FilingRow DEF approveCorrection, At
<1>3. PICK e : e = [C[c] EXCEPT !.approval = "APPROVED", !.new = C[c].of + 1]
  OBVIOUS
<1>4. e \in CorrectionRow /\ e.of = C[c].of /\ e.approval = "APPROVED" /\ e.new = e.of + 1
  <2>1. C[c] \in CorrectionRow /\ C[c].of + 1 \in Nat
    BY <1>2, FilingRow DEF OfVersion
  <2>2. QED BY <1>3, <2>1 DEF CorrectionRow
<1>5. PICK nc : nc = [C EXCEPT ![c] = e]
  OBVIOUS
<1>6. /\ nc \in Seq(CorrectionRow) /\ DOMAIN nc = DOMAIN C
      /\ \A i \in DOMAIN C : nc[i] = IF i = c THEN e ELSE C[i]
  <2>1. C \in Seq(CorrectionRow)
    BY FilingRow
  <2>2. QED BY <1>2, <1>4, <1>5, <2>1, Updated
<1>7. PICK new : new = [row EXCEPT !.corrections = nc]
  OBVIOUS
<1>8. new = [versions |-> V, corrections |-> nc]
  BY <1>7, FilingRow
<1>9. Put(r, new, "receipt")
  BY <1>1, <1>3, <1>5, <1>7 DEF approveCorrection
<1>10. PICK w : /\ w = [step |-> "receipt", seen |-> task[r].seen, args |-> c]
                /\ Moves(r, w) /\ row' = new /\ UNCHANGED kind
  BY <1>1, <1>2, <1>9, PutOn
<1>11. Shaped(w) /\ V \in Seq(VersionRow)
  BY <1>10, FilingRow DEF Shaped, StepsOf
<1>12. Carried(w)'
  BY <1>2, <1>4, <1>6, <1>8, <1>10 DEF Carried, OfVersion
<1>13. ASSUME Grounded(task[r]) PROVE Grounded(w)'
  <2>1. /\ Len(V) = 1 + Cardinality(ApprovedCorrections) + 1 /\ C[c].approval = "PENDING"
        /\ \A v \in DOMAIN V : V[v].status = "SUPERSEDED" <=> v < Len(V)
    <3>1. Len(V) \in Nat
      BY FilingRow
    <3>2. QED BY <1>1, <1>2, <1>13, <3>1 DEF Grounded
  <2>2. ApprovedCorrections' = ApprovedCorrections \cup {c} /\ c \notin ApprovedCorrections
    BY <1>2, <1>4, <1>6, <1>8, <1>10, <2>1 DEF ApprovedCorrections
  <2>3. Cardinality(ApprovedCorrections') = Cardinality(ApprovedCorrections) + 1
    BY <2>2, FilingRow, FS_AddElement
  <2>4. row'.versions = V /\ w.step = "receipt" /\ kind' = "filing"
    BY <1>8, <1>10
  <2>5. Len(V) = 1 + Cardinality(ApprovedCorrections')
    BY <2>1, <2>3, FilingRow
  <2>6. \A v \in DOMAIN V : V[v].status = "SUPERSEDED" <=> v < Len(V) - 0
    BY <2>1, FilingRow
  <2>7. QED BY <2>4, <2>5, <2>6, FilingRow DEF Grounded
<1>14. \A i \in DOMAIN nc :
         /\ nc[i].of \in DOMAIN V
         /\ nc[i].approval = "APPROVED" =>
              nc[i].new = nc[i].of + 1 /\ nc[i].of + 1 \in DOMAIN V /\ V[nc[i].of].status = "SUPERSEDED"
  BY <1>2, <1>4, <1>6, FilingRow DEF OfVersion
<1>15. \A i \in DOMAIN C : nc[i].of = C[i].of
  BY <1>4, <1>6
<1>16. QED BY <1>6, <1>8, <1>10, <1>11, <1>12, <1>13, <1>14, <1>15, FilingMove

\* Statements, reports and rulings: no property of these steps rests on another's.
LEMMA Evidence ==
  ASSUME ApplicationInv, kind \notin Others, NEW r \in Requests, EvidenceStep(r)
  PROVE  ApplicationInv' /\ StandsStep /\ GroundedStep
<1>1. ASSUME NEW w, Moves(r, w), Shaped(w), UNCHANGED kind PROVE ApplicationInv' /\ StandsStep /\ GroundedStep
  <2>1. Matter' /\ Carried(w)' /\ (\A v : Carried(v)') /\ Grounded(w)'
    BY <1>1 DEF Matter, Carried, Grounded, Others
  <2>2. ApplicationInv'
    BY <1>1, <2>1, ApplicationMove
  <2>3. QED BY <2>2 DEF StandsStep, GroundedStep, Others
<1>2. StepsOf(kind) = {"submit", "reported by expert", "oath"}
  BY DEF StepsOf, Others
<1>3. ASSUME NEW step \in StepsOf(kind), NEW args, Read(r, step, args) PROVE ApplicationInv' /\ StandsStep /\ GroundedStep
  <2>1. PICK w : w = [step |-> step, seen |-> row, args |-> args] /\ Moves(r, w) /\ UNCHANGED <<kind, row>>
    BY <1>3, Begun
  <2>2. QED BY <1>1, <2>1 DEF Shaped
<1>4. ASSUME NEW new, NEW step, step \in StepsOf(kind) \cup {"done"}, task[r].step # "idle", Put(r, new, step)
      PROVE  ApplicationInv' /\ StandsStep /\ GroundedStep
  <2>1. CASE step = "done"
    <3>1. Moves(r, Idle) /\ UNCHANGED kind
      BY <1>4, <2>1, PutOn
    <3>2. QED BY <1>1, <3>1 DEF Shaped
  <2>2. CASE step # "done"
    <3>1. PICK w : w = [step |-> step, seen |-> task[r].seen, args |-> task[r].args] /\ Moves(r, w) /\ UNCHANGED kind
      BY <1>4, <2>2, PutOn
    <3>2. QED BY <1>1, <1>4, <2>2, <3>1 DEF Shaped
  <2>3. QED BY <2>1, <2>2
<1>5. CASE EvidenceController(r)
  <2>1. CASE submitStatement(r)
    BY <1>2, <1>3, <2>1 DEF submitStatement
  <2>2. CASE \E oath \in {"NONE", "OATH"} : recordOath(r, oath)
    BY <1>2, <1>3, <2>2 DEF recordOath
  <2>3. CASE \E ruling \in {"UPHELD", "DISMISSED", "DEFERRED"} : ruleObjection(r, ruling)
    <3>1. Moves(r, Idle) /\ UNCHANGED kind
      BY <2>3, Settled DEF ruleObjection
    <3>2. QED BY <1>1, <3>1 DEF Shaped
  <2>4. QED BY <1>5, <2>1, <2>2, <2>3 DEF EvidenceController
<1>6. CASE addVersion(r) \/ setExpertReported(r) \/ setOath(r)
  <2>1. PICK new, step : step \in {"done", "reported by expert"} /\ Put(r, new, step) /\ task[r].step # "idle"
    BY <1>6 DEF addVersion, setExpertReported, setOath, At
  <2>2. QED BY <1>2, <1>4, <2>1
<1>7. QED BY <1>5, <1>6 DEF EvidenceStep

LEMMA ApplicationStep ==
  ASSUME ApplicationInv, ApplicationsNext
  PROVE  ApplicationInv' /\ StandsStep /\ GroundedStep
<1>1. PICK r \in Requests :
        \/ kind = "production" /\ ProductionStep(r)
        \/ kind = "interim" /\ InterimStep(r)
        \/ kind = "joinder" /\ JoinderStep(r)
        \/ kind = "default" /\ DefaultStep(r)
        \/ kind = "expedited" /\ ExpeditedStep(r)
        \/ kind = "filing" /\ FilingStep(r)
        \/ kind \notin Others /\ EvidenceStep(r)
  BY KindSteps
<1>2. CASE kind = "filing" /\ FilingStep(r)
  BY <1>2, RequestCorrection, DecideCorrection, RejectCorrection, CreateVersion, SupersedeVersion, ApproveCorrection
     DEF FilingStep
<1>3. QED BY <1>1, <1>2, Production, InterimOrJoinder, DefaultProceedings, Expedited, Evidence

\* Between requests a filing is as Grounded says; a correction is, whatever runs.
LEMMA CorrectionsReplace == ApplicationInv => CorrectionReplaces
<1> SUFFICES ASSUME ApplicationInv, kind = "filing" PROVE CorrectionReplaces
  BY DEF CorrectionReplaces
<1>1. ASSUME NEW i \in DOMAIN row.corrections, row.corrections[i].approval = "APPROVED"
      PROVE  /\ row.corrections[i].new > row.corrections[i].of /\ row.corrections[i].new \in DOMAIN row.versions
             /\ row.versions[row.corrections[i].of].status = "SUPERSEDED"
  BY <1>1, FilingRow DEF OfVersion
<1>2. ASSUME Serial, Quiet
      PROVE  /\ \A v \in DOMAIN row.versions : row.versions[v].status = "SUPERSEDED" <=> v < Len(row.versions)
             /\ Len(row.versions) = 1 + Cardinality(ApprovedCorrections)
  <2>1. Grounded(Idle)
    BY <1>2 DEF ApplicationInv
  <2>2. /\ \A v \in DOMAIN row.versions : row.versions[v].status = "SUPERSEDED" <=> v < Len(row.versions) - 0
        /\ Len(row.versions) = 1 + Cardinality(ApprovedCorrections) + 0
    BY <2>1 DEF Grounded, Idle
  <2>3. QED BY <2>2, FilingRow
<1>3. QED BY <1>1, <1>2 DEF CorrectionReplaces, ApprovedCorrections
-----------------------------------------------------------------------------
(* Invoices *)

InvoiceStatus == {"ISSUED", "PARTIALLY_PAID", "PAID"}
InvoiceRow ==
  [case : Cases, number : Nat, status : InvoiceStatus, total : Totals, payments : Nat, paid : Nat, allocated : Nat]
InvoiceTask ==
  {Idle}
  \cup [step : {"invoice"}, case : Cases, total : Totals, number : Nat]
  \cup [step : {"allocate", "sum"}, invoice : Nat]
  \cup [step : {"status"}, invoice : Nat, paid : Nat, was : InvoiceStatus]

OfInvoice(w) == w.step \in {"allocate", "sum", "status"} => w.invoice \in DOMAIN invoices

(* A status claims no more than was paid, and all that was paid unless the  *)
(* request at work is about to write it; an invoice being allocated has     *)
(* lost its shares.                                                         *)
Told(e) ==
  /\ e.status = "PAID" => e.payments > 0 /\ e.paid >= e.total
  /\ e.status = "PARTIALLY_PAID" => e.paid > 0
Reconciled(e) ==
  /\ (e.status = "PAID") <=> (e.payments > 0 /\ e.paid >= e.total)
  /\ (e.status = "PARTIALLY_PAID") <=> (e.paid > 0 /\ e.paid < e.total)
Billed(w, i, e) ==
  /\ e.allocated <= 1 /\ (w.step = "allocate" /\ w.invoice = i => e.allocated = 0)
  /\ Told(e)
  /\ IF w.step \in {"sum", "status"} /\ w.invoice = i THEN e.payments > 0 ELSE Reconciled(e)
  /\ w.step = "status" /\ w.invoice = i => w.paid = e.paid /\ w.was = e.status
InvoiceSteady(w) == \A i \in DOMAIN invoices : Billed(w, i, invoices[i])

InvoiceInv ==
  /\ task \in [Requests -> InvoiceTask]
  /\ invoices \in Seq(InvoiceRow)
  /\ \A r \in Requests : OfInvoice(task[r])
  /\ Serial /\ Quiet => InvoiceSteady(Idle)
  /\ Serial => Alone /\ \A r \in Requests : Only(r) => InvoiceSteady(task[r])

\* A step that changes one invoice.
LEMMA RowWritten ==
  ASSUME invoices \in Seq(InvoiceRow), NEW i \in DOMAIN invoices, NEW new \in InvoiceRow,
         invoices' = [invoices EXCEPT ![i] = new]
  PROVE  /\ invoices' \in Seq(InvoiceRow) /\ DOMAIN invoices' = DOMAIN invoices
         /\ invoices'[i] = new /\ \A j \in DOMAIN invoices \ {i} : invoices'[j] = invoices[j]
OBVIOUS

LEMMA BilledWork ==
  ASSUME NEW w, NEW v, NEW i, NEW e, Billed(w, i, e),
         v.step \notin {"allocate", "sum", "status"} \/ v.invoice # i,
         w.step \notin {"sum", "status"} \/ w.invoice # i
  PROVE  Billed(v, i, e)
BY DEF Billed

LEMMA InvoiceMove ==
  ASSUME InvoiceInv, NEW r \in Requests, NEW w \in InvoiceTask, Moves(r, w),
         invoices' \in Seq(InvoiceRow), DOMAIN invoices \subseteq DOMAIN invoices',
         OfInvoice(w)', Serial /\ InvoiceSteady(task[r]) => InvoiceSteady(w)'
  PROVE  InvoiceInv'
<1>1. task' = [task EXCEPT ![r] = w] /\ task \in [Requests -> InvoiceTask]
  BY DEF Moves, Begin, AtOnce, Continue, InvoiceInv
<1>2. ASSUME NEW s \in Requests PROVE OfInvoice(task[s])'
  <2>1. PICK u \in InvoiceTask : u = task'[s]
    BY <1>1
  <2>2. CASE s = r
    BY <1>1, <2>1, <2>2 DEF OfInvoice
  <2>3. CASE s # r
    <3>1. u = task[s] /\ OfInvoice(u)
      BY <1>1, <2>1, <2>3 DEF InvoiceInv
    <3>2. QED BY <2>1, <3>1 DEF OfInvoice
  <2>4. QED BY <2>2, <2>3
<1>3. ASSUME Serial'
      PROVE  Alone' /\ (\A s \in Requests : Only(s)' => InvoiceSteady(task[s])') /\ (Quiet' => InvoiceSteady(Idle)')
  <2>1. /\ Serial /\ Only(r) /\ Alone'
        /\ \A s \in Requests : Only(s)' => task'[s] = w
    BY <1>1, <1>3, OneAtATime DEF InvoiceInv
  <2>2. InvoiceSteady(w)'
    BY <2>1 DEF InvoiceInv
  <2>3. ASSUME NEW s \in Requests, Only(s)' PROVE InvoiceSteady(task[s])'
    BY <2>1, <2>2, <2>3 DEF InvoiceSteady
  <2>4. Quiet' => w = Idle
    BY <1>1 DEF Quiet
  <2>5. QED BY <2>1, <2>2, <2>3, <2>4
<1>4. QED BY <1>1, <1>2, <1>3 DEF InvoiceInv

LEMMA InvoiceShape ==
  ASSUME InvoiceInv, NEW r \in Requests
  PROVE  /\ task[r].step = "invoice" => task[r].case \in Cases /\ task[r].total \in Totals /\ task[r].number \in Nat
         /\ task[r].step \in {"allocate", "sum", "status"} => task[r].invoice \in DOMAIN invoices
         /\ task[r].step = "status" => task[r].paid \in Nat /\ task[r].was \in InvoiceStatus
         /\ task[r].step # "idle" => task[r] # Idle
<1>1. task[r] \in InvoiceTask /\ OfInvoice(task[r])
  BY DEF InvoiceInv
<1>2. QED BY <1>1 DEF InvoiceTask, Idle, OfInvoice

LEMMA InvoiceNumber == InvoiceInv => \A c : OfCase(c) \in Nat
<1> SUFFICES ASSUME InvoiceInv, NEW c PROVE OfCase(c) \in Nat
  OBVIOUS
<1>1. PICK n \in Nat : DOMAIN invoices = 1..n
  BY DEF InvoiceInv
<1>2. IsFiniteSet(1..n)
  BY FS_Interval
<1>3. IsFiniteSet({i \in DOMAIN invoices : invoices[i].case = c})
  BY <1>1, <1>2, FS_Subset
<1>4. QED BY <1>3, FS_CardinalityType DEF OfCase

LEMMA InvoiceStep ==
  ASSUME InvoiceInv, InvoicesNext
  PROVE  InvoiceInv'
<1>0. PICK r \in Requests :
        \/ createInvoice(r) \/ insertInvoice(r) \/ allocate(r) \/ createAllocations(r)
        \/ recordPayment(r) \/ readPaid(r) \/ setStatus(r)
  BY DEF InvoicesNext
<1> DEFINE Row(j) == invoices[j]
<1>a. /\ invoices \in Seq(InvoiceRow) /\ \A j \in DOMAIN invoices : invoices[j] \in InvoiceRow /\ j \in Nat
      /\ Idle \in InvoiceTask /\ Idle.step = "idle"
  BY Element DEF InvoiceInv, InvoiceTask, Idle
<1>1. CASE createInvoice(r)
  <2>1. PICK c \in Cases, total \in Totals :
          Begin(r, [step |-> "invoice", case |-> c, total |-> total, number |-> OfCase(c) + 1])
    BY <1>1 DEF createInvoice
  <2>2. PICK w : w = [step |-> "invoice", case |-> c, total |-> total, number |-> OfCase(c) + 1]
    OBVIOUS
  <2>3. w \in InvoiceTask /\ w.step = "invoice"
    BY <2>2, InvoiceNumber DEF InvoiceTask
  <2>4. Moves(r, w) /\ task[r] = Idle /\ invoices' = invoices
    BY <1>1, <2>1, <2>2 DEF Moves, Begin, createInvoice
  <2>5. InvoiceSteady(Idle) => InvoiceSteady(w)
    BY <1>a, <2>3, BilledWork DEF InvoiceSteady
  <2>6. InvoiceSteady(w) => InvoiceSteady(w)'
    BY <2>4 DEF InvoiceSteady
  <2>7. OfInvoice(w)'
    BY <2>3 DEF OfInvoice
  <2>8. QED BY <1>a, <2>3, <2>4, <2>5, <2>6, <2>7, InvoiceMove
<1>2. CASE insertInvoice(r)
  <2>1. task[r].step = "invoice" /\ Moves(r, Idle)
    BY <1>2, InvoiceShape DEF insertInvoice, At, Moves, Finish
  <2>2. PICK new : new = [case |-> task[r].case, number |-> task[r].number, status |-> "ISSUED",
                          total |-> task[r].total, payments |-> 0, paid |-> 0, allocated |-> 0]
    OBVIOUS
  <2>3. new \in InvoiceRow
    BY <2>1, <2>2, InvoiceShape DEF InvoiceRow, InvoiceStatus
  <2>4. Billed(Idle, Len(invoices) + 1, new)
    BY <1>a, <2>2 DEF Billed, Told, Reconciled
  <2>5. invoices' = invoices \/ invoices' = Append(invoices, new)
    BY <1>2, <2>2 DEF insertInvoice
  <2>6. /\ invoices' \in Seq(InvoiceRow) /\ DOMAIN invoices \subseteq DOMAIN invoices'
        /\ \A j \in DOMAIN invoices' :
             \/ j \in DOMAIN invoices /\ invoices'[j] = invoices[j]
             \/ j = Len(invoices) + 1 /\ invoices'[j] = new
    BY <1>a, <2>3, <2>5
  <2>7. InvoiceSteady(task[r]) => InvoiceSteady(Idle)'
    <3>1. SUFFICES ASSUME InvoiceSteady(task[r]), NEW j \in DOMAIN invoices' PROVE Billed(Idle, j, invoices'[j])
      BY DEF InvoiceSteady
    <3>2. CASE j \in DOMAIN invoices /\ invoices'[j] = invoices[j]
      <4>1. Billed(task[r], j, invoices[j])
        BY <3>1, <3>2 DEF InvoiceSteady
      <4>2. Billed(Idle, j, invoices[j])
        BY <1>a, <2>1, <4>1, BilledWork
      <4>3. QED BY <3>2, <4>2
    <3>3. CASE j = Len(invoices) + 1 /\ invoices'[j] = new
      BY <2>4, <3>3
    <3>4. QED BY <2>6, <3>2, <3>3
  <2>8. OfInvoice(Idle)'
    BY <1>a DEF OfInvoice
  <2>9. QED BY <1>a, <2>1, <2>6, <2>7, <2>8, InvoiceMove
<1>3. CASE allocate(r)
  <2>1. PICK i \in DOMAIN invoices :
          invoices' = [invoices EXCEPT ![i].allocated = 0] /\ Begin(r, [step |-> "allocate", invoice |-> i])
    BY <1>3 DEF allocate
  <2>2. PICK w : w = [step |-> "allocate", invoice |-> i]
    OBVIOUS
  <2>3. w \in InvoiceTask /\ w.step = "allocate" /\ w.invoice = i /\ Moves(r, w) /\ task[r] = Idle
    BY <1>a, <2>1, <2>2 DEF InvoiceTask, Moves, Begin
  <2>4. PICK old \in InvoiceRow : old = invoices[i]
    BY <1>a
  <2>5. PICK new : new = [old EXCEPT !.allocated = 0]
    OBVIOUS
  <2>6. /\ new \in InvoiceRow /\ new.allocated = 0 /\ new.status = old.status /\ new.total = old.total
        /\ new.payments = old.payments /\ new.paid = old.paid
    BY <2>4, <2>5 DEF InvoiceRow
  <2>7. invoices' = [invoices EXCEPT ![i] = new]
    BY <1>a, <2>1, <2>4, <2>5
  <2>8. /\ invoices' \in Seq(InvoiceRow) /\ DOMAIN invoices' = DOMAIN invoices
        /\ invoices'[i] = new /\ \A j \in DOMAIN invoices \ {i} : invoices'[j] = invoices[j]
    BY <1>a, <2>6, <2>7, RowWritten
  <2>9. InvoiceSteady(Idle) => InvoiceSteady(w)'
    <3>1. SUFFICES ASSUME InvoiceSteady(Idle), NEW j \in DOMAIN invoices PROVE Billed(w, j, invoices'[j])
      BY <2>8 DEF InvoiceSteady
    <3>2. Billed(Idle, j, invoices[j])
      BY <3>1 DEF InvoiceSteady
    <3>3. CASE j = i
      BY <1>a, <2>3, <2>4, <2>6, <2>8, <3>2, <3>3 DEF Billed, Told, Reconciled
    <3>4. CASE j # i
      BY <1>a, <2>3, <2>8, <3>2, <3>4, BilledWork
    <3>5. QED BY <3>3, <3>4
  <2>10. OfInvoice(w)'
    BY <2>1, <2>3, <2>8 DEF OfInvoice
  <2>11. QED BY <2>3, <2>8, <2>9, <2>10, InvoiceMove
<1>4. CASE createAllocations(r)
  <2>1. PICK i \in DOMAIN invoices : task[r].step = "allocate" /\ i = task[r].invoice
    BY <1>4, InvoiceShape DEF createAllocations, At
  <2>2. Moves(r, Idle) /\ invoices' = [invoices EXCEPT ![i].allocated = invoices[i].allocated + 1]
    BY <1>a, <1>4, <2>1, InvoiceShape DEF createAllocations, Moves, Finish
  <2>4. PICK old \in InvoiceRow : old = invoices[i]
    BY <1>a
  <2>5. PICK new : new = [old EXCEPT !.allocated = old.allocated + 1]
    OBVIOUS
  <2>6. /\ new \in InvoiceRow /\ new.allocated = old.allocated + 1 /\ new.status = old.status /\ new.total = old.total
        /\ new.payments = old.payments /\ new.paid = old.paid
    BY <2>4, <2>5 DEF InvoiceRow
  <2>7. invoices' = [invoices EXCEPT ![i] = new]
    BY <1>a, <2>2, <2>4, <2>5
  <2>8. /\ invoices' \in Seq(InvoiceRow) /\ DOMAIN invoices' = DOMAIN invoices
        /\ invoices'[i] = new /\ \A j \in DOMAIN invoices \ {i} : invoices'[j] = invoices[j]
    BY <1>a, <2>6, <2>7, RowWritten
  <2>9. InvoiceSteady(task[r]) => InvoiceSteady(Idle)'
    <3>1. SUFFICES ASSUME InvoiceSteady(task[r]), NEW j \in DOMAIN invoices PROVE Billed(Idle, j, invoices'[j])
      BY <2>8 DEF InvoiceSteady
    <3>2. Billed(task[r], j, invoices[j])
      BY <3>1 DEF InvoiceSteady
    <3>3. CASE j = i
      BY <1>a, <2>1, <2>4, <2>6, <2>8, <3>2, <3>3 DEF Billed, Told, Reconciled
    <3>4. CASE j # i
      BY <1>a, <2>1, <2>8, <3>2, <3>4, BilledWork
    <3>5. QED BY <3>3, <3>4
  <2>10. OfInvoice(Idle)'
    BY <1>a DEF OfInvoice
  <2>11. QED BY <1>a, <2>2, <2>8, <2>9, <2>10, InvoiceMove
<1>5. CASE recordPayment(r)
  <2>1. PICK i \in DOMAIN invoices, amount \in 0..2 :
          /\ invoices' = [invoices EXCEPT ![i].payments = invoices[i].payments + 1,
                                          ![i].paid = invoices[i].paid + amount]
          /\ Begin(r, [step |-> "sum", invoice |-> i])
    BY <1>5 DEF recordPayment
  <2>2. PICK w : w = [step |-> "sum", invoice |-> i]
    OBVIOUS
  <2>3. w \in InvoiceTask /\ w.step = "sum" /\ w.invoice = i /\ Moves(r, w) /\ task[r] = Idle
    BY <1>a, <2>1, <2>2 DEF InvoiceTask, Moves, Begin
  <2>4. PICK old \in InvoiceRow : old = invoices[i]
    BY <1>a
  <2>5. PICK new : new = [old EXCEPT !.payments = old.payments + 1, !.paid = old.paid + amount]
    OBVIOUS
  <2>a. /\ old.payments \in Nat /\ old.paid \in Nat /\ old.total \in Totals /\ amount \in Nat
        /\ old.payments + 1 \in Nat /\ old.paid + amount \in Nat
    BY <2>4 DEF InvoiceRow
  <2>b. old.total \in Nat
    BY <2>a, TotalsAssumption DEF TotalsAssumption
  <2>6. /\ new \in InvoiceRow /\ new.allocated = old.allocated /\ new.status = old.status /\ new.total = old.total
        /\ new.payments = old.payments + 1 /\ new.paid = old.paid + amount
    BY <2>4, <2>5, <2>a DEF InvoiceRow
  <2>7. invoices' = [invoices EXCEPT ![i] = new]
    BY <1>a, <2>1, <2>4, <2>5
  <2>8. /\ invoices' \in Seq(InvoiceRow) /\ DOMAIN invoices' = DOMAIN invoices
        /\ invoices'[i] = new /\ \A j \in DOMAIN invoices \ {i} : invoices'[j] = invoices[j]
    BY <1>a, <2>6, <2>7, RowWritten
  <2>9. InvoiceSteady(Idle) => InvoiceSteady(w)'
    <3>1. SUFFICES ASSUME InvoiceSteady(Idle), NEW j \in DOMAIN invoices PROVE Billed(w, j, invoices'[j])
      BY <2>8 DEF InvoiceSteady
    <3>2. Billed(Idle, j, invoices[j])
      BY <3>1 DEF InvoiceSteady
    <3>3. CASE j = i
      <4>1. old.payments \in Nat /\ old.paid \in Nat /\ old.total \in Nat /\ amount \in Nat
        BY <2>a, <2>b
      <4>2. old.allocated <= 1 /\ Told(old)
        BY <2>4, <3>2, <3>3 DEF Billed
      <4>3. Told(new) /\ new.payments > 0
        BY <2>6, <4>1, <4>2 DEF Told
      <4>4. QED BY <2>3, <2>6, <2>8, <3>3, <4>2, <4>3 DEF Billed
    <3>4. CASE j # i
      BY <1>a, <2>3, <2>8, <3>2, <3>4, BilledWork
    <3>5. QED BY <3>3, <3>4
  <2>10. OfInvoice(w)'
    BY <2>1, <2>3, <2>8 DEF OfInvoice
  <2>11. QED BY <2>3, <2>8, <2>9, <2>10, InvoiceMove
<1>6. CASE readPaid(r)
  <2>1. PICK i \in DOMAIN invoices : task[r].step = "sum" /\ i = task[r].invoice
    BY <1>6, InvoiceShape DEF readPaid, At
  <2>2. PICK w : w = [step |-> "status", invoice |-> i, paid |-> invoices[i].paid, was |-> invoices[i].status]
    OBVIOUS
  <2>3. invoices[i].paid \in Nat /\ invoices[i].status \in InvoiceStatus
    BY <1>a DEF InvoiceRow
  <2>4. w \in InvoiceTask /\ w.step = "status" /\ w.invoice = i /\ w.paid = invoices[i].paid /\ w.was = invoices[i].status
    BY <1>a, <2>2, <2>3 DEF InvoiceTask
  <2>5. Moves(r, w) /\ invoices' = invoices
    BY <1>6, <2>1, <2>2, InvoiceShape DEF readPaid, Moves
  <2>6. InvoiceSteady(task[r]) => InvoiceSteady(w)
    <3>1. SUFFICES ASSUME InvoiceSteady(task[r]), NEW j \in DOMAIN invoices PROVE Billed(w, j, invoices[j])
      BY DEF InvoiceSteady
    <3>2. Billed(task[r], j, invoices[j])
      BY <3>1 DEF InvoiceSteady
    <3>3. QED BY <2>1, <2>4, <3>2 DEF Billed
  <2>7. InvoiceSteady(w) => InvoiceSteady(w)'
    BY <2>5 DEF InvoiceSteady
  <2>8. OfInvoice(w)'
    BY <2>1, <2>4, <2>5 DEF OfInvoice
  <2>9. QED BY <1>a, <2>4, <2>5, <2>6, <2>7, <2>8, InvoiceMove
<1>7. CASE setStatus(r)
  <2>1. PICK i \in DOMAIN invoices : task[r].step = "status" /\ i = task[r].invoice
    BY <1>7, InvoiceShape DEF setStatus, At
  <2>2. PICK old \in InvoiceRow : old = invoices[i]
    BY <1>a
  <2>3. PICK status : status = statusOfPaid(old.total, task[r].paid, task[r].was)
    OBVIOUS
  <2>4. status \in InvoiceStatus
    BY <2>1, <2>3, InvoiceShape DEF statusOfPaid, InvoiceStatus
  <2>5. Moves(r, Idle) /\ invoices' = [invoices EXCEPT ![i].status = status]
    BY <1>7, <2>1, <2>2, <2>3, InvoiceShape DEF setStatus, Moves, Finish
  <2>6. PICK new : new = [old EXCEPT !.status = status]
    OBVIOUS
  <2>7. /\ new \in InvoiceRow /\ new.allocated = old.allocated /\ new.status = status /\ new.total = old.total
        /\ new.payments = old.payments /\ new.paid = old.paid
    BY <2>2, <2>4, <2>6 DEF InvoiceRow
  <2>8. invoices' = [invoices EXCEPT ![i] = new]
    BY <1>a, <2>2, <2>5, <2>6
  <2>9. /\ invoices' \in Seq(InvoiceRow) /\ DOMAIN invoices' = DOMAIN invoices
        /\ invoices'[i] = new /\ \A j \in DOMAIN invoices \ {i} : invoices'[j] = invoices[j]
    BY <1>a, <2>7, <2>8, RowWritten
  <2>10. InvoiceSteady(task[r]) => InvoiceSteady(Idle)'
    <3>1. SUFFICES ASSUME InvoiceSteady(task[r]), NEW j \in DOMAIN invoices PROVE Billed(Idle, j, invoices'[j])
      BY <2>9 DEF InvoiceSteady
    <3>2. Billed(task[r], j, invoices[j])
      BY <3>1 DEF InvoiceSteady
    <3>3. CASE j = i
      <4>1. old.payments \in Nat /\ old.paid \in Nat /\ old.total \in Nat
        BY <2>2, TotalsAssumption DEF TotalsAssumption, InvoiceRow
      <4>2. /\ old.allocated <= 1 /\ Told(old)
            /\ task[r].paid = old.paid /\ task[r].was = old.status
        BY <2>1, <2>2, <3>2, <3>3 DEF Billed
      <4>3. status = IF old.paid >= old.total THEN "PAID" ELSE IF old.paid > 0 THEN "PARTIALLY_PAID" ELSE old.status
        BY <2>3, <4>2 DEF statusOfPaid
      <4>4. old.payments > 0
        BY <2>1, <2>2, <3>2, <3>3 DEF Billed
      <4>5. Told(new) /\ Reconciled(new)
        BY <2>7, <4>1, <4>2, <4>3, <4>4 DEF Told, Reconciled
      <4>6. QED BY <1>a, <2>7, <2>9, <3>3, <4>2, <4>5 DEF Billed
    <3>4. CASE j # i
      BY <1>a, <2>1, <2>9, <3>2, <3>4, BilledWork
    <3>5. QED BY <3>3, <3>4
  <2>11. OfInvoice(Idle)'
    BY <1>a DEF OfInvoice
  <2>12. QED BY <1>a, <2>5, <2>9, <2>10, <2>11, InvoiceMove
<1>8. QED BY <1>0, <1>1, <1>2, <1>3, <1>4, <1>5, <1>6, <1>7

LEMMA InvoicesAreCurrent == InvoiceInv => InvoiceCurrent
<1> SUFFICES ASSUME InvoiceInv, Serial, Quiet, NEW i \in DOMAIN invoices
             PROVE  invoices[i].allocated <= 1 /\ Reconciled(invoices[i])
  BY DEF InvoiceCurrent, Reconciled
<1>1. Billed(Idle, i, invoices[i]) /\ Idle.step = "idle"
  BY DEF InvoiceInv, InvoiceSteady, Idle
<1>2. QED BY <1>1 DEF Billed
-----------------------------------------------------------------------------
(* The case as composed: each behaviour keeps the invariant of what it      *)
(* follows, and the rest as it began.                                       *)

IInv ==
  /\ history.to = stage
  /\ IssuedAsSigned
  /\ follows \in {"screening", "awards"} => StageInv
  /\ follows \notin {"screening", "awards"} => stage = "DRAFT" /\ awards = <<>>
  /\ follows = "hearing" => HearingInv
  /\ IF follows = "invoices" THEN InvoiceInv ELSE invoices = <<>>
  /\ follows = "application" => ApplicationInv
  /\ follows # "application" => kind = "none"

LEMMA InitInvariant == Init => IInv
<1> SUFFICES ASSUME Init PROVE IInv
  OBVIOUS
<1>1. /\ task = [r \in Requests |-> Idle] /\ stage = "DRAFT" /\ history.to = "DRAFT"
      /\ parties \subseteq Parties /\ checks = <<>> /\ awards = <<>> /\ hearing = "none"
  BY DEF Init, HandlersInit, StageInit, HearingsInit
<1>2. Alone /\ \A r \in Requests : task[r] = Idle
  BY <1>1 DEF Alone
<1>3. IssuedAsSigned
  BY <1>1 DEF IssuedAsSigned
<1>4. StageInv
  <2>1. checks \in Seq(CheckRow) /\ awards \in Seq(AwardRow)
    BY <1>1
  <2>2. StageData
    BY <1>1, <2>1 DEF StageData, StageTask, Stages
  <2>3. Steady(Idle)
    BY <1>1 DEF Steady, Fresh, Answered, Idle
  <2>4. QED BY <1>1, <1>2, <2>2, <2>3, IdleWork DEF StageInv, IssuedStages
<1>5. HearingInv
  BY <1>1, <1>2 DEF HearingInv, HearingTask, HearingSteady, Idle
<1>6. ASSUME ApplicationsInit PROVE ApplicationInv
  <2>1. \A r \in Requests : Shaped(task[r])
    BY <1>2 DEF Shaped
  <2>2. CASE kind = "filing" /\ row = NewFiling
    <3>1. PICK e \in VersionRow : e = [status |-> "SUBMITTED", receipt |-> TRUE]
      BY DEF VersionRow
    <3>2. PICK V : V = <<e>>
      OBVIOUS
    <3>3. row = [versions |-> V, corrections |-> <<>>]
      BY <2>2, <3>1, <3>2 DEF NewFiling
    <3>4. V \in Seq(VersionRow) /\ Len(V) = 1 /\ DOMAIN V = {1} /\ V[1] = e
      BY <3>2
    <3>5. ApprovedCorrections = {} /\ Cardinality(ApprovedCorrections) = 0
      BY <3>3, FS_EmptySet DEF ApprovedCorrections
    <3>6. Matter
      BY <2>2, <3>3, <3>4, <3>5 DEF Matter
    <3>7. Grounded(Idle)
      <4>1. /\ Len(row.versions) = 1 + Cardinality(ApprovedCorrections) + 0
            /\ \A v \in DOMAIN row.versions : row.versions[v].status = "SUPERSEDED" <=> v < Len(row.versions) - 0
        <5>1. row.versions = V /\ e.status = "SUBMITTED"
          BY <3>1, <3>3
        <5>2. Len(row.versions) = 1 + Cardinality(ApprovedCorrections) + 0
          BY <3>4, <3>5, <5>1
        <5>3. ASSUME NEW v \in DOMAIN row.versions
              PROVE  row.versions[v].status = "SUPERSEDED" <=> v < Len(row.versions) - 0
          <6>1. v = 1 /\ row.versions[v].status = "SUBMITTED" /\ Len(row.versions) = 1
            BY <3>4, <5>1, <5>3
          <6>2. QED BY <6>1
        <5>4. QED BY <5>2, <5>3
      <4>2. kind = "filing" /\ Idle.step = "idle"
        BY <2>2 DEF Idle
      <4>3. QED BY <4>1, <4>2 DEF Grounded
    <3>8. Carried(Idle)
      BY DEF Carried, Idle
    <3>9. QED BY <1>1, <1>2, <2>1, <3>6, <3>7, <3>8 DEF ApplicationInv
  <2>3. CASE kind # "filing"
    <3>1. Matter
      BY <1>6, <2>3 DEF ApplicationsInit, Matter, NewProductionRequest, NewInterimMeasure, NewJoinderRequest,
         NewDefaultProceeding, NewExpeditedTrack, Granted, NoDecision
    <3>2. Grounded(Idle) /\ Carried(Idle)
      BY <1>6, <2>3 DEF ApplicationsInit, Grounded, Carried, Idle, NewProductionRequest
    <3>3. QED BY <1>1, <1>2, <2>1, <3>1, <3>2 DEF ApplicationInv
  <2>4. kind = "filing" => row = NewFiling
    BY <1>6 DEF ApplicationsInit
  <2>5. QED BY <2>2, <2>3, <2>4
<1>7. InvoiceInv
  BY <1>1, <1>2 DEF Init, InvoicesInit, InvoiceInv, InvoiceTask, OfInvoice, InvoiceSteady, Idle
<1>8. QED BY <1>1, <1>3, <1>4, <1>5, <1>6, <1>7 DEF Init, InvoicesInit, IInv

LEMMA IssuedSteps ==
  ASSUME StageInv, StageNext, IssuedAsSigned
  PROVE  IssuedAsSigned'
<1>1. StageInv'
  BY StageStep
<1>2. ASSUME Serial' PROVE \A i \in DOMAIN awards' : awards'[i].issued <= 1
  <2>1. CASE Requests = {}
    BY <1>2, <2>1 DEF StageNext, lapse, IssuedAsSigned, Serial
  <2>2. CASE Requests # {}
    <3>1. Alone' /\ \A r \in Requests : Only(r)' => Steady(task[r])'
      BY <1>1, <1>2 DEF StageInv
    <3>2. \E r \in Requests : Only(r)'
      BY <2>2, <3>1 DEF Alone, Only
    <3>3. QED BY <3>1, <3>2 DEF Steady
  <2>3. QED BY <2>1, <2>2
<1>3. QED BY <1>1, <1>2 DEF StageInv, IssuedAsSigned, SomeIssued, IssuedStages

\* Where another part of the case takes the step.
LEMMA Elsewhere ==
  ASSUME IInv, Next, follows \notin {"screening", "awards"}
  PROVE  /\ UNCHANGED stageVars /\ IssuedAsSigned' /\ stage' = "DRAFT" /\ awards' = <<>>
         /\ follows # "invoices" => UNCHANGED invoices
BY DEF IInv, Next, stageVars, IssuedAsSigned

LEMMA NextInvariant == IInv /\ [Next]_vars => IInv'
<1> SUFFICES ASSUME IInv, [Next]_vars PROVE IInv'
  OBVIOUS
<1>1. CASE UNCHANGED vars
  <2>1. UNCHANGED <<task, alone, follows, stage, history, parties, checks, awards, hearing, invoices, kind, row>>
    BY <1>1 DEF vars, stageVars, hearingVars, applicationVars
  <2>2. IssuedAsSigned' /\ (StageInv => StageInv')
    BY <2>1 DEF IInv, IssuedAsSigned, Serial, StageInv, StageData, Sound, SomeIssued, Alone, Only, Steady, Fresh, Answered,
       ToScreen, ScreenedParties, Held
  <2>3. HearingInv => HearingInv'
    BY <2>1 DEF HearingInv, HearingSteady, Serial, Alone, Only
  <2>4. ApplicationInv => ApplicationInv'
    <3>1. (\A w : OfVersion(w)' = OfVersion(w)) /\ ApprovedCorrections' = ApprovedCorrections
      BY <2>1 DEF OfVersion, ApprovedCorrections
    <3>2. Matter' <=> Matter
      BY <2>1, <3>1 DEF Matter
    <3>3. \A r \in Requests : (Shaped(task[r])' <=> Shaped(task[r])) /\ (Carried(task[r])' <=> Carried(task[r]))
      BY <2>1, <3>1 DEF Shaped, Carried
    <3>4. /\ Grounded(Idle)' <=> Grounded(Idle)
          /\ \A r \in Requests : Grounded(task[r])' <=> Grounded(task[r])
      <4>1. kind' = kind /\ row' = row /\ (MayProceed(row)' <=> MayProceed(row)) /\ (Agreement(row)' <=> Agreement(row))
        BY <2>1 DEF MayProceed, Agreement
      <4>2. ASSUME NEW w PROVE Grounded(w)' <=> Grounded(w)
        BY <3>1, <4>1 DEF Grounded
      <4>3. Grounded(Idle)' <=> Grounded(Idle)
        BY <4>2 DEF Idle
      <4>4. ASSUME NEW r \in Requests PROVE Grounded(task[r])' <=> Grounded(task[r])
        <5>1. PICK w : w = task[r]
          OBVIOUS
        <5>2. task'[r] = w /\ (Grounded(w)' <=> Grounded(w))
          BY <2>1, <4>2, <5>1
        <5>3. (Grounded(task[r]) <=> Grounded(w)) /\ (Grounded(task[r])' <=> Grounded(w)')
          BY <5>1, <5>2 DEF Grounded
        <5>4. QED BY <5>2, <5>3
      <4>5. QED BY <4>3, <4>4
    <3>5. (Serial' <=> Serial) /\ (Alone' <=> Alone) /\ (Quiet' <=> Quiet) /\ \A r \in Requests : Only(r)' <=> Only(r)
      BY <2>1 DEF Serial, Alone, Quiet, Only
    <3>6. (task = [r \in Requests |-> task[r]])' <=> task = [r \in Requests |-> task[r]]
      BY <2>1
    <3>7. QED BY <3>2, <3>3, <3>4, <3>5, <3>6 DEF ApplicationInv
  <2>5. InvoiceInv => InvoiceInv'
    BY <2>1 DEF InvoiceInv, OfInvoice, InvoiceSteady, Serial, Quiet, Alone, Only
  <2>6. QED BY <2>1, <2>2, <2>3, <2>4, <2>5 DEF IInv
<1>2. CASE Next
  <2>1. /\ UNCHANGED follows /\ (follows # "application" => kind' = kind)
        /\ follows # "invoices" => invoices' = invoices
    BY <1>2 DEF Next, applicationVars
  <2>2. CASE follows \in {"screening", "awards"}
    <3>1. StageInv /\ StageNext
      BY <1>2, <2>2 DEF IInv, Next
    <3>2. StageInv' /\ IssuedAsSigned' /\ history'.to = stage'
      BY <3>1, StageStep, IssuedSteps, HistoryFollows DEF IInv
    <3>3. QED BY <2>1, <2>2, <3>2 DEF IInv
  <2>3. CASE follows = "hearing"
    <3>1. HearingInv'
      BY <1>2, <2>3, HearingStep DEF IInv, Next
    <3>2. QED BY <1>2, <2>1, <2>3, <3>1, Elsewhere DEF IInv, stageVars
  <2>4. CASE follows = "application"
    <3>1. ApplicationInv'
      BY <1>2, <2>4, ApplicationStep DEF IInv, Next
    <3>2. QED BY <1>2, <2>1, <2>4, <3>1, Elsewhere DEF IInv, stageVars
  <2>5. CASE follows = "invoices"
    <3>1. InvoiceInv'
      BY <1>2, <2>5, InvoiceStep DEF IInv, Next
    <3>2. QED BY <1>2, <2>1, <2>5, <3>1, Elsewhere DEF IInv, stageVars
  <2>6. CASE follows \notin {"screening", "awards", "hearing", "invoices", "application"}
    BY <1>2, <2>1, <2>6, Elsewhere DEF IInv, stageVars
  <2>7. QED BY <2>2, <2>3, <2>4, <2>5, <2>6
<1>3. QED BY <1>1, <1>2

LEMMA Invariance == Spec => []IInv
BY InitInvariant, NextInvariant, PTL DEF Spec

(* An award goes out signed and the case is at a stage of issued awards     *)
(* only when one was issued, whatever runs with what; the issue handler     *)
(* sends it once when requests run one at a time.                           *)
THEOREM AwardsGoOutSigned == Spec => []IssuedAsSigned
<1>1. IInv => IssuedAsSigned
  BY DEF IInv
<1>2. QED BY <1>1, Invariance, PTL

(* With nothing in progress an invoice says how far it is paid, and is       *)
(* allocated once, as long as requests run one at a time.                   *)
THEOREM InvoicesSayHowFarPaid == Spec => []InvoiceCurrent
<1>1. IInv => InvoiceCurrent
  <2>1. invoices = <<>> => InvoiceCurrent
    BY DEF InvoiceCurrent
  <2>2. QED BY <2>1, InvoicesAreCurrent DEF IInv
<1>2. QED BY <1>1, Invariance, PTL

(* A correction the registry approved has a later version of its own and    *)
(* leaves its filing superseded, at every step and wherever a request       *)
(* stops; between requests one version is current, and a rejected           *)
(* correction made none.                                                    *)
THEOREM FilingsAreReplaced == Spec => []CorrectionReplaces
<1>1. IInv => CorrectionReplaces
  BY CorrectionsReplace DEF IInv, CorrectionReplaces
<1>2. QED BY <1>1, Invariance, PTL

(* Every writer of the stage writes the row of the history that says so,    *)
(* and it starts where the last one ended when requests run one at a time.  *)
THEOREM HistoryIsTheStages == Spec => StageFollowsHistory
<1>1. IInv /\ [Next]_vars
        => [/\ history'.to = stage'
            /\ (Serial' /\ history' # history) => history'.from = stage]_<<stageVars, alone>>
  <2> SUFFICES ASSUME IInv, Next
               PROVE  history'.to = stage' /\ ((Serial' /\ history' # history) => history'.from = stage)
    BY DEF vars
  <2>1. CASE follows \in {"screening", "awards"}
    BY <2>1, HistoryFollows DEF IInv, Next
  <2>2. CASE follows \notin {"screening", "awards"}
    BY <2>2, Elsewhere DEF stageVars, IInv
  <2>3. QED BY <2>1, <2>2
<1>2. QED BY <1>1, Invariance, PTL DEF Spec, StageFollowsHistory

(* The registrar's transition moves no case past a risk that nobody         *)
(* released, and no registered case with a party unscreened, as long as     *)
(* requests run one at a time.                                              *)
THEOREM NoCaseProceedsUnscreened == Spec => ProceedsScreened
<1> DEFINE Screened ==
       \A r \in Requests : (Serial' /\ At(r, "transition") /\ stage' # stage) =>
         /\ \A i \in DOMAIN checks :
              checks[i].hold # "ACTIVE" /\ (checks[i].status \in Risky => checks[i].hold = "RELEASED")
         /\ stage = "CASE_REGISTERED" => parties \subseteq ScreenedParties
<1>1. IInv /\ [Next]_vars => [Screened]_<<stageVars, alone>>
  <2> SUFFICES ASSUME IInv, Next PROVE Screened
    BY DEF vars
  <2>1. CASE follows \in {"screening", "awards"}
    BY <2>1, StepIsScreened DEF IInv, Next
  <2>2. CASE follows \notin {"screening", "awards"}
    BY <2>2, Elsewhere DEF stageVars
  <2>3. QED BY <2>1, <2>2
<1>2. QED BY <1>1, Invariance, PTL DEF Spec, ProceedsScreened

(* A cancelled hearing stays cancelled and lets nobody in any more, as long *)
(* as requests run one at a time.                                           *)
THEOREM CancelledHearingsStay == Spec => CancelledForGood
<1>1. IInv /\ [Next]_vars
        => [(Serial' /\ hearing = "CANCELLED") => hearing' = hearing /\ links' = links]_<<hearingVars, alone>>
  <2> SUFFICES ASSUME IInv, Next
               PROVE  (Serial' /\ hearing = "CANCELLED") => hearing' = hearing /\ links' = links
    BY DEF vars, hearingVars
  <2>1. CASE follows = "hearing"
    BY <2>1, HearingStep DEF IInv, Next
  <2>2. CASE follows # "hearing"
    BY <2>2 DEF Next, hearingVars
  <2>3. QED BY <2>1, <2>2
<1>2. QED BY <1>1, Invariance, PTL DEF Spec, CancelledForGood

LEMMA MatterSteps == IInv /\ [Next]_vars => [StandsStep /\ GroundedStep]_<<alone, applicationVars>>
<1> SUFFICES ASSUME IInv, Next PROVE StandsStep /\ GroundedStep
  BY DEF vars
<1>1. CASE follows = "application"
  BY <1>1, ApplicationStep DEF IInv, Next
<1>2. CASE follows # "application"
  BY <1>2 DEF IInv, StandsStep, GroundedStep
<1>3. QED BY <1>1, <1>2

(* No decision is replaced: of a default whatever the interleaving, of an   *)
(* interim measure or a joinder as long as requests run one at a time.      *)
THEOREM DecisionsStand == Spec => DecisionStands
BY MatterSteps, Invariance, PTL DEF Spec, DecisionStands, StandsStep

(* Documents are produced under a grant, defaults proceed on all factors    *)
(* and verified service, an agreed track starts with the agreement, at the  *)
(* moment each takes effect and as long as requests run one at a time.      *)
THEOREM ReliefIsGrounded == Spec => GroundedWhenTaken
BY MatterSteps, Invariance, PTL DEF Spec, GroundedWhenTaken, GroundedStep
=============================================================================
