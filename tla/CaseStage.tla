----------------------------- MODULE CaseStage -----------------------------
(***************************************************************************)
(* The stage of one case and those who move it: the claimant's submission, *)
(* the registrar's transitions behind the compliance holds, the tribunal   *)
(* appointments, and the awards.  The registrar asks the compliance        *)
(* service whether the case is cleared; appointments and awards move the   *)
(* stage from wherever it is.  Parties are screened when they are added    *)
(* and when the case is registered.                                        *)
(***************************************************************************)
EXTENDS Handlers, SequencesExt

CONSTANTS
  Parties,
  MaxChecks,   \* bound: screening checks of the case
  MaxAwards    \* bound: awards of the case

VARIABLES
  stage,     \* Case.stage
  history,   \* the latest CaseStatusHistory row
  parties,   \* the CaseParty rows
  checks,    \* ScreeningCheck rows, each with the ComplianceHold raised from it
  awards     \* Award rows; issued counts the batches of deliveries

stageVars == <<stage, history, parties, checks, awards>>

REGISTRAR_TRANSITIONS ==
  [SUBMITTED |-> {"FILING_FEE_PENDING", "ADMINISTRATIVE_REVIEW"},
   FILING_FEE_PENDING |-> {"ADMINISTRATIVE_REVIEW"},
   ADMINISTRATIVE_REVIEW |-> {"DEFICIENCY_NOTICE_ISSUED", "CASE_REGISTERED"},
   DEFICIENCY_NOTICE_ISSUED |-> {"AWAITING_CLAIMANT_CORRECTION"},
   AWAITING_CLAIMANT_CORRECTION |-> {"ADMINISTRATIVE_REVIEW"},
   CASE_REGISTERED |-> {"NOTICE_BEING_SERVED"},
   NOTICE_BEING_SERVED |-> {"AWAITING_RESPONDENT_REGISTRATION", "AWAITING_RESPONSE"},
   AWAITING_RESPONDENT_REGISTRATION |-> {"AWAITING_RESPONSE"},
   AWAITING_RESPONSE |-> {"RESPONSE_RECEIVED"},
   RESPONSE_RECEIVED |-> {"ARBITRATION_TERMS_PENDING", "TRIBUNAL_APPOINTMENT_PENDING"}]

\* createDraft: the parties named in the filing are written unscreened.
StageInit ==
  /\ stage = "DRAFT" /\ history = [from |-> "none", to |-> "DRAFT"]
  /\ parties \in SUBSET Parties
  /\ checks = <<>> /\ awards = <<>>

MoveStage(from, to) == stage' = to /\ history' = [from |-> from, to |-> to]
StageKept == UNCHANGED <<stage, history>>
ScreeningKept == UNCHANGED <<parties, checks>>
-----------------------------------------------------------------------------
(* Submission, and the registrar *)

submit(r) == stage = "DRAFT" /\ Begin(r, [step |-> "submit"]) /\ UNCHANGED stageVars
setSubmitted(r) ==
  At(r, "submit") /\ MoveStage("DRAFT", "SUBMITTED") /\ Finish(r) /\ ScreeningKept /\ UNCHANGED awards

transition(r) ==
  /\ stage \in DOMAIN REGISTRAR_TRANSITIONS
  /\ \E to \in REGISTRAR_TRANSITIONS[stage] : Begin(r, [step |-> "cleared", from |-> stage, to |-> to])
  /\ UNCHANGED stageVars

Held == \E i \in DOMAIN checks : checks[i].hold = "ACTIVE"

assertCaseClearedToProceed(r) ==
  /\ At(r, "cleared")
  /\ IF Held THEN Finish(r) ELSE Continue(r, [task[r] EXCEPT !.step = "transition"])
  /\ UNCHANGED stageVars

\* Stage and history in one transaction; registration then screens the parties.
setTransition(r) ==
  /\ At(r, "transition")
  /\ MoveStage(task[r].from, task[r].to)
  /\ IF task[r].to = "CASE_REGISTERED" THEN Continue(r, [step |-> "rescreen"]) ELSE Finish(r)
  /\ ScreeningKept /\ UNCHANGED awards
-----------------------------------------------------------------------------
(* Screening *)

Screening(left, force) == [step |-> "subject", left |-> left, force |-> force]

rescreenForEvent(r) == At(r, "rescreen") /\ Continue(r, Screening(parties, FALSE)) /\ UNCHANGED stageVars

addParty(r) ==
  /\ \E p \in Parties \ parties : parties' = parties \cup {p} /\ Begin(r, Screening({p}, FALSE))
  /\ StageKept /\ UNCHANGED <<checks, awards>>

\* The compliance officer may screen a party again at any time.
screenManually(r) == \E p \in parties : Begin(r, Screening({p}, TRUE)) /\ UNCHANGED stageVars

hasValidScreening(p) == \E i \in DOMAIN checks : checks[i].party = p /\ checks[i].status = "CLEAR"

\* Subjects are taken one by one; a valid earlier check stands in for a new one.
screenSubject(r) ==
  /\ At(r, "subject")
  /\ \/ task[r].left = {} /\ Finish(r)
     \/ \E p \in task[r].left :
          LET rest == task[r].left \ {p} IN
          IF hasValidScreening(p) /\ ~task[r].force THEN Continue(r, Screening(rest, FALSE))
          ELSE Continue(r, [step |-> "check", party |-> p, left |-> rest])
  /\ UNCHANGED stageVars

createCheck(r) ==
  /\ At(r, "check") /\ Len(checks) < MaxChecks
  /\ checks' = Append(checks, [party |-> task[r].party, status |-> "PENDING", hold |-> "none"])
  /\ Continue(r, [step |-> "result", check |-> Len(checks) + 1, left |-> task[r].left])
  /\ StageKept /\ UNCHANGED <<parties, awards>>

Risky == {"POSSIBLE_MATCH", "FAILED"}

\* The provider's answer; an error of the provider is FAILED.
setResult(r) ==
  /\ At(r, "result")
  /\ \E status \in {"CLEAR"} \cup Risky :
       /\ checks' = [checks EXCEPT ![task[r].check].status = status]
       /\ Continue(r, IF status \in Risky THEN [task[r] EXCEPT !.step = "hold"] ELSE Screening(task[r].left, FALSE))
  /\ StageKept /\ UNCHANGED <<parties, awards>>

\* Mutant: only a match raises a hold, a failed screening does not.
raiseHoldOnMatch(r) ==
  /\ At(r, "hold")
  /\ checks' = [checks EXCEPT ![task[r].check].hold =
       IF checks[task[r].check].status = "FAILED" THEN "none" ELSE "ACTIVE"]
  /\ Continue(r, Screening(task[r].left, FALSE))
  /\ StageKept /\ UNCHANGED <<parties, awards>>

raiseHold(r) ==
  /\ At(r, "hold")
  /\ checks' = [checks EXCEPT ![task[r].check].hold = "ACTIVE"]
  /\ Continue(r, Screening(task[r].left, FALSE))
  /\ StageKept /\ UNCHANGED <<parties, awards>>

releaseHold(r) ==
  /\ \E i \in DOMAIN checks : checks[i].hold = "ACTIVE" /\ checks' = [checks EXCEPT ![i].hold = "RELEASED"]
  /\ AtOnce(r) /\ StageKept /\ UNCHANGED <<parties, awards>>

\* The check and its hold are read, the status is written back, an approval
\* then releases the hold that was seen.
reviewCheck(r) ==
  /\ \E i \in DOMAIN checks, decision \in {"APPROVED", "REJECTED", "ESCALATED"} :
       Begin(r, [step |-> "review", check |-> i, seen |-> checks[i], decision |-> decision])
  /\ UNCHANGED stageVars
setReview(r) ==
  /\ At(r, "review")
  /\ checks' = [checks EXCEPT ![task[r].check].status =
       IF task[r].decision = "ESCALATED" THEN "MANUAL_REVIEW" ELSE task[r].seen.status]
  /\ IF task[r].decision = "APPROVED" /\ task[r].seen.hold = "ACTIVE"
     THEN Continue(r, [task[r] EXCEPT !.step = "release"]) ELSE Finish(r)
  /\ StageKept /\ UNCHANGED <<parties, awards>>
releaseReviewed(r) ==
  /\ At(r, "release")
  /\ checks' = [checks EXCEPT ![task[r].check].hold = "RELEASED"]
  /\ Finish(r) /\ StageKept /\ UNCHANGED <<parties, awards>>

\* A clear result is valid for so many days; lapsed ones are swept up together.
lapse ==
  /\ \E i \in DOMAIN checks : checks[i].status = "CLEAR" /\ checks' = [checks EXCEPT ![i].status = "LAPSED"]
  /\ StageKept /\ UNCHANGED <<task, alone, parties, awards>>
markExpired(r) ==
  /\ \E i \in DOMAIN checks : checks[i].status = "LAPSED"
  /\ checks' = [i \in DOMAIN checks |->
       IF checks[i].status = "LAPSED" THEN [checks[i] EXCEPT !.status = "EXPIRED"] ELSE checks[i]]
  /\ AtOnce(r) /\ StageKept /\ UNCHANGED <<parties, awards>>
-----------------------------------------------------------------------------
(* advanceStage, as appointments and awards share it: the stage is read, and *)
(* unless it is there already it is written with a history row that says     *)
(* what was read.                                                            *)

AdvanceTo(to) == [step |-> "advance", to |-> to]

advanceStage(r) ==
  /\ At(r, "advance")
  /\ IF stage = task[r].to THEN Finish(r)
     ELSE Continue(r, [step |-> "advanceFrom", from |-> stage, to |-> task[r].to])
  /\ UNCHANGED stageVars

\* Mutant: the stage is written, its history is not.
setStageOnly(r) ==
  /\ At(r, "advanceFrom") /\ stage' = task[r].to
  /\ Finish(r) /\ ScreeningKept /\ UNCHANGED <<history, awards>>

setStage(r) ==
  /\ At(r, "advanceFrom") /\ MoveStage(task[r].from, task[r].to)
  /\ Finish(r) /\ ScreeningKept /\ UNCHANGED awards

\* The appointment handlers end by moving the stage, whatever it is.
appoint(r) ==
  /\ \E to \in {"TRIBUNAL_APPOINTMENT_PENDING", "CONFLICT_CHECK", "TRIBUNAL_CONSTITUTED"} : Begin(r, AdvanceTo(to))
  /\ UNCHANGED stageVars
-----------------------------------------------------------------------------
(* Awards *)

NewAward == [signed |-> FALSE, issued |-> 0, document |-> "none", correction |-> "NONE"]
Award(r) == awards[task[r].award]
PutAward(r, award) == awards' = [awards EXCEPT ![task[r].award] = award] /\ StageKept /\ ScreeningKept

createAward(r) ==
  /\ Len(awards) < MaxAwards /\ awards' = Append(awards, NewAward)
  /\ Begin(r, AdvanceTo("DRAFT_AWARD")) /\ StageKept /\ ScreeningKept

\* An issued award may be signed again.
sign(r) ==
  /\ \E i \in DOMAIN awards : awards' = [awards EXCEPT ![i].signed = TRUE]
  /\ AtOnce(r) /\ StageKept /\ ScreeningKept

\* Mutant: whether the award was issued before is not asked.
issueAgain(r) ==
  \E i \in DOMAIN awards :
    awards[i].signed /\ Begin(r, [step |-> "issue", award |-> i]) /\ UNCHANGED stageVars

issue(r) ==
  \E i \in DOMAIN awards :
    /\ awards[i].signed /\ awards[i].issued = 0
    /\ Begin(r, [step |-> "issue", award |-> i])
    /\ UNCHANGED stageVars
\* The issue date and a delivery for every party, in one transaction.
setIssued(r) ==
  /\ At(r, "issue") /\ PutAward(r, [Award(r) EXCEPT !.issued = @ + 1])
  /\ Continue(r, AdvanceTo("AWARD_ISSUED"))

\* The PDF shows the issue date that was read; it is stored, then recorded.
generateDocument(r) ==
  /\ \E i \in DOMAIN awards : Begin(r, [step |-> "document", award |-> i, dated |-> awards[i].issued > 0])
  /\ UNCHANGED stageVars
setDocument(r) ==
  /\ At(r, "document")
  /\ PutAward(r, [Award(r) EXCEPT !.document = IF task[r].dated THEN "dated" ELSE "undated"])
  /\ Finish(r)

requestCorrection(r) ==
  /\ \E i \in DOMAIN awards :
       awards[i].issued > 0 /\ Begin(r, [step |-> "correction", award |-> i])
  /\ UNCHANGED stageVars
setCorrection(r) ==
  /\ At(r, "correction") /\ PutAward(r, [Award(r) EXCEPT !.correction = "REQUESTED"])
  /\ Continue(r, AdvanceTo("CORRECTION_OR_INTERPRETATION"))
-----------------------------------------------------------------------------
RegistrarStep(r) == transition(r) \/ assertCaseClearedToProceed(r) \/ setTransition(r)
ScreeningStep(r) ==
  \/ rescreenForEvent(r) \/ addParty(r) \/ screenManually(r) \/ screenSubject(r) \/ createCheck(r)
  \/ setResult(r) \/ raiseHold(r) \/ releaseHold(r) \/ reviewCheck(r) \/ setReview(r)
  \/ releaseReviewed(r) \/ markExpired(r)
AwardStep(r) ==
  \/ createAward(r) \/ sign(r) \/ issue(r) \/ setIssued(r) \/ generateDocument(r) \/ setDocument(r)
  \/ requestCorrection(r) \/ setCorrection(r)

StageNext ==
  \/ lapse
  \/ \E r \in Requests :
       \/ submit(r) \/ setSubmitted(r) \/ appoint(r) \/ advanceStage(r) \/ setStage(r)
       \/ RegistrarStep(r) \/ ScreeningStep(r) \/ AwardStep(r)
-----------------------------------------------------------------------------
(* The history always ends at the stage the case is in, and as long as one  *)
(* request runs at a time each row starts where the one before it ended     *)
(* (every writer: registrar, appointments, awards, submission).             *)
StageFollowsHistory ==
  [][/\ history'.to = stage'
     /\ (Serial' /\ history' # history) => history'.from = stage]_<<stageVars, alone>>

(* The registrar never moves a case past a risk nobody released: at the     *)
(* moment of the step no hold is in force, every risky result had its hold  *)
(* released, and a registered case leaves that stage only when every party  *)
(* has been screened.  It is the fail-closed promise of the compliance      *)
(* service, kept as long as one request runs at a time.                     *)
ScreenedParties == {checks[i].party : i \in {j \in DOMAIN checks : checks[j].status # "PENDING"}}
ProceedsScreened ==
  [][\A r \in Requests : (Serial' /\ At(r, "transition") /\ stage' # stage) =>
       /\ \A i \in DOMAIN checks :
            checks[i].hold # "ACTIVE" /\ (checks[i].status \in Risky => checks[i].hold = "RELEASED")
       /\ stage = "CASE_REGISTERED" => parties \subseteq ScreenedParties]_<<stageVars, alone>>

(* An award goes out signed, and the case is at a stage of issued awards    *)
(* only when one was issued, whatever runs at the same time; it goes out    *)
(* once, with one batch of deliveries, when requests run one at a time.     *)
IssuedAsSigned ==
  /\ \A i \in DOMAIN awards : awards[i].issued > 0 => awards[i].signed
  /\ Serial => \A i \in DOMAIN awards : awards[i].issued <= 1
  /\ stage \in {"AWARD_ISSUED", "CORRECTION_OR_INTERPRETATION"} =>
       \E i \in DOMAIN awards : awards[i].issued > 0
=============================================================================
