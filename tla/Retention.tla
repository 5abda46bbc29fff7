----------------------------- MODULE Retention -----------------------------
(***************************************************************************)
(* Retention of records (retention.service): the policy and the one draft  *)
(* of a change to it, legal holds, and the sweep that soft-deletes closed  *)
(* cases past their period.                                                *)
(*                                                                         *)
(* The policy is its stored overrides, each for one field of one category: *)
(* [category, field, value].  The draft is a row of its own that is        *)
(* written over, and read whole.  Days are abstracted to periods.          *)
(***************************************************************************)
EXTENDS Handlers, SequencesExt, FiniteSetsExt

CONSTANTS
  Cases,
  Overrides,   \* the overrides that may be drafted
  MaxAge,      \* bound: periods since a case was closed
  MaxHolds,    \* bound: LegalHold rows
  MaxSwept     \* bound: RetentionSweepRecord rows

VARIABLES
  overrides,   \* the SystemSetting retention.policy
  draft,       \* the SystemSetting retention.policy.draft
  approved,    \* the overrides of the drafts that reviews approved, as audited
  record,      \* Case rows; age is Open, or the periods since closedAt
  hold,        \* LegalHold rows
  swept        \* RetentionSweepRecord rows of executed sweeps

policyVars == <<overrides, draft, approved>>
holdVars == <<record, hold, swept>>
retentionVars == <<policyVars, holdVars>>

NoDraft == [status |-> "none"]
Behaviors == {"SOFT_DELETE", "RETAIN_FOREVER", "REVIEW", "ARCHIVE", "LEGAL_HOLD_REQUIRED"}
SAFEGUARDED_CATEGORIES == {"AWARD", "AUDIT_LOG", "NOTICE_CERTIFICATE"}
DEFAULT_RETENTION_POLICY ==
  [category \in SAFEGUARDED_CATEGORIES \cup {"CASE_RECORD", "FILING", "AUTH_LOG"} |->
     IF category \in SAFEGUARDED_CATEGORIES THEN [days |-> 0, behavior |-> "RETAIN_FOREVER"]
     ELSE IF category = "AUTH_LOG" THEN [days |-> 1, behavior |-> "REVIEW"]
     ELSE [days |-> 2, behavior |-> "SOFT_DELETE"]]

\* No handler closes a case: which ones are closed is found.
Open == -1
RetentionInit ==
  /\ overrides = {} /\ draft = NoDraft /\ approved = {}
  /\ record \in [Cases -> [age : {Open, 0}, deleted : {FALSE}, legalHold : {FALSE}, status : {"ACTIVE"}]]
  /\ hold = <<>> /\ swept = <<>>
-----------------------------------------------------------------------------
(* The policy, and the draft of a change: drafted, reviewed, activated *)

WellFormed(change) ==
  /\ change # {}
  /\ \A e, f \in change : (e.category = f.category /\ e.field = f.field) => e = f

getPolicy ==
  [category \in DOMAIN DEFAULT_RETENTION_POLICY |->
     LET Of(field, default) ==
           IF \E e \in overrides : e.category = category /\ e.field = field
           THEN (CHOOSE e \in overrides : e.category = category /\ e.field = field).value ELSE default IN
     [days |-> Of("days", DEFAULT_RETENTION_POLICY[category].days),
      behavior |-> IF category \in SAFEGUARDED_CATEGORIES THEN "RETAIN_FOREVER"
                   ELSE Of("behavior", DEFAULT_RETENTION_POLICY[category].behavior)]]

draftPolicy(r) ==
  /\ \E change \in SUBSET Overrides, status \in {"DRAFT", "PENDING_REVIEW"} :
       /\ WellFormed(change)
       /\ \A e \in change : ~(e.category \in SAFEGUARDED_CATEGORIES /\ e.field = "behavior" /\ e.value # "RETAIN_FOREVER")
       /\ draft' = [status |-> status, overrides |-> change]
  /\ AtOnce(r) /\ UNCHANGED <<overrides, approved, holdVars>>

ReadDraft(r, status, step) ==
  draft.status = status /\ Begin(r, [step |-> step, draft |-> draft]) /\ UNCHANGED retentionVars
reviewPolicy(r) == ReadDraft(r, "PENDING_REVIEW", "review")

\* Mutant: the decision is set on the draft there is, not on the one reviewed.
setReviewedInPlace(r) ==
  /\ At(r, "review")
  /\ \E decision \in {"APPROVED", "REJECTED"} :
       /\ draft' = IF draft = NoDraft THEN draft ELSE [draft EXCEPT !.status = decision]
       /\ approved' = IF decision = "APPROVED" THEN approved \cup task[r].draft.overrides ELSE approved
  /\ Finish(r) /\ UNCHANGED <<overrides, holdVars>>

\* What was reviewed is written back, over any draft made since.
setReviewed(r) ==
  /\ At(r, "review")
  /\ \E decision \in {"APPROVED", "REJECTED"} :
       /\ draft' = [task[r].draft EXCEPT !.status = decision]
       /\ approved' = IF decision = "APPROVED" THEN approved \cup task[r].draft.overrides ELSE approved
  /\ Finish(r) /\ UNCHANGED <<overrides, holdVars>>

Merge(active, change) ==
  change \cup {e \in active : ~\E f \in change : f.category = e.category /\ f.field = e.field}

activatePolicy(r) == ReadDraft(r, "APPROVED", "readActive")
readActive(r) ==
  /\ At(r, "readActive")
  /\ Continue(r, [step |-> "activate", merged |-> Merge(overrides, task[r].draft.overrides)])
  /\ UNCHANGED retentionVars
setActive(r) ==
  /\ At(r, "activate") /\ overrides' = task[r].merged
  /\ Continue(r, [step |-> "deleteDraft"]) /\ UNCHANGED <<draft, approved, holdVars>>
deleteDraft(r) ==
  At(r, "deleteDraft") /\ draft' = NoDraft /\ Finish(r) /\ UNCHANGED <<overrides, approved, holdVars>>
-----------------------------------------------------------------------------
(* Legal holds: the row, then the flag on the case *)

ActiveHold(c) == \E h \in DOMAIN hold : hold[h] = [case |-> c, status |-> "ACTIVE"]
SetFlag(c, flag) ==
  record' = [record EXCEPT ![c].legalHold = flag, ![c].status = IF flag THEN "LEGAL_HOLD" ELSE "ACTIVE"]

placeLegalHold(r) ==
  /\ Len(hold) < MaxHolds
  /\ \E c \in Cases : hold' = Append(hold, [case |-> c, status |-> "ACTIVE"]) /\ Begin(r, [step |-> "flag", case |-> c])
  /\ UNCHANGED <<policyVars, record, swept>>
setFlag(r) ==
  At(r, "flag") /\ SetFlag(task[r].case, TRUE) /\ Finish(r) /\ UNCHANGED <<policyVars, hold, swept>>

releaseLegalHold(r) ==
  \E h \in DOMAIN hold :
    hold[h].status = "ACTIVE" /\ Begin(r, [step |-> "release", hold |-> h]) /\ UNCHANGED retentionVars
setReleased(r) ==
  /\ At(r, "release") /\ hold' = [hold EXCEPT ![task[r].hold].status = "RELEASED"]
  /\ Continue(r, [step |-> "countHolds", case |-> hold[task[r].hold].case])
  /\ UNCHANGED <<policyVars, record, swept>>

\* Mutant: the flag goes with the first hold that is released.
countNoHolds(r) ==
  At(r, "countHolds") /\ Continue(r, [task[r] EXCEPT !.step = "unflag"]) /\ UNCHANGED retentionVars

countHolds(r) ==
  /\ At(r, "countHolds")
  /\ IF ActiveHold(task[r].case) THEN Finish(r) ELSE Continue(r, [task[r] EXCEPT !.step = "unflag"])
  /\ UNCHANGED retentionVars
clearFlag(r) ==
  At(r, "unflag") /\ SetFlag(task[r].case, FALSE) /\ Finish(r) /\ UNCHANGED <<policyVars, hold, swept>>
-----------------------------------------------------------------------------
(* The sweep: the policy, the eligible cases, then one case after another *)

Eligible(days) == {c \in Cases : record[c].age # Open /\ ~record[c].deleted /\ record[c].age > days}

\* The other categories of the request are refused and change nothing.
executeSweep(r) ==
  /\ getPolicy["CASE_RECORD"].behavior = "SOFT_DELETE"
  /\ Begin(r, [step |-> "eligible", days |-> getPolicy["CASE_RECORD"].days]) /\ UNCHANGED retentionVars
softDeleteEligibleCases(r) ==
  /\ At(r, "eligible")
  /\ LET found == Eligible(task[r].days) IN
     Continue(r, [step |-> "sweep", left |-> found, held |-> {c \in found : record[c].legalHold}])
  /\ UNCHANGED retentionVars

Sweep(c, action) == Len(swept) < MaxSwept /\ swept' = Append(swept, [case |-> c, action |-> action])
sweepCase(r) ==
  /\ At(r, "sweep")
  /\ \/ task[r].left = {} /\ Finish(r) /\ UNCHANGED <<record, swept>>
     \/ \E c \in task[r].left \cap task[r].held :
          Sweep(c, "SKIPPED_LEGAL_HOLD") /\ Continue(r, [task[r] EXCEPT !.left = @ \ {c}]) /\ UNCHANGED record
     \/ \E c \in task[r].left \ task[r].held :
          /\ record' = [record EXCEPT ![c].deleted = TRUE, ![c].status = "DELETED"]
          /\ Continue(r, [step |-> "tombstone", case |-> c, left |-> task[r].left \ {c}, held |-> task[r].held])
          /\ UNCHANGED swept
  /\ UNCHANGED <<policyVars, hold>>
writeTombstone(r) ==
  /\ At(r, "tombstone") /\ Sweep(task[r].case, "SOFT_DELETED")
  /\ Continue(r, [step |-> "sweep", left |-> task[r].left, held |-> task[r].held])
  /\ UNCHANGED <<policyVars, record, hold>>

\* Time.
age ==
  /\ \E c \in Cases : record[c].age \in 0 .. MaxAge - 1 /\ record' = [record EXCEPT ![c].age = @ + 1]
  /\ UNCHANGED <<task, alone, policyVars, hold, swept>>
-----------------------------------------------------------------------------
PolicyStep(r) ==
  \/ draftPolicy(r) \/ reviewPolicy(r) \/ setReviewed(r)
  \/ activatePolicy(r) \/ readActive(r) \/ setActive(r) \/ deleteDraft(r)
HoldStep(r) ==
  placeLegalHold(r) \/ setFlag(r) \/ releaseLegalHold(r) \/ setReleased(r) \/ countHolds(r) \/ clearFlag(r)
SweepStep(r) == executeSweep(r) \/ softDeleteEligibleCases(r) \/ sweepCase(r) \/ writeTombstone(r)
-----------------------------------------------------------------------------
(* Nothing governs deletion that a reviewer has not approved, however the   *)
(* drafting, the review and the activation overlap: each override in force, *)
(* and each of a draft that may be activated, was in a draft when a review  *)
(* read it that then approved it.                                           *)
PolicyApproved ==
  /\ overrides \subseteq approved
  /\ draft.status = "APPROVED" => draft.overrides \subseteq approved

(* One request at a time, a sweep deletes no case with a hold in force,     *)
(* though it looks at the flag and never at the holds, and a case that was  *)
(* deleted once is not deleted again.                                       *)
HeldCaseKept ==
  [][Serial' => \A c \in Cases :
       (record'[c].deleted /\ ~record[c].deleted) =>
          ~ActiveHold(c) /\ \A i \in DOMAIN swept : swept[i] # [case |-> c, action |-> "SOFT_DELETED"]]_<<retentionVars, alone>>
=============================================================================
