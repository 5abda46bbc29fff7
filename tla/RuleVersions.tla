----------------------------- MODULE RuleVersions -----------------------------
(***************************************************************************)
(* The versions of one rule set: counsel's review of a draft, sign-off,    *)
(* activation and archiving (RuleReviewService), and the cases pinned to a *)
(* version with the acceptances of its rules (RulesService).               *)
(*                                                                         *)
(* Every operation is an HTTP handler that awaits one database call after  *)
(* another; task[r] holds the step request r is at and what it has read.   *)
(* The text of a rule is the number of times it was edited.                *)
(***************************************************************************)
EXTENDS FiniteSets, Naturals

CONSTANTS
  Versions,         \* the versions the rule set may have (bounds their number)
  Published,        \* the version that is ACTIVE when the model starts
  Chapters,         \* the chapters of every version
  Rules,            \* the rules of every version
  Cases,            \* the cases that may be pinned to a version
  ChapterVerdicts,  \* the chapter decisions counsel takes in the instance
  RuleVerdicts,     \* the rule decisions counsel takes in the instance
  MaxEdits,         \* bound: edits of one rule
  MaxAcceptances,   \* bound: acceptance rows of one case's party
  Requests,         \* requests in progress at one time: the degree of concurrency
  Crashes           \* may a request stop half-way (process exit, failed query)?

ChapterReviewStatus == {"NO_ISSUE", "COMMENT", "CHANGE_REQUESTED", "BLOCKER", "APPROVED"}
RuleReviewStatus == {"PENDING", "OK", "CHANGE_REQUIRED", "BLOCKER"}

ASSUME PublishedAssumption == Published \in Versions
ASSUME NoneAssumption == "NONE" \notin Versions  \* "NONE": no row yet, no pin yet
ASSUME ChaptersAssumption == IsFiniteSet(Chapters) /\ Chapters # {}
ASSUME VerdictsAssumption ==
  ChapterVerdicts \subseteq ChapterReviewStatus /\ RuleVerdicts \subseteq RuleReviewStatus
ASSUME BoundsAssumption == MaxEdits \in Nat /\ MaxAcceptances \in Nat
ASSUME CrashesAssumption == Crashes \in BOOLEAN

VARIABLES
  version,    \* ruleSetVersion rows: status, reviewState, signedOffAt, effectiveDate
  text,       \* the text of each version's rules
  chapter,    \* ruleChapterReview rows: counsel's decision on each chapter
  item,       \* ruleReviewItem rows: decision on each rule; of: the text decided on
  signed,     \* history: the texts a version had when it was last signed off
  pinned,     \* caseRuleSet rows: the version each case is pinned to
  accepted,   \* number of caseRuleAcceptance rows of the case's party
  task        \* what each request in progress has still to do

rows == <<version, text, chapter, item, signed, pinned, accepted>>
vars == <<version, text, chapter, item, signed, pinned, accepted, task>>

VersionStatus == {"DRAFT", "ACTIVE", "SUPERSEDED", "ARCHIVED"}
VersionReviewState ==
  {"NOT_STARTED", "UNDER_REVIEW", "CHANGES_REQUESTED", "BLOCKED", "APPROVED"}

NoVersion == [status |-> "NONE", reviewState |-> "NOT_STARTED",
              signedOff |-> FALSE, effective |-> FALSE]
NewDraft == [NoVersion EXCEPT !.status = "DRAFT"]
Unreviewed == [c \in Chapters |-> "NONE"]
Pending == [u \in Rules |-> [status |-> "PENDING", of |-> 0]]
Original == [u \in Rules |-> 0]

Idle == [step |-> "idle"]
Begin(r, work) == task[r] = Idle /\ task' = [task EXCEPT ![r] = work]
Continue(r, work) == task' = [task EXCEPT ![r] = work]
Finish(r) == task' = [task EXCEPT ![r] = Idle]
At(r, step) == task[r].step = step

Init ==
  /\ version = [v \in Versions |->
                  IF v = Published THEN [NewDraft EXCEPT !.status = "ACTIVE", !.effective = TRUE]
                  ELSE NoVersion]
  /\ text = [v \in Versions |-> Original]
  /\ chapter = [v \in Versions |-> Unreviewed]
  /\ item = [v \in Versions |-> Pending]
  /\ signed = [v \in Versions |-> Original]
  /\ pinned = [k \in Cases |-> "NONE"]
  /\ accepted = [k \in Cases |-> 0]
  /\ task = [r \in Requests |-> Idle]
-----------------------------------------------------------------------------
(* What chapterSummary reports of a version *)

hasBlockers(v) == \E c \in Chapters : chapter[v][c] = "BLOCKER"
hasChangeRequests(v) == \E c \in Chapters : chapter[v][c] = "CHANGE_REQUESTED"

clearForSignOff(v) ==
  /\ \A c \in Chapters : chapter[v][c] # "NONE"
  /\ ~hasBlockers(v)
  /\ ~hasChangeRequests(v)

derivedState(v) ==
  IF hasBlockers(v) THEN "BLOCKED"
  ELSE IF hasChangeRequests(v) THEN "CHANGES_REQUESTED"
  ELSE IF chapter[v] = Unreviewed THEN "NOT_STARTED" ELSE "UNDER_REVIEW"
-----------------------------------------------------------------------------
(* Drafting and editing *)

\* Bound: a version is left for every clone in progress.
VersionLeft == Cardinality({v \in Versions : version[v].status = "NONE"})
                 > Cardinality({r \in Requests : At(r, "clone")})

\* createDraftVersion: the source is read whole, then cloned in one transaction.
createDraftVersion(r, source) ==
  /\ VersionLeft
  /\ version[source].status # "NONE"
  /\ Begin(r, [step |-> "clone", text |-> text[source]])
  /\ UNCHANGED rows

Clone(r, v) ==
  /\ At(r, "clone")
  /\ version[v].status = "NONE"
  /\ version' = [version EXCEPT ![v] = NewDraft]
  /\ text' = [text EXCEPT ![v] = task[r].text]
  /\ chapter' = [chapter EXCEPT ![v] = Unreviewed]
  /\ item' = [item EXCEPT ![v] = Pending]
  /\ Finish(r)
  /\ UNCHANGED <<signed, pinned, accepted>>

\* updateRuleText: the guard, the text, then the rule's review item.
updateRuleText(r, v, u) ==
  /\ version[v].status = "DRAFT"
  /\ Begin(r, [step |-> "writeText", v |-> v, u |-> u])
  /\ UNCHANGED rows

WriteText(r) ==
  LET v == task[r].v
      u == task[r].u
  IN /\ At(r, "writeText")
     /\ text' = [text EXCEPT ![v][u] = IF @ < MaxEdits THEN @ + 1 ELSE @]
     /\ Continue(r, [step |-> "resetItem", v |-> v, u |-> u])
     /\ UNCHANGED <<version, chapter, item, signed, pinned, accepted>>

ResetItem(r) ==
  /\ At(r, "resetItem")
  /\ item' = [item EXCEPT ![task[r].v][task[r].u].status = "PENDING"]
  /\ Finish(r)
  /\ UNCHANGED <<version, text, chapter, signed, pinned, accepted>>
-----------------------------------------------------------------------------
(* Counsel's review *)

\* recordReview: counsel decides on the text as it is when the item is written.
recordReview(r, v, u, verdict) ==
  /\ version[v].status = "DRAFT"
  /\ Begin(r, [step |-> "writeItem", v |-> v, u |-> u, verdict |-> verdict])
  /\ UNCHANGED rows

WriteItem(r) ==
  LET w == task[r]
  IN /\ At(r, "writeItem")
     /\ item' = [item EXCEPT ![w.v][w.u] = [status |-> w.verdict, of |-> text[w.v][w.u]]]
     /\ Finish(r)
     /\ UNCHANGED <<version, text, chapter, signed, pinned, accepted>>

\* recordChapterReview: the decision, then recomputeReviewState.
recordChapterReview(r, v, c, verdict) ==
  /\ version[v].status = "DRAFT"
  /\ Begin(r, [step |-> "writeChapter", v |-> v, c |-> c, verdict |-> verdict])
  /\ UNCHANGED rows

\* Mutant: the version's review state is not recomputed.
WriteChapterOnly(r) ==
  LET w == task[r]
  IN /\ At(r, "writeChapter")
     /\ chapter' = [chapter EXCEPT ![w.v][w.c] = w.verdict]
     /\ Finish(r)
     /\ UNCHANGED <<version, text, item, signed, pinned, accepted>>

WriteChapter(r) ==
  LET w == task[r]
  IN /\ At(r, "writeChapter")
     /\ chapter' = [chapter EXCEPT ![w.v][w.c] = w.verdict]
     /\ Continue(r, [step |-> "summarise", v |-> w.v])
     /\ UNCHANGED <<version, text, item, signed, pinned, accepted>>

Summarise(r) ==
  LET v == task[r].v
  IN /\ At(r, "summarise")
     /\ Continue(r, [step |-> "readSignOff", v |-> v, state |-> derivedState(v),
                     clear |-> clearForSignOff(v)])
     /\ UNCHANGED rows

\* A version signed off stays APPROVED while it is clear; else the sign-off goes.
ReadSignOff(r) ==
  LET w == task[r]
      wasSigned == version[w.v].signedOff
  IN /\ At(r, "readSignOff")
     /\ Continue(r, [step |-> "writeState", v |-> w.v,
                     state |-> IF wasSigned /\ w.clear THEN "APPROVED" ELSE w.state,
                     revoke |-> wasSigned /\ ~w.clear])
     /\ UNCHANGED rows

WriteState(r) ==
  LET w == task[r]
  IN /\ At(r, "writeState")
     /\ version' = [version EXCEPT ![w.v] =
                      [@ EXCEPT !.reviewState = w.state,
                                !.signedOff = version[w.v].signedOff /\ ~w.revoke]]
     /\ Finish(r)
     /\ UNCHANGED <<text, chapter, item, signed, pinned, accepted>>
-----------------------------------------------------------------------------
(* Sign-off, activation, archiving *)

signOff(r, v) ==
  /\ version[v].status = "DRAFT"
  /\ Begin(r, [step |-> "checkClear", v |-> v])
  /\ UNCHANGED rows

CheckClear(r) ==
  /\ At(r, "checkClear")
  /\ IF clearForSignOff(task[r].v) THEN Continue(r, [step |-> "sign", v |-> task[r].v])
     ELSE Finish(r)
  /\ UNCHANGED rows

Sign(r) ==
  LET v == task[r].v
  IN /\ At(r, "sign")
     /\ version' = [version EXCEPT ![v] = [@ EXCEPT !.reviewState = "APPROVED", !.signedOff = TRUE]]
     /\ signed' = [signed EXCEPT ![v] = text[v]]
     /\ Finish(r)
     /\ UNCHANGED <<text, chapter, item, pinned, accepted>>

\* activateVersion: the version row, the chapters again, then the transaction.
activateVersion(r, v) ==
  /\ version[v].status = "DRAFT"
  /\ version[v].reviewState = "APPROVED"
  /\ version[v].signedOff
  /\ Begin(r, [step |-> "recheck", v |-> v])
  /\ UNCHANGED rows

Recheck(r) ==
  /\ At(r, "recheck")
  /\ IF clearForSignOff(task[r].v) THEN Continue(r, [step |-> "supersede", v |-> task[r].v])
     ELSE Finish(r)
  /\ UNCHANGED rows

InForce == {v \in Versions : version[v].status = "ACTIVE"}

\* The transaction's first statement sees the rows committed when it starts
\* (PostgreSQL's default, READ COMMITTED); what it writes shows at the commit.
Supersede(r) ==
  /\ At(r, "supersede")
  /\ Continue(r, [step |-> "activate", v |-> task[r].v, old |-> InForce])
  /\ UNCHANGED rows

\* The commit: of the versions the first statement found, those still ACTIVE
\* are superseded, and this one becomes ACTIVE.
Activate(r) ==
  LET w == task[r]
  IN /\ At(r, "activate")
     /\ version' = [v \in Versions |->
          IF v = w.v THEN [version[v] EXCEPT !.status = "ACTIVE", !.effective = TRUE]
          ELSE IF v \in w.old \cap InForce THEN [version[v] EXCEPT !.status = "SUPERSEDED"]
          ELSE version[v]]
     /\ Finish(r)
     /\ UNCHANGED <<text, chapter, item, signed, pinned, accepted>>

\* Mutant: the version in force may be archived.
archiveAny(r, v) ==
  /\ version[v].status \notin {"NONE", "ARCHIVED"}
  /\ Begin(r, [step |-> "archive", v |-> v])
  /\ UNCHANGED rows

archiveVersion(r, v) ==
  /\ version[v].status \notin {"NONE", "ACTIVE", "ARCHIVED"}
  /\ Begin(r, [step |-> "archive", v |-> v])
  /\ UNCHANGED rows

Archive(r) ==
  /\ At(r, "archive")
  /\ version' = [version EXCEPT ![task[r].v].status = "ARCHIVED"]
  /\ Finish(r)
  /\ UNCHANGED <<text, chapter, item, signed, pinned, accepted>>
-----------------------------------------------------------------------------
(* Cases *)

\* Mutant: a draft may be applied to a case.
assignDraft(r, k, v) ==
  /\ pinned[k] = "NONE"
  /\ version[v].status # "NONE"
  /\ Begin(r, [step |-> "pin", k |-> k, v |-> v])
  /\ UNCHANGED rows

\* assignToCase: no pin yet, the version exists and is no draft.
assignToCase(r, k, v) ==
  /\ pinned[k] = "NONE"
  /\ version[v].status \notin {"NONE", "DRAFT"}
  /\ Begin(r, [step |-> "pin", k |-> k, v |-> v])
  /\ UNCHANGED rows

\* Mutant: a case pinned meanwhile is pinned again.
PinAgain(r) ==
  /\ At(r, "pin")
  /\ pinned' = [pinned EXCEPT ![task[r].k] = task[r].v]
  /\ Finish(r)
  /\ UNCHANGED <<version, text, chapter, item, signed, accepted>>

\* caseRuleSet.caseId is unique: a second create fails.
Pin(r) ==
  LET k == task[r].k
  IN /\ At(r, "pin")
     /\ pinned' = [pinned EXCEPT ![k] = IF @ = "NONE" THEN task[r].v ELSE @]
     /\ Finish(r)
     /\ UNCHANGED <<version, text, chapter, item, signed, accepted>>

\* acceptRules: the case is pinned and the user has not accepted yet.
acceptRules(r, k) ==
  /\ pinned[k] # "NONE"
  /\ accepted[k] = 0
  /\ Begin(r, [step |-> "accept", k |-> k])
  /\ UNCHANGED rows

AcceptRow(r) ==
  LET k == task[r].k
  IN /\ At(r, "accept")
     /\ accepted' = [accepted EXCEPT ![k] = IF @ < MaxAcceptances THEN @ + 1 ELSE @]
     /\ Finish(r)
     /\ UNCHANGED <<version, text, chapter, item, signed, pinned>>

\* A request that has done part of its work is lost.
Crash(r) ==
  /\ Crashes
  /\ task[r] # Idle
  /\ Finish(r)
  /\ UNCHANGED rows
-----------------------------------------------------------------------------
(* The specification *)

Start(r) ==
  \/ \E v \in Versions :
        \/ createDraftVersion(r, v)
        \/ \E u \in Rules : updateRuleText(r, v, u)
                            \/ \E d \in RuleVerdicts : recordReview(r, v, u, d)
        \/ \E c \in Chapters, d \in ChapterVerdicts : recordChapterReview(r, v, c, d)
        \/ signOff(r, v) \/ activateVersion(r, v) \/ archiveVersion(r, v)
        \/ \E k \in Cases : assignToCase(r, k, v)
  \/ \E k \in Cases : acceptRules(r, k)

Step(r) ==
  \/ \E v \in Versions : Clone(r, v)
  \/ WriteText(r) \/ ResetItem(r) \/ WriteItem(r)
  \/ WriteChapter(r) \/ Summarise(r) \/ ReadSignOff(r) \/ WriteState(r)
  \/ CheckClear(r) \/ Sign(r) \/ Recheck(r) \/ Supersede(r) \/ Activate(r) \/ Archive(r)
  \/ Pin(r) \/ AcceptRow(r)

Next == \E r \in Requests : Start(r) \/ Step(r) \/ Crash(r)

Spec == Init /\ [][Next]_vars
-----------------------------------------------------------------------------
(* Properties *)

TaskOK(w) ==
  \/ w = Idle
  \/ w.step = "clone" /\ w.text \in [Rules -> Nat]
  \/ /\ w.step \in {"summarise", "checkClear", "sign", "recheck", "supersede", "archive"}
     /\ w.v \in Versions
  \/ w.step \in {"writeText", "resetItem"} /\ w.v \in Versions /\ w.u \in Rules
  \/ /\ w.step = "writeItem"
     /\ w.v \in Versions /\ w.u \in Rules /\ w.verdict \in RuleReviewStatus
  \/ /\ w.step = "writeChapter"
     /\ w.v \in Versions /\ w.c \in Chapters /\ w.verdict \in ChapterReviewStatus
  \/ /\ w.step = "readSignOff"
     /\ w.v \in Versions /\ w.state \in VersionReviewState /\ w.clear \in BOOLEAN
  \/ /\ w.step = "writeState"
     /\ w.v \in Versions /\ w.state \in VersionReviewState /\ w.revoke \in BOOLEAN
  \/ w.step = "activate" /\ w.v \in Versions /\ w.old \subseteq Versions
  \/ w.step = "pin" /\ w.k \in Cases /\ w.v \in Versions
  \/ w.step = "accept" /\ w.k \in Cases

\* Every row and every request in progress has the shape the schema gives it.
TypeOK ==
  /\ version \in [Versions -> [status : VersionStatus \cup {"NONE"},
                               reviewState : VersionReviewState,
                               signedOff : BOOLEAN, effective : BOOLEAN]]
  /\ text \in [Versions -> [Rules -> Nat]]
  /\ chapter \in [Versions -> [Chapters -> ChapterReviewStatus \cup {"NONE"}]]
  /\ item \in [Versions -> [Rules -> [status : RuleReviewStatus, of : Nat]]]
  /\ signed \in [Versions -> [Rules -> Nat]]
  /\ pinned \in [Cases -> Versions \cup {"NONE"}]
  /\ accepted \in [Cases -> Nat]
  /\ \A r \in Requests : TaskOK(task[r])

Quiet == \A r \in Requests : task[r] = Idle
Activates(v) == version[v].status # "ACTIVE" /\ version'[v].status = "ACTIVE"

\* activateVersion "supersedes the prior ACTIVE version": the rule set never has
\* two versions in force.
AtMostOneActive ==
  \A v, w \in Versions :
    version[v].status = "ACTIVE" /\ version[w].status = "ACTIVE" => v = w

\* A rule set in use is never left without a version in force: the one in force
\* gives way only to another (archiveVersion: "Activate a replacement first").
SomeVersionActive == \E v \in Versions : version[v].status = "ACTIVE"

\* Between requests a sign-off stands only on chapters that are all still clear:
\* recomputeReviewState revokes it when a blocker or a change is introduced.
SignOffStands ==
  Quiet => \A v \in Versions : version[v].signedOff => clearForSignOff(v)

\* No interleaving applies a draft to a case: what assignToCase read as no draft
\* never becomes one again, so rules still open to editing govern no case.
PinnedIsNoDraft ==
  \A k \in Cases : \A v \in Versions : pinned[k] = v => version[v].status \notin {"NONE", "DRAFT"}

\* assignToCase never re-pins a case, even when two registrars assign at once.
NeverRepinned ==
  [][\A k \in Cases : pinned[k] # "NONE" => pinned'[k] = pinned[k]]_vars

\* Between requests a rule's decision is about the rule's present text:
\* updateRuleText re-opens it, "so a change cannot bypass review".
DecisionIsOfThisText ==
  Quiet => \A v \in Versions, u \in Rules :
             item[v][u].status # "PENDING" => item[v][u].of = text[v][u]

\* A party accepts a case's rules once (acceptRules).
AcceptedOnce == \A k \in Cases : accepted[k] <= 1

\* A version that goes live carries the text counsel signed off.
ActivatedAsSigned ==
  [][\A v \in Versions : Activates(v) => text[v] = signed[v]]_vars
=============================================================================
