-------------------------- MODULE RuleVersionsProofs --------------------------
(***************************************************************************)
(* Theorems about RuleVersions, for every number of versions, rules, cases *)
(* and concurrent requests, with or without crashes; and, where the code   *)
(* keeps a promise only when requests run one at a time, for such runs.    *)
(***************************************************************************)
EXTENDS MCRuleVersions, FiniteSetTheorems, TLAPS

-----------------------------------------------------------------------------
(* The inductive invariant *)

VersionRow == [status : VersionStatus \cup {"NONE"}, reviewState : VersionReviewState,
               signedOff : BOOLEAN, effective : BOOLEAN]

DataOK ==
  /\ version \in [Versions -> VersionRow]
  /\ text \in [Versions -> [Rules -> Nat]]
  /\ chapter \in [Versions -> [Chapters -> ChapterReviewStatus \cup {"NONE"}]]
  /\ item \in [Versions -> [Rules -> [status : RuleReviewStatus, of : Nat]]]
  /\ signed \in [Versions -> [Rules -> Nat]]
  /\ pinned \in [Cases -> Versions \cup {"NONE"}]
  /\ accepted \in [Cases -> Nat]

TasksOK(t) == /\ t = [r \in Requests |-> t[r]]
              /\ \A r \in Requests : TaskOK(t[r])

Beyond(v) == version[v].status \notin {"NONE", "DRAFT"}

\* A request about to pin read a version that was no draft; it still is none.
PinPending == \A r \in Requests : At(r, "pin") => Beyond(task[r].v)

IInv == DataOK /\ TasksOK(task) /\ PinnedIsNoDraft /\ PinPending

\* No version goes back to being a draft.
Advance == \A v \in Versions : Beyond(v) => Beyond(v)'

LEMMA InitIInv == Init => IInv
<1> SUFFICES ASSUME Init PROVE IInv
  OBVIOUS
<1>1. \A v \in Versions : version[v] \in VersionRow
  BY DEF Init, VersionRow, NoVersion, NewDraft, VersionStatus, VersionReviewState
<1>2. version \in [Versions -> VersionRow]
  BY <1>1 DEF Init
<1>3. DataOK
  BY <1>2 DEF Init, DataOK, Original, Unreviewed, Pending, RuleReviewStatus
<1>4. TasksOK(task) /\ PinPending
  BY DEF Init, TasksOK, TaskOK, PinPending, At, Idle
<1>5. PinnedIsNoDraft
  BY NoneAssumption DEF Init, PinnedIsNoDraft, NoneAssumption
<1>6. QED BY <1>3, <1>4, <1>5 DEF IInv

-----------------------------------------------------------------------------
(* One step of one request *)

\* Giving one request a well-formed continuation keeps all requests well-formed.
LEMMA TaskUpdate ==
  ASSUME TasksOK(task), NEW r \in Requests, NEW w, TaskOK(w),
         task' = [task EXCEPT ![r] = w]
  PROVE  /\ TasksOK(task')
         /\ task'[r] = w
         /\ \A q \in Requests \ {r} : task'[q] = task[q]
BY DEF TasksOK

LEMMA IdleOK == TaskOK(Idle) /\ Idle.step = "idle"
BY DEF TaskOK, Idle

\* A step that pins nothing: of the rows, it only has to keep their shape and
\* to take no version back to being a draft.
LEMMA Plain ==
  ASSUME IInv, DataOK', Advance, pinned' = pinned,
         NEW r \in Requests, NEW w, TaskOK(w), w.step # "pin",
         task' = [task EXCEPT ![r] = w]
  PROVE  IInv'
<1>1. /\ TasksOK(task') /\ task'[r] = w
      /\ \A q \in Requests \ {r} : task'[q] = task[q]
  BY TaskUpdate DEF IInv
<1>2. PinnedIsNoDraft'
  BY DEF IInv, PinnedIsNoDraft, Advance, Beyond
<1>3. PinPending'
  <2> SUFFICES ASSUME NEW q \in Requests, task'[q].step = "pin"
               PROVE  Beyond(task[q].v)'
    BY DEF PinPending, At
  <2>1. q # r /\ task'[q] = task[q] /\ At(q, "pin")
    BY <1>1 DEF At
  <2>2. task[q].v \in Versions /\ Beyond(task[q].v)
    BY <2>1 DEF IInv, PinPending, TasksOK, TaskOK, At, Idle
  <2>3. QED BY <2>1, <2>2 DEF Advance, Beyond
<1>4. QED BY <1>1, <1>2, <1>3 DEF IInv

\* A step that only reads.
LEMMA ReadOnly ==
  ASSUME IInv, UNCHANGED rows, NEW r \in Requests, NEW w, TaskOK(w), w.step # "pin",
         task' = [task EXCEPT ![r] = w]
  PROVE  IInv'
<1>1. DataOK' /\ Advance /\ pinned' = pinned
  BY DEF IInv, DataOK, rows, Advance, Beyond
<1>2. QED BY <1>1, Plain

LEMMA StartStep ==
  ASSUME IInv, NEW r \in Requests, Start(r)
  PROVE  IInv'
<1>1. ASSUME NEW v \in Versions, createDraftVersion(r, v)
      PROVE  IInv'
  <2>1. TaskOK([step |-> "clone", text |-> text[v]])
    BY DEF IInv, DataOK, TaskOK
  <2>2. QED BY <1>1, <2>1, ReadOnly DEF createDraftVersion, Begin
<1>2. ASSUME NEW v \in Versions, NEW u \in Rules, updateRuleText(r, v, u)
      PROVE  IInv'
  <2>1. TaskOK([step |-> "writeText", v |-> v, u |-> u])
    BY DEF TaskOK
  <2>2. QED BY <1>2, <2>1, ReadOnly DEF updateRuleText, Begin
<1>3. ASSUME NEW v \in Versions, NEW u \in Rules, NEW d \in RuleVerdicts, recordReview(r, v, u, d)
      PROVE  IInv'
  <2>1. TaskOK([step |-> "writeItem", v |-> v, u |-> u, verdict |-> d])
    BY VerdictsAssumption DEF VerdictsAssumption, TaskOK
  <2>2. QED BY <1>3, <2>1, ReadOnly DEF recordReview, Begin
<1>4. ASSUME NEW v \in Versions, NEW c \in Chapters, NEW d \in ChapterVerdicts,
             recordChapterReview(r, v, c, d)
      PROVE  IInv'
  <2>1. TaskOK([step |-> "writeChapter", v |-> v, c |-> c, verdict |-> d])
    BY VerdictsAssumption DEF VerdictsAssumption, TaskOK
  <2>2. QED BY <1>4, <2>1, ReadOnly DEF recordChapterReview, Begin
<1>5. ASSUME NEW v \in Versions, signOff(r, v) \/ activateVersion(r, v) \/ archiveVersion(r, v)
      PROVE  IInv'
  <2>1. \A step \in {"checkClear", "recheck", "archive"} : TaskOK([step |-> step, v |-> v])
    BY DEF TaskOK
  <2>2. QED BY <1>5, <2>1, ReadOnly DEF signOff, activateVersion, archiveVersion, Begin
<1>6. ASSUME NEW v \in Versions, NEW k \in Cases, assignToCase(r, k, v)
      PROVE  IInv'
  <2> DEFINE w == [step |-> "pin", k |-> k, v |-> v]
  <2>1. TaskOK(w) BY DEF TaskOK
  <2>2. task' = [task EXCEPT ![r] = w] /\ UNCHANGED rows /\ Beyond(v)
    BY <1>6 DEF assignToCase, Begin, Beyond
  <2>3. w.v = v OBVIOUS
  <2> HIDE DEF w
  <2>4. /\ TasksOK(task') /\ task'[r] = w
        /\ \A q \in Requests \ {r} : task'[q] = task[q]
    BY <2>1, <2>2, TaskUpdate DEF IInv
  <2>5. PinPending'
    BY <2>2, <2>3, <2>4 DEF IInv, PinPending, At, Beyond, rows
  <2>6. DataOK' /\ PinnedIsNoDraft'
    BY <2>2 DEF IInv, DataOK, PinnedIsNoDraft, rows
  <2>7. QED BY <2>4, <2>5, <2>6 DEF IInv
<1>7. ASSUME NEW k \in Cases, acceptRules(r, k)
      PROVE  IInv'
  <2>1. TaskOK([step |-> "accept", k |-> k]) BY DEF TaskOK
  <2>2. QED BY <1>7, <2>1, ReadOnly DEF acceptRules, Begin
<1>8. QED BY <1>1, <1>2, <1>3, <1>4, <1>5, <1>6, <1>7 DEF Start

\* Steps that read, and steps that write rows other than versions and pins.
LEMMA ReadStep ==
  ASSUME IInv, NEW r \in Requests,
         \/ Summarise(r) \/ ReadSignOff(r) \/ CheckClear(r) \/ Recheck(r) \/ Supersede(r)
         \/ Crash(r)
  PROVE  IInv'
<1> DEFINE old == task[r]
<1>0. TaskOK(old) BY DEF IInv, TasksOK
<1>1. CASE Summarise(r)
  <2>1. old.v \in Versions BY <1>0, <1>1 DEF Summarise, At, TaskOK, Idle
  <2>2. TaskOK([step |-> "readSignOff", v |-> old.v, state |-> derivedState(old.v),
                clear |-> clearForSignOff(old.v)])
    BY <2>1 DEF TaskOK, derivedState, clearForSignOff, VersionReviewState
  <2>3. QED BY <1>1, <2>2, ReadOnly DEF Summarise, Continue
<1>2. CASE ReadSignOff(r)
  <2> DEFINE signedOff == version[old.v].signedOff
             w == [step |-> "writeState", v |-> old.v,
                   state |-> IF signedOff /\ old.clear THEN "APPROVED" ELSE old.state,
                   revoke |-> signedOff /\ ~old.clear]
  <2>1. old.v \in Versions /\ old.state \in VersionReviewState
    BY <1>0, <1>2 DEF ReadSignOff, At, TaskOK, Idle
  <2>2. TaskOK(w) BY <2>1 DEF TaskOK, VersionReviewState
  <2>3. w.step # "pin" /\ task' = [task EXCEPT ![r] = w] /\ UNCHANGED rows
    BY <1>2 DEF ReadSignOff, Continue
  <2> HIDE DEF w
  <2>4. QED BY <2>2, <2>3, ReadOnly
<1>3. CASE CheckClear(r)
  <2>1. old.v \in Versions BY <1>0, <1>3 DEF CheckClear, At, TaskOK, Idle
  <2>2. TaskOK([step |-> "sign", v |-> old.v]) BY <2>1 DEF TaskOK
  <2>3. QED BY <1>3, <2>2, IdleOK, ReadOnly DEF CheckClear, Continue, Finish
<1>4. CASE Recheck(r)
  <2>1. old.v \in Versions BY <1>0, <1>4 DEF Recheck, At, TaskOK, Idle
  <2>2. TaskOK([step |-> "supersede", v |-> old.v]) BY <2>1 DEF TaskOK
  <2>3. QED BY <1>4, <2>2, IdleOK, ReadOnly DEF Recheck, Continue, Finish
<1>5. CASE Supersede(r)
  <2>1. old.v \in Versions BY <1>0, <1>5 DEF Supersede, At, TaskOK, Idle
  <2>2. TaskOK([step |-> "activate", v |-> old.v, old |-> InForce])
    BY <2>1 DEF TaskOK, InForce
  <2>3. QED BY <1>5, <2>2, ReadOnly DEF Supersede, Continue
<1>6. CASE Crash(r)
  BY <1>6, IdleOK, ReadOnly DEF Crash, Finish
<1>7. QED BY <1>1, <1>2, <1>3, <1>4, <1>5, <1>6

\* A version row is rewritten, or several are, and none becomes a draft again.
LEMMA RowRewrite ==
  ASSUME NEW row \in VersionRow, NEW state \in VersionReviewState, NEW signedOff \in BOOLEAN
  PROVE  /\ [row EXCEPT !.reviewState = state, !.signedOff = signedOff] \in VersionRow
         /\ [row EXCEPT !.reviewState = state, !.signedOff = signedOff].status = row.status
BY DEF VersionRow

LEMMA StatusRewrite ==
  ASSUME NEW row \in VersionRow, NEW s \in VersionStatus, NEW new,
         \/ new = [row EXCEPT !.status = s]
         \/ new = [row EXCEPT !.status = s, !.effective = TRUE]
  PROVE  new \in VersionRow /\ new.status = s
BY DEF VersionRow

\* Sign-off and the recomputed review state leave the status alone.
LEMMA ReviewStateStep ==
  ASSUME IInv, NEW r \in Requests, WriteState(r) \/ Sign(r)
  PROVE  IInv'
<1>1. PICK v \in Versions, state \in VersionReviewState, signedOff \in BOOLEAN :
        /\ version' = [version EXCEPT ![v] = [version[v] EXCEPT !.reviewState = state,
                                                                !.signedOff = signedOff]]
        /\ signed' = signed \/ signed' = [signed EXCEPT ![v] = text[v]]
        /\ Finish(r)
        /\ UNCHANGED <<text, chapter, item, pinned, accepted>>
  <2>1. TaskOK(task[r]) BY DEF IInv, TasksOK
  <2>2. CASE WriteState(r)
    <3> DEFINE w == task[r]
    <3>1. /\ w.v \in Versions /\ w.state \in VersionReviewState
          /\ (version[w.v].signedOff /\ ~w.revoke) \in BOOLEAN
      BY <2>1, <2>2 DEF WriteState, At, TaskOK, Idle
    <3>2. version' = [version EXCEPT ![w.v] =
            [version[w.v] EXCEPT !.reviewState = w.state,
                                 !.signedOff = version[w.v].signedOff /\ ~w.revoke]]
      BY <2>2, <3>1 DEF WriteState, IInv, DataOK, VersionRow
    <3>3. QED BY <2>2, <3>1, <3>2 DEF WriteState
  <2>3. CASE Sign(r)
    <3>1. task[r].v \in Versions /\ "APPROVED" \in VersionReviewState
      BY <2>1, <2>3 DEF Sign, At, TaskOK, Idle, VersionReviewState
    <3>2. QED BY <2>3, <3>1 DEF Sign, IInv, DataOK
  <2>4. QED BY <2>2, <2>3
<1>2. \A x \in Versions : version[x] \in VersionRow BY DEF IInv, DataOK
<1>3. \A x \in Versions : version'[x] \in VersionRow /\ version'[x].status = version[x].status
  BY <1>1, <1>2, RowRewrite DEF IInv, DataOK
<1>4. version' \in [Versions -> VersionRow]
  BY <1>1, <1>3 DEF IInv, DataOK
<1>5. DataOK' BY <1>1, <1>4 DEF IInv, DataOK
<1>6. Advance /\ pinned' = pinned BY <1>1, <1>3 DEF Advance, Beyond
<1>7. QED BY <1>1, <1>5, <1>6, IdleOK, Plain DEF Finish

\* Activation and archiving move versions on, never back.
LEMMA StatusStep ==
  ASSUME IInv, NEW r \in Requests, Activate(r) \/ Archive(r)
  PROVE  IInv'
<1>0. /\ \A x \in Versions : version[x] \in VersionRow
      /\ TaskOK(task[r])
      /\ {"ACTIVE", "SUPERSEDED", "ARCHIVED"} \subseteq VersionStatus
  BY DEF IInv, DataOK, TasksOK, VersionStatus
<1>1. \A x \in Versions : version'[x] \in VersionRow /\ (Beyond(x) => Beyond(x)')
  <2> SUFFICES ASSUME NEW x \in Versions, NEW row \in VersionRow, row = version[x],
                      NEW new, new = version'[x]
               PROVE  \/ new = row
                      \/ new \in VersionRow /\ new.status \in {"ACTIVE", "SUPERSEDED", "ARCHIVED"}
    BY <1>0 DEF Beyond
  <2>1. CASE Activate(r)
    <3>1. \/ new = [row EXCEPT !.status = "ACTIVE", !.effective = TRUE]
          \/ new = [row EXCEPT !.status = "SUPERSEDED"]
          \/ new = row
      BY <2>1 DEF Activate
    <3>2. QED BY <1>0, <3>1, StatusRewrite
  <2>2. CASE Archive(r)
    <3>1. task[r].v \in Versions BY <1>0, <2>2 DEF Archive, At, TaskOK, Idle
    <3>2. new = row \/ new = [row EXCEPT !.status = "ARCHIVED"]
      BY <2>2, <3>1 DEF Archive, IInv, DataOK
    <3>3. QED BY <1>0, <3>2, StatusRewrite
  <2>3. QED BY <2>1, <2>2
<1>2. version' \in [Versions -> VersionRow]
  BY <1>1 DEF Activate, Archive, IInv, DataOK
<1>3. /\ Finish(r) /\ pinned' = pinned
      /\ UNCHANGED <<text, chapter, item, signed, accepted>>
  BY DEF Activate, Archive
<1>4. DataOK' BY <1>2, <1>3 DEF IInv, DataOK
<1>5. QED BY <1>1, <1>3, <1>4, IdleOK, Plain DEF Advance, Finish

\* A clone takes a version that did not exist.
LEMMA CloneStep ==
  ASSUME IInv, NEW r \in Requests, NEW v \in Versions, Clone(r, v)
  PROVE  IInv'
<1>1. task[r].text \in [Rules -> Nat]
  BY DEF Clone, IInv, TasksOK, TaskOK, At, Idle
<1>2. NewDraft \in VersionRow
  BY DEF NewDraft, NoVersion, VersionRow, VersionStatus, VersionReviewState
<1>3. Pending \in [Rules -> [status : RuleReviewStatus, of : Nat]]
      /\ Unreviewed \in [Chapters -> ChapterReviewStatus \cup {"NONE"}]
  BY DEF Pending, Unreviewed, RuleReviewStatus
<1>4. DataOK' BY <1>1, <1>2, <1>3 DEF Clone, IInv, DataOK
<1>5. Advance /\ pinned' = pinned
  BY DEF Clone, Advance, Beyond, IInv, DataOK
<1>6. QED BY <1>4, <1>5, IdleOK, Plain DEF Clone, Finish

\* Texts, review items, chapter decisions and acceptances.
LEMMA RowStep ==
  ASSUME IInv, NEW r \in Requests,
         WriteText(r) \/ ResetItem(r) \/ WriteItem(r) \/ WriteChapter(r) \/ AcceptRow(r)
  PROVE  IInv'
<1> DEFINE old == task[r]
<1>0. TaskOK(old) BY DEF IInv, TasksOK
<1>1. Advance /\ pinned' = pinned
  BY DEF WriteText, ResetItem, WriteItem, WriteChapter, AcceptRow, Advance, Beyond
<1>2. CASE WriteText(r)
  <2>1. old.v \in Versions /\ old.u \in Rules BY <1>0, <1>2 DEF WriteText, At, TaskOK, Idle
  <2>2. text' \in [Versions -> [Rules -> Nat]] BY <1>2, <2>1 DEF WriteText, IInv, DataOK
  <2>3. DataOK' BY <1>2, <2>2 DEF WriteText, IInv, DataOK
  <2>4. TaskOK([step |-> "resetItem", v |-> old.v, u |-> old.u]) BY <2>1 DEF TaskOK
  <2>5. QED BY <1>1, <1>2, <2>3, <2>4, Plain DEF WriteText, Continue
<1>3. CASE ResetItem(r)
  <2>1. old.v \in Versions /\ old.u \in Rules BY <1>0, <1>3 DEF ResetItem, At, TaskOK, Idle
  <2>2. \A row \in [status : RuleReviewStatus, of : Nat] :
           [row EXCEPT !.status = "PENDING"] \in [status : RuleReviewStatus, of : Nat]
    BY DEF RuleReviewStatus
  <2>3. item' \in [Versions -> [Rules -> [status : RuleReviewStatus, of : Nat]]]
    BY <1>3, <2>1, <2>2 DEF ResetItem, IInv, DataOK
  <2>4. DataOK' BY <1>3, <2>3 DEF ResetItem, IInv, DataOK
  <2>5. QED BY <1>1, <1>3, <2>4, IdleOK, Plain DEF ResetItem, Finish
<1>4. CASE WriteItem(r)
  <2>1. old.v \in Versions /\ old.u \in Rules /\ old.verdict \in RuleReviewStatus
    BY <1>0, <1>4 DEF WriteItem, At, TaskOK, Idle
  <2>2. item' \in [Versions -> [Rules -> [status : RuleReviewStatus, of : Nat]]]
    BY <1>4, <2>1 DEF WriteItem, IInv, DataOK
  <2>3. DataOK' BY <1>4, <2>2 DEF WriteItem, IInv, DataOK
  <2>4. QED BY <1>1, <1>4, <2>3, IdleOK, Plain DEF WriteItem, Finish
<1>5. CASE WriteChapter(r)
  <2>1. old.v \in Versions /\ old.c \in Chapters /\ old.verdict \in ChapterReviewStatus
    BY <1>0, <1>5 DEF WriteChapter, At, TaskOK, Idle
  <2>2. chapter' \in [Versions -> [Chapters -> ChapterReviewStatus \cup {"NONE"}]]
    BY <1>5, <2>1 DEF WriteChapter, IInv, DataOK
  <2>3. DataOK' BY <1>5, <2>2 DEF WriteChapter, IInv, DataOK
  <2>4. TaskOK([step |-> "summarise", v |-> old.v]) BY <2>1 DEF TaskOK
  <2>5. QED BY <1>1, <1>5, <2>3, <2>4, Plain DEF WriteChapter, Continue
<1>6. CASE AcceptRow(r)
  <2>1. old.k \in Cases BY <1>0, <1>6 DEF AcceptRow, At, TaskOK, Idle
  <2>2. accepted' \in [Cases -> Nat] BY <1>6, <2>1 DEF AcceptRow, IInv, DataOK
  <2>3. DataOK' BY <1>6, <2>2 DEF AcceptRow, IInv, DataOK
  <2>4. QED BY <1>1, <1>6, <2>3, IdleOK, Plain DEF AcceptRow, Finish
<1>7. QED BY <1>2, <1>3, <1>4, <1>5, <1>6

\* The pin is written, unless the case was pinned meanwhile.
LEMMA PinStep ==
  ASSUME IInv, NEW r \in Requests, Pin(r)
  PROVE  IInv'
<1>1. task[r].k \in Cases /\ task[r].v \in Versions /\ Beyond(task[r].v)
  BY DEF Pin, IInv, TasksOK, TaskOK, PinPending, At, Idle
<1>2. \A k \in Cases : pinned'[k] =
        IF k = task[r].k /\ pinned[k] = "NONE" THEN task[r].v ELSE pinned[k]
  BY <1>1 DEF Pin, IInv, DataOK
<1>3. DataOK' BY <1>1, <1>2 DEF Pin, IInv, DataOK
<1>4. PinnedIsNoDraft'
  BY <1>1, <1>2 DEF Pin, IInv, PinnedIsNoDraft, Beyond
<1>5. /\ TasksOK(task') /\ task'[r] = Idle
      /\ \A q \in Requests \ {r} : task'[q] = task[q]
  BY IdleOK, TaskUpdate DEF Pin, Finish, IInv
<1>6. PinPending'
  BY <1>5, IdleOK DEF IInv, Pin, PinPending, At, Beyond
<1>7. QED BY <1>3, <1>4, <1>5, <1>6 DEF IInv

-----------------------------------------------------------------------------
(* The theorems *)

LEMMA NextIInv == IInv /\ [Next]_vars => IInv'
<1> SUFFICES ASSUME IInv, [Next]_vars PROVE IInv'
  OBVIOUS
<1>1. ASSUME NEW r \in Requests, Start(r) PROVE IInv'
  BY <1>1, StartStep
<1>2. ASSUME NEW r \in Requests, Step(r) PROVE IInv'
  BY <1>2, CloneStep, RowStep, ReadStep, ReviewStateStep, StatusStep, PinStep DEF Step
<1>3. ASSUME NEW r \in Requests, Crash(r) PROVE IInv'
  BY <1>3, ReadStep
<1>4. CASE UNCHANGED vars
  BY <1>4 DEF vars, IInv, DataOK, TasksOK, PinnedIsNoDraft, PinPending, Beyond, At
<1>5. QED BY <1>1, <1>2, <1>3, <1>4 DEF Next

\* The inductive invariant of the rule-version handlers.
THEOREM Invariance == Spec => []IInv
BY InitIInv, NextIInv, PTL DEF Spec

\* Rows and requests keep the shape the schema gives them.
THEOREM TypeCorrect == Spec => []TypeOK
<1>1. IInv => TypeOK
  BY DEF IInv, DataOK, TasksOK, TypeOK, VersionRow
<1>2. QED BY <1>1, Invariance, PTL

\* No case is ever governed by a draft, whatever registrars, counsel and
\* administrators do at the same time.
THEOREM NoDraftGoverns == Spec => []PinnedIsNoDraft
<1>1. IInv => PinnedIsNoDraft BY DEF IInv
<1>2. QED BY <1>1, Invariance, PTL
-----------------------------------------------------------------------------
(* One request at a time.  Then what a request has read still holds when it *)
(* writes, and only the one at work may have left the review state of a     *)
(* version, or the review item of a rule, behind.                           *)

OneAtWork == \A r, q \in Requests : r = q \/ task[r] = Idle \/ task[q] = Idle

\* What the request that is at step w may rely on.
Current(w) ==
  /\ w.step = "writeText" => version[w.v].status = "DRAFT"
  /\ w.step = "readSignOff" => (w.clear <=> clearForSignOff(w.v))
  /\ w.step = "writeState" => (w.revoke <=> version[w.v].signedOff /\ ~clearForSignOff(w.v))
  /\ w.step \in {"sign", "supersede", "activate"} => clearForSignOff(w.v)
  /\ w.step \in {"recheck", "supersede", "activate"} => version[w.v].signedOff
  /\ w.step = "activate" => w.old = InForce
  /\ w.step = "archive" => version[w.v].status # "ACTIVE"
  /\ w.step = "accept" => accepted[w.k] = 0

\* What that request still puts right.
Recomputes(w, v) == w.step \in {"summarise", "readSignOff", "writeState"} /\ w.v = v
Reopens(w, v, u) == w.step = "resetItem" /\ w.v = v /\ w.u = u

SignOffsFollow(w) == \A v \in Versions : version[v].signedOff => clearForSignOff(v) \/ Recomputes(w, v)
DecisionsFollow(w) ==
  \A v \in Versions, u \in Rules :
    item[v][u].status # "PENDING" => item[v][u].of = text[v][u] \/ Reopens(w, v, u)

Good(w) ==
  /\ Current(w) /\ SignOffsFollow(w) /\ DecisionsFollow(w)
  /\ AtMostOneActive /\ SomeVersionActive /\ AcceptedOnce

SerialInv ==
  /\ OneAtWork /\ (Quiet => Good(Idle))
  /\ \A r \in Requests : task[r] # Idle => Good(task[r])

\* A step of the only request at work, from o to w.
LEMMA StepsOn ==
  ASSUME IInv, SerialInv, OneAtWork', NEW r \in Requests, NEW o, o = task[r],
         NEW w, task' = [task EXCEPT ![r] = w], o # Idle \/ w # Idle, Good(o) => Good(w)'
  PROVE  SerialInv'
<1>1. task'[r] = w /\ \A q \in Requests \ {r} : task'[q] = task[q]
  BY DEF IInv, TasksOK
<1>2. \A q \in Requests \ {r} : task[q] = Idle /\ task'[q] = Idle
  BY <1>1 DEF SerialInv, OneAtWork
<1>3. Good(o)
  <2>1. CASE o = Idle
    <3>1. Quiet
      BY <1>2, <2>1 DEF Quiet
    <3>2. QED BY <2>1, <3>1 DEF SerialInv
  <2>2. CASE o # Idle
    BY <2>2 DEF SerialInv
  <2>3. QED BY <2>1, <2>2
<1>4. Good(w)'
  BY <1>3
<1>5. (\A q \in Requests : task[q] # Idle => Good(task[q]))'
  <2>1. SUFFICES ASSUME NEW q \in Requests, task'[q] # Idle
                 PROVE  Good(task[q])'
    OBVIOUS
  <2>2. q = r /\ task'[q] = w
    BY <1>1, <1>2, <2>1
  <2>3. QED BY <1>4, <2>2
<1>6. (Quiet => Good(Idle))'
  <2>1. SUFFICES ASSUME Quiet'
                 PROVE  Good(Idle)'
    OBVIOUS
  <2>2. w = Idle
    BY <1>1, <2>1 DEF Quiet
  <2>3. QED BY <1>4, <2>2 DEF Idle
<1>7. QED BY <1>5, <1>6 DEF SerialInv

\* A step that writes no row keeps what o relied on, if w is owed as much.
LEMMA ReadsOn ==
  ASSUME UNCHANGED rows, NEW o, NEW w, Good(o), Current(w),
         \A v \in Versions : Recomputes(o, v) => Recomputes(w, v),
         \A v \in Versions, u \in Rules : Reopens(o, v, u) => Reopens(w, v, u)
  PROVE  Good(w)'
<1>1. /\ version' = version /\ text' = text /\ chapter' = chapter /\ item' = item /\ accepted' = accepted
  BY DEF rows
<1>2. \A v : clearForSignOff(v)' <=> clearForSignOff(v)
  BY <1>1 DEF clearForSignOff, hasBlockers, hasChangeRequests
<1>3. Current(w)'
  BY <1>1, <1>2 DEF Current, InForce
<1>4. SignOffsFollow(w)' /\ DecisionsFollow(w)'
  BY <1>1, <1>2 DEF Good, SignOffsFollow, DecisionsFollow
<1>5. (AtMostOneActive /\ SomeVersionActive /\ AcceptedOnce)'
  BY <1>1 DEF Good, AtMostOneActive, SomeVersionActive, AcceptedOnce
<1>6. QED BY <1>3, <1>4, <1>5 DEF Good

\* A request that begins relies on its guard.
LEMMA Begins ==
  ASSUME IInv, SerialInv, OneAtWork', NEW r \in Requests, NEW w, task[r] = Idle, w # Idle,
         task' = [task EXCEPT ![r] = w], UNCHANGED rows, Current(w)
  PROVE  SerialInv'
<1>1. PICK o : o = Idle /\ o = task[r]
  OBVIOUS
<1>2. /\ \A v \in Versions : ~Recomputes(o, v)
      /\ \A v \in Versions, u \in Rules : ~Reopens(o, v, u)
  BY <1>1 DEF Recomputes, Reopens, Idle
<1>3. Good(o) => Good(w)'
  BY <1>2, ReadsOn
<1>4. QED BY <1>1, <1>3, StepsOn

LEMMA SerialStart ==
  ASSUME IInv, SerialInv, OneAtWork', NEW r \in Requests, Start(r)
  PROVE  SerialInv'
<1>1. \A w : w.step \in {"clone", "writeItem", "writeChapter", "checkClear", "pin"} => Current(w) /\ w # Idle
  BY DEF Current, Idle
<1>2. \E w : task[r] = Idle /\ w # Idle /\ task' = [task EXCEPT ![r] = w] /\ UNCHANGED rows /\ Current(w)
  <2>0. ASSUME NEW v \in Versions, createDraftVersion(r, v)
        PROVE  \E w : task[r] = Idle /\ w # Idle /\ task' = [task EXCEPT ![r] = w] /\ UNCHANGED rows /\ Current(w)
    <3>1. PICK w : w = [step |-> "clone", text |-> text[v]]
      OBVIOUS
    <3>2. Current(w) /\ w # Idle
      BY <1>1, <3>1
    <3>3. QED BY <2>0, <3>1, <3>2 DEF createDraftVersion, Begin
  <2>1. ASSUME NEW v \in Versions, signOff(r, v)
        PROVE  \E w : task[r] = Idle /\ w # Idle /\ task' = [task EXCEPT ![r] = w] /\ UNCHANGED rows /\ Current(w)
    <3>1. PICK w : w = [step |-> "checkClear", v |-> v]
      OBVIOUS
    <3>2. Current(w) /\ w # Idle
      BY <1>1, <3>1
    <3>3. QED BY <2>1, <3>1, <3>2 DEF signOff, Begin
  <2>2. ASSUME NEW v \in Versions, NEW u \in Rules, updateRuleText(r, v, u)
        PROVE  \E w : task[r] = Idle /\ w # Idle /\ task' = [task EXCEPT ![r] = w] /\ UNCHANGED rows /\ Current(w)
    <3>1. PICK w : w = [step |-> "writeText", v |-> v, u |-> u]
      OBVIOUS
    <3>2. Current(w) /\ w # Idle
      BY <2>2, <3>1 DEF Current, Idle, updateRuleText
    <3>3. QED BY <2>2, <3>1, <3>2 DEF updateRuleText, Begin
  <2>3. ASSUME NEW v \in Versions, NEW u \in Rules, NEW d \in RuleVerdicts, recordReview(r, v, u, d)
        PROVE  \E w : task[r] = Idle /\ w # Idle /\ task' = [task EXCEPT ![r] = w] /\ UNCHANGED rows /\ Current(w)
    <3>1. PICK w : w = [step |-> "writeItem", v |-> v, u |-> u, verdict |-> d]
      OBVIOUS
    <3>2. Current(w) /\ w # Idle
      BY <1>1, <3>1
    <3>3. QED BY <2>3, <3>1, <3>2 DEF recordReview, Begin
  <2>4. ASSUME NEW v \in Versions, NEW c \in Chapters, NEW d \in ChapterVerdicts, recordChapterReview(r, v, c, d)
        PROVE  \E w : task[r] = Idle /\ w # Idle /\ task' = [task EXCEPT ![r] = w] /\ UNCHANGED rows /\ Current(w)
    <3>1. PICK w : w = [step |-> "writeChapter", v |-> v, c |-> c, verdict |-> d]
      OBVIOUS
    <3>2. Current(w) /\ w # Idle
      BY <1>1, <3>1
    <3>3. QED BY <2>4, <3>1, <3>2 DEF recordChapterReview, Begin
  <2>5. ASSUME NEW v \in Versions, activateVersion(r, v)
        PROVE  \E w : task[r] = Idle /\ w # Idle /\ task' = [task EXCEPT ![r] = w] /\ UNCHANGED rows /\ Current(w)
    <3>1. PICK w : w = [step |-> "recheck", v |-> v]
      OBVIOUS
    <3>2. Current(w) /\ w # Idle
      BY <2>5, <3>1 DEF Current, Idle, activateVersion
    <3>3. QED BY <2>5, <3>1, <3>2 DEF activateVersion, Begin
  <2>6. ASSUME NEW v \in Versions, archiveVersion(r, v)
        PROVE  \E w : task[r] = Idle /\ w # Idle /\ task' = [task EXCEPT ![r] = w] /\ UNCHANGED rows /\ Current(w)
    <3>1. PICK w : w = [step |-> "archive", v |-> v]
      OBVIOUS
    <3>2. Current(w) /\ w # Idle
      BY <2>6, <3>1 DEF Current, Idle, archiveVersion
    <3>3. QED BY <2>6, <3>1, <3>2 DEF archiveVersion, Begin
  <2>7. ASSUME NEW v \in Versions, NEW k \in Cases, assignToCase(r, k, v)
        PROVE  \E w : task[r] = Idle /\ w # Idle /\ task' = [task EXCEPT ![r] = w] /\ UNCHANGED rows /\ Current(w)
    <3>1. PICK w : w = [step |-> "pin", k |-> k, v |-> v]
      OBVIOUS
    <3>2. Current(w) /\ w # Idle
      BY <1>1, <3>1
    <3>3. QED BY <2>7, <3>1, <3>2 DEF assignToCase, Begin
  <2>8. ASSUME NEW k \in Cases, acceptRules(r, k)
        PROVE  \E w : task[r] = Idle /\ w # Idle /\ task' = [task EXCEPT ![r] = w] /\ UNCHANGED rows /\ Current(w)
    <3>1. PICK w : w = [step |-> "accept", k |-> k]
      OBVIOUS
    <3>2. Current(w) /\ w # Idle
      BY <2>8, <3>1 DEF Current, Idle, acceptRules
    <3>3. QED BY <2>8, <3>1, <3>2 DEF acceptRules, Begin
  <2>9. QED BY <2>0, <2>1, <2>2, <2>3, <2>4, <2>5, <2>6, <2>7, <2>8 DEF Start
<1>3. QED BY <1>2, Begins
-----------------------------------------------------------------------------
(* The steps of the request at work *)

LEMMA Versioned ==
  ASSUME IInv
  PROVE  /\ \A v \in Versions : version[v] \in VersionRow /\ version[v].signedOff \in BOOLEAN
         /\ \A r \in Requests : TaskOK(task[r])
         /\ TaskOK(Idle) /\ Idle.step = "idle"
BY IdleOK DEF IInv, DataOK, TasksOK, VersionRow

\* Steps that write no version row leave who is in force as it is.
LEMMA SameForce ==
  ASSUME version' = version
  PROVE  /\ InForce' = InForce /\ (AtMostOneActive' <=> AtMostOneActive) /\ (SomeVersionActive' <=> SomeVersionActive)
BY DEF InForce, AtMostOneActive, SomeVersionActive

LEMMA SerialReads ==
  ASSUME IInv, SerialInv, OneAtWork', NEW r \in Requests,
         Summarise(r) \/ ReadSignOff(r) \/ CheckClear(r) \/ Recheck(r) \/ Supersede(r)
  PROVE  SerialInv'
<1>1. PICK o : o = task[r] /\ TaskOK(o) /\ o # Idle
  BY Versioned DEF Summarise, ReadSignOff, CheckClear, Recheck, Supersede, At, Idle
<1>2. UNCHANGED rows
  BY DEF Summarise, ReadSignOff, CheckClear, Recheck, Supersede
<1>3. CASE Summarise(r)
  <2>1. o.step = "summarise" /\ o.v \in Versions
    BY <1>1, <1>3 DEF Summarise, At, TaskOK, Idle
  <2>2. PICK w : w = [step |-> "readSignOff", v |-> o.v, state |-> derivedState(o.v), clear |-> clearForSignOff(o.v)]
    OBVIOUS
  <2>3. task' = [task EXCEPT ![r] = w]
    BY <1>1, <1>3, <2>2 DEF Summarise, Continue
  <2>4. Current(w)
    BY <2>2 DEF Current
  <2>5. /\ \A v \in Versions : Recomputes(o, v) => Recomputes(w, v)
        /\ \A v \in Versions, u \in Rules : Reopens(o, v, u) => Reopens(w, v, u)
    BY <2>1, <2>2 DEF Recomputes, Reopens
  <2>6. Good(o) => Good(w)'
    BY <1>2, <2>4, <2>5, ReadsOn
  <2>7. QED BY <1>1, <2>3, <2>6, StepsOn
<1>4. CASE ReadSignOff(r)
  <2>1. o.step = "readSignOff" /\ o.v \in Versions
    BY <1>1, <1>4 DEF ReadSignOff, At, TaskOK, Idle
  <2>2. PICK w : w = [step |-> "writeState", v |-> o.v,
                      state |-> IF version[o.v].signedOff /\ o.clear THEN "APPROVED" ELSE o.state,
                      revoke |-> version[o.v].signedOff /\ ~o.clear]
    OBVIOUS
  <2>3. task' = [task EXCEPT ![r] = w]
    BY <1>1, <1>4, <2>2 DEF ReadSignOff, Continue
  <2>4. w.step = "writeState" /\ w.v = o.v /\ (w.revoke <=> version[o.v].signedOff /\ ~o.clear)
    BY <2>2
  <2>5. Good(o) => Current(w)
    BY <2>1, <2>4 DEF Good, Current
  <2>6. /\ \A v \in Versions : Recomputes(o, v) => Recomputes(w, v)
        /\ \A v \in Versions, u \in Rules : Reopens(o, v, u) => Reopens(w, v, u)
    BY <2>1, <2>4 DEF Recomputes, Reopens
  <2>7. Good(o) => Good(w)'
    BY <1>2, <2>5, <2>6, ReadsOn
  <2>8. QED BY <1>1, <2>3, <2>7, StepsOn
<1>5. CASE CheckClear(r) \/ Recheck(r)
  <2>1. /\ o.v \in Versions
        /\ o.step = IF CheckClear(r) THEN "checkClear" ELSE "recheck"
    BY <1>1, <1>5 DEF CheckClear, Recheck, At, TaskOK, Idle
  <2>2. PICK w : /\ task' = [task EXCEPT ![r] = w]
                 /\ w = Idle \/ (clearForSignOff(o.v) /\ w = [step |-> IF CheckClear(r) THEN "sign" ELSE "supersede", v |-> o.v])
    BY <1>1, <1>5 DEF CheckClear, Recheck, Continue, Finish, At
  <2>3. Good(o) => Current(w)
    BY <2>1, <2>2 DEF Good, Current, Idle
  <2>4. /\ \A v \in Versions : ~Recomputes(o, v)
        /\ \A v \in Versions, u \in Rules : ~Reopens(o, v, u)
    BY <2>1 DEF Recomputes, Reopens
  <2>5. Good(o) => Good(w)'
    BY <1>2, <2>3, <2>4, ReadsOn
  <2>6. QED BY <1>1, <2>2, <2>5, StepsOn
<1>6. CASE Supersede(r)
  <2>1. o.step = "supersede" /\ o.v \in Versions
    BY <1>1, <1>6 DEF Supersede, At, TaskOK, Idle
  <2>2. PICK w : w = [step |-> "activate", v |-> o.v, old |-> InForce]
    OBVIOUS
  <2>3. task' = [task EXCEPT ![r] = w]
    BY <1>1, <1>6, <2>2 DEF Supersede, Continue
  <2>4. w.step = "activate" /\ w.v = o.v /\ w.old = InForce
    BY <2>2
  <2>5. Good(o) => Current(w)
    BY <2>1, <2>4 DEF Good, Current
  <2>6. /\ \A v \in Versions : ~Recomputes(o, v)
        /\ \A v \in Versions, u \in Rules : ~Reopens(o, v, u)
    BY <2>1 DEF Recomputes, Reopens
  <2>7. Good(o) => Good(w)'
    BY <1>2, <2>5, <2>6, ReadsOn
  <2>8. QED BY <1>1, <2>3, <2>7, StepsOn
<1>7. QED BY <1>3, <1>4, <1>5, <1>6

LEMMA SerialTexts ==
  ASSUME IInv, SerialInv, OneAtWork', NEW r \in Requests, WriteText(r) \/ ResetItem(r) \/ WriteItem(r)
  PROVE  SerialInv'
<1>1. PICK o : o = task[r] /\ TaskOK(o) /\ o # Idle
  BY Versioned DEF WriteText, ResetItem, WriteItem, At, Idle
<1>2. o.step \in {"writeText", "resetItem", "writeItem"} /\ o.v \in Versions /\ o.u \in Rules
  BY <1>1 DEF WriteText, ResetItem, WriteItem, At, TaskOK, Idle
<1>3. version' = version /\ chapter' = chapter /\ accepted' = accepted
  BY DEF WriteText, ResetItem, WriteItem
<1>4. PICK w : /\ task' = [task EXCEPT ![r] = w]
               /\ w = IF o.step = "writeText" THEN [step |-> "resetItem", v |-> o.v, u |-> o.u] ELSE Idle
  BY <1>1 DEF WriteText, ResetItem, WriteItem, Continue, Finish, At
<1>5. w.step = (IF o.step = "writeText" THEN "resetItem" ELSE "idle") /\ (o.step = "writeText" => Reopens(w, o.v, o.u))
  BY <1>4 DEF Reopens, Idle
<1>6. /\ \A v \in Versions, u \in Rules : v # o.v \/ u # o.u => text'[v][u] = text[v][u] /\ item'[v][u] = item[v][u]
      /\ o.step = "resetItem" => item'[o.v][o.u].status = "PENDING"
      /\ o.step = "writeItem" => item'[o.v][o.u].of = text'[o.v][o.u]
  <2>1. CASE WriteText(r)
    BY <1>1, <1>2, <2>1 DEF WriteText, At, IInv, DataOK
  <2>2. CASE ResetItem(r)
    <3>1. PICK i \in [status : RuleReviewStatus, of : Nat] : i = item[o.v][o.u]
      BY <1>2 DEF IInv, DataOK
    <3>2. item' = [item EXCEPT ![o.v][o.u].status = "PENDING"] /\ text' = text
      BY <1>1, <2>2 DEF ResetItem
    <3>3. item'[o.v][o.u] = [i EXCEPT !.status = "PENDING"]
      BY <1>2, <3>1, <3>2 DEF IInv, DataOK
    <3>4. item'[o.v][o.u].status = "PENDING"
      BY <3>3
    <3>5. \A v \in Versions, u \in Rules : v # o.v \/ u # o.u => item'[v][u] = item[v][u]
      BY <1>2, <3>2 DEF IInv, DataOK
    <3>6. QED BY <1>1, <2>2, <3>2, <3>4, <3>5 DEF ResetItem, At
  <2>3. CASE WriteItem(r)
    BY <1>1, <1>2, <2>3 DEF WriteItem, At, IInv, DataOK
  <2>4. QED BY <2>1, <2>2, <2>3
<1>7. ASSUME Good(o)
      PROVE  Good(w)'
  <2>1. \A v : clearForSignOff(v)' <=> clearForSignOff(v)
    BY <1>3 DEF clearForSignOff, hasBlockers, hasChangeRequests
  <2>2. Current(w)'
    BY <1>5 DEF Current
  <2>3. SignOffsFollow(w)'
    BY <1>2, <1>3, <1>7, <2>1 DEF Good, SignOffsFollow, Recomputes
  <2>4. DecisionsFollow(w)'
    <3>1. SUFFICES ASSUME NEW v \in Versions, NEW u \in Rules, item'[v][u].status # "PENDING"
                   PROVE  item'[v][u].of = text'[v][u] \/ Reopens(w, v, u)
      BY DEF DecisionsFollow, Reopens
    <3>2. CASE v = o.v /\ u = o.u
      BY <1>2, <1>5, <1>6, <3>1, <3>2
    <3>3. CASE v # o.v \/ u # o.u
      BY <1>6, <1>7, <3>1, <3>3 DEF Good, DecisionsFollow, Reopens
    <3>4. QED BY <3>2, <3>3
  <2>5. (AtMostOneActive /\ SomeVersionActive /\ AcceptedOnce)'
    BY <1>3, <1>7, SameForce DEF Good, AcceptedOnce
  <2>6. QED BY <2>2, <2>3, <2>4, <2>5 DEF Good
<1>8. task' = [task EXCEPT ![r] = w]
  BY <1>4
<1>9. QED BY <1>1, <1>7, <1>8, StepsOn

LEMMA SerialChapters ==
  ASSUME IInv, SerialInv, OneAtWork', NEW r \in Requests, WriteChapter(r)
  PROVE  SerialInv'
<1>1. PICK o : o = task[r] /\ o.step = "writeChapter" /\ o.v \in Versions /\ o # Idle
  BY Versioned DEF WriteChapter, At, TaskOK, Idle
<1>2. version' = version /\ text' = text /\ item' = item /\ accepted' = accepted
  BY DEF WriteChapter
<1>3. PICK w : w = [step |-> "summarise", v |-> o.v]
  OBVIOUS
<1>4. task' = [task EXCEPT ![r] = w]
  BY <1>1, <1>3 DEF WriteChapter, Continue
<1>5. \A v \in Versions : v # o.v => chapter'[v] = chapter[v]
  BY <1>1 DEF WriteChapter, IInv, DataOK
<1>6. ASSUME Good(o)
      PROVE  Good(w)'
  <2>1. \A v \in Versions : v # o.v => (clearForSignOff(v)' <=> clearForSignOff(v))
    BY <1>5 DEF clearForSignOff, hasBlockers, hasChangeRequests
  <2>2. Current(w)'
    BY <1>3 DEF Current
  <2>3. SignOffsFollow(w)'
    BY <1>1, <1>2, <1>3, <1>6, <2>1 DEF Good, SignOffsFollow, Recomputes
  <2>4. DecisionsFollow(w)'
    BY <1>1, <1>2, <1>6 DEF Good, DecisionsFollow, Reopens
  <2>5. (AtMostOneActive /\ SomeVersionActive /\ AcceptedOnce)'
    BY <1>2, <1>6, SameForce DEF Good, AcceptedOnce
  <2>6. QED BY <2>2, <2>3, <2>4, <2>5 DEF Good
<1>7. QED BY <1>1, <1>4, <1>6, StepsOn

\* The row of one version is written; its status is not.
LEMMA ReviewWritten ==
  ASSUME IInv, NEW v \in Versions, NEW state \in VersionReviewState, NEW signedOff \in BOOLEAN,
         version' = [version EXCEPT ![v] = [version[v] EXCEPT !.reviewState = state, !.signedOff = signedOff]]
  PROVE  /\ \A x \in Versions : version'[x].status = version[x].status
         /\ version'[v].signedOff = signedOff /\ \A x \in Versions : x # v => version'[x] = version[x]
<1>1. PICK row \in VersionRow : row = version[v]
  BY Versioned
<1>2. PICK new : new = [row EXCEPT !.reviewState = state, !.signedOff = signedOff]
  OBVIOUS
<1>3. new.status = row.status /\ new.signedOff = signedOff
  BY <1>2 DEF VersionRow
<1>4. version'[v] = new /\ \A x \in Versions : x # v => version'[x] = version[x]
  BY <1>1, <1>2 DEF IInv, DataOK
<1>5. QED BY <1>1, <1>3, <1>4

LEMMA SerialSignOff ==
  ASSUME IInv, SerialInv, OneAtWork', NEW r \in Requests, WriteState(r) \/ Sign(r)
  PROVE  SerialInv'
<1>1. PICK o : o = task[r] /\ TaskOK(o) /\ o # Idle
  BY Versioned DEF WriteState, Sign, At, Idle
<1>2. o.step \in {"writeState", "sign"} /\ o.v \in Versions
  BY <1>1 DEF WriteState, Sign, At, TaskOK, Idle
<1>3. text' = text /\ chapter' = chapter /\ item' = item /\ accepted' = accepted /\ task' = [task EXCEPT ![r] = Idle]
  BY DEF WriteState, Sign, Finish
<1>4. \A v : clearForSignOff(v)' <=> clearForSignOff(v)
  BY <1>3 DEF clearForSignOff, hasBlockers, hasChangeRequests
<1>5. ASSUME Good(o)
      PROVE  /\ \A x \in Versions : version'[x].status = version[x].status
             /\ \A x \in Versions : x # o.v => version'[x].signedOff = version[x].signedOff
             /\ version'[o.v].signedOff => clearForSignOff(o.v)
  <2>1. CASE WriteState(r)
    <3>1. o.step = "writeState" /\ o.state \in VersionReviewState /\ o.revoke \in BOOLEAN
      BY <1>1, <2>1 DEF WriteState, At, TaskOK, Idle
    <3>2. PICK s \in BOOLEAN : s = (version[o.v].signedOff /\ ~o.revoke)
      OBVIOUS
    <3>3. version' = [version EXCEPT ![o.v] = [version[o.v] EXCEPT !.reviewState = o.state, !.signedOff = s]]
      BY <1>1, <1>2, <2>1, <3>2 DEF WriteState, IInv, DataOK
    <3>4. s => clearForSignOff(o.v)
      BY <1>5, <3>1, <3>2 DEF Good, Current
    <3>5. QED BY <1>2, <3>1, <3>3, <3>4, ReviewWritten
  <2>2. CASE Sign(r)
    <3>1. "APPROVED" \in VersionReviewState /\ o.step = "sign"
      BY <1>1, <2>2 DEF VersionReviewState, Sign, At
    <3>2. version' = [version EXCEPT ![o.v] = [version[o.v] EXCEPT !.reviewState = "APPROVED", !.signedOff = TRUE]]
      BY <1>1, <1>2, <2>2 DEF Sign, IInv, DataOK
    <3>3. clearForSignOff(o.v)
      BY <1>5, <3>1 DEF Good, Current
    <3>4. QED BY <1>2, <3>1, <3>2, <3>3, ReviewWritten
  <2>3. QED BY <2>1, <2>2
<1>6. ASSUME Good(o)
      PROVE  Good(Idle)'
  <2>1. Current(Idle)'
    BY DEF Current, Idle
  <2>2. SignOffsFollow(Idle)'
    BY <1>4, <1>5, <1>6 DEF Good, SignOffsFollow, Recomputes
  <2>3. DecisionsFollow(Idle)'
    BY <1>2, <1>3, <1>6 DEF Good, DecisionsFollow, Reopens
  <2>4. (AtMostOneActive /\ SomeVersionActive /\ AcceptedOnce)'
    BY <1>3, <1>5, <1>6 DEF Good, AtMostOneActive, SomeVersionActive, AcceptedOnce
  <2>5. QED BY <2>1, <2>2, <2>3, <2>4 DEF Good
<1>7. QED
  <2>1. PICK w : w = Idle
    OBVIOUS
  <2>2. Good(o) => Good(w)'
    BY <1>6, <2>1 DEF Idle
  <2>3. task' = [task EXCEPT ![r] = w]
    BY <1>3, <2>1
  <2>4. QED BY <1>1, <2>2, <2>3, StepsOn

\* The version rows after an activation that found everyone in force.
LEMMA Activated ==
  ASSUME IInv, NEW r \in Requests, Activate(r), task[r].old = InForce
  PROVE  /\ task[r].v \in Versions /\ version'[task[r].v].status = "ACTIVE"
         /\ \A x \in Versions : x # task[r].v => version'[x].status # "ACTIVE"
         /\ \A x \in Versions : version'[x].signedOff = version[x].signedOff
<1>1. PICK v \in Versions : v = task[r].v
  BY Versioned DEF Activate, At, TaskOK, Idle
<1>2. \A x \in Versions :
        version'[x] = IF x = v THEN [version[x] EXCEPT !.status = "ACTIVE", !.effective = TRUE]
                      ELSE IF x \in InForce THEN [version[x] EXCEPT !.status = "SUPERSEDED"] ELSE version[x]
  BY <1>1 DEF Activate
<1>3. ASSUME NEW x \in Versions
      PROVE  /\ version'[x].signedOff = version[x].signedOff
             /\ IF x = v THEN version'[x].status = "ACTIVE" ELSE version'[x].status # "ACTIVE"
  <2>1. PICK row \in VersionRow : row = version[x]
    BY Versioned
  <2>2. /\ [row EXCEPT !.status = "ACTIVE", !.effective = TRUE].status = "ACTIVE"
        /\ [row EXCEPT !.status = "ACTIVE", !.effective = TRUE].signedOff = row.signedOff
        /\ [row EXCEPT !.status = "SUPERSEDED"].status = "SUPERSEDED"
        /\ [row EXCEPT !.status = "SUPERSEDED"].signedOff = row.signedOff
    BY DEF VersionRow
  <2>3. CASE x = v
    BY <1>2, <2>1, <2>2, <2>3
  <2>4. CASE x # v /\ x \in InForce
    BY <1>2, <2>1, <2>2, <2>4
  <2>5. CASE x # v /\ x \notin InForce
    BY <1>2, <2>5 DEF InForce
  <2>6. QED BY <2>3, <2>4, <2>5
<1>4. QED BY <1>1, <1>3

LEMMA SerialActivate ==
  ASSUME IInv, SerialInv, OneAtWork', NEW r \in Requests, Activate(r)
  PROVE  SerialInv'
<1>1. PICK o : o = task[r] /\ o # Idle /\ o.step = "activate" /\ o.v \in Versions
  BY Versioned DEF Activate, At, TaskOK, Idle
<1>2. text' = text /\ chapter' = chapter /\ item' = item /\ accepted' = accepted
  BY DEF Activate
<1>3. \A v : clearForSignOff(v)' <=> clearForSignOff(v)
  BY <1>2 DEF clearForSignOff, hasBlockers, hasChangeRequests
<1>4. PICK w : w = Idle /\ w.step = "idle"
  BY Versioned
<1>5. task' = [task EXCEPT ![r] = w]
  BY <1>4 DEF Activate, Finish
<1>6. ASSUME Good(o)
      PROVE  Good(w)'
  <2>1. task[r].old = InForce
    BY <1>1, <1>6 DEF Good, Current
  <2>2. /\ version'[o.v].status = "ACTIVE" /\ \A x \in Versions : x # o.v => version'[x].status # "ACTIVE"
        /\ \A x \in Versions : version'[x].signedOff = version[x].signedOff
    BY <1>1, <2>1, Activated
  <2>3. Current(w)'
    BY <1>4 DEF Current
  <2>4. SignOffsFollow(w)' /\ DecisionsFollow(w)'
    BY <1>1, <1>2, <1>3, <1>6, <2>2 DEF Good, SignOffsFollow, DecisionsFollow, Recomputes, Reopens
  <2>5. (AtMostOneActive /\ SomeVersionActive /\ AcceptedOnce)'
    BY <1>1, <1>2, <1>6, <2>2 DEF Good, AtMostOneActive, SomeVersionActive, AcceptedOnce
  <2>6. QED BY <2>3, <2>4, <2>5 DEF Good
<1>7. QED BY <1>1, <1>5, <1>6, StepsOn

\* Archived is not the version in force, cloned is one that was not there.
LEMMA SerialRows ==
  ASSUME IInv, SerialInv, OneAtWork', NEW r \in Requests,
         Archive(r) \/ \E v \in Versions : Clone(r, v)
  PROVE  SerialInv'
<1>1. PICK o : o = task[r] /\ o # Idle /\ o.step \in {"archive", "clone"}
  BY Versioned DEF Archive, Clone, At, Idle
<1>2. PICK w : w = Idle /\ w.step = "idle"
  BY Versioned
<1>3. task' = [task EXCEPT ![r] = w] /\ accepted' = accepted
  BY <1>2 DEF Archive, Clone, Finish
<1>4. ASSUME Good(o)
      PROVE  \E v \in Versions :
               /\ version[v].status # "ACTIVE" /\ version'[v].status # "ACTIVE"
               /\ version'[v].signedOff => version[v].signedOff /\ chapter'[v] = chapter[v]
               /\ \A u \in Rules : item'[v][u].status = "PENDING" \/ (item' = item /\ text' = text)
               /\ \A x \in Versions : x # v =>
                    /\ version'[x] = version[x] /\ chapter'[x] = chapter[x]
                    /\ item'[x] = item[x] /\ text'[x] = text[x]
  <2>1. CASE Archive(r)
    <3>1. o.v \in Versions /\ o.step = "archive"
      BY <1>1, <2>1, Versioned DEF Archive, At, TaskOK, Idle
    <3>2. PICK row \in VersionRow : row = version[o.v]
      BY <3>1, Versioned
    <3>3. PICK new : new = [row EXCEPT !.status = "ARCHIVED"]
      OBVIOUS
    <3>4. new.status = "ARCHIVED" /\ new.signedOff = row.signedOff
      BY <3>3 DEF VersionRow
    <3>5. version'[o.v] = new /\ \A x \in Versions : x # o.v => version'[x] = version[x]
      BY <1>1, <2>1, <3>1, <3>2, <3>3 DEF Archive, IInv, DataOK
    <3>6. chapter' = chapter /\ item' = item /\ text' = text
      BY <2>1 DEF Archive
    <3>7. version[o.v].status # "ACTIVE"
      BY <1>4, <3>1 DEF Good, Current
    <3>8. QED BY <3>1, <3>2, <3>4, <3>5, <3>6, <3>7
  <2>2. ASSUME NEW v \in Versions, Clone(r, v)
        PROVE  /\ version[v].status # "ACTIVE" /\ version'[v].status # "ACTIVE"
               /\ ~version'[v].signedOff
               /\ \A u \in Rules : item'[v][u].status = "PENDING"
               /\ \A x \in Versions : x # v =>
                    /\ version'[x] = version[x] /\ chapter'[x] = chapter[x]
                    /\ item'[x] = item[x] /\ text'[x] = text[x]
    <3>1. NewDraft.status = "DRAFT" /\ NewDraft.signedOff = FALSE
      BY DEF NewDraft, NoVersion
    <3>2. \A u \in Rules : Pending[u].status = "PENDING"
      BY DEF Pending
    <3>3. version'[v] = NewDraft /\ item'[v] = Pending /\ version[v].status = "NONE"
      BY <2>2 DEF Clone, IInv, DataOK
    <3>4. \A x \in Versions : x # v =>
             /\ version'[x] = version[x] /\ chapter'[x] = chapter[x]
             /\ item'[x] = item[x] /\ text'[x] = text[x]
      BY <2>2 DEF Clone, IInv, DataOK
    <3>5. QED BY <3>1, <3>2, <3>3, <3>4
  <2>3. QED BY <2>1, <2>2
<1>5. ASSUME Good(o)
      PROVE  Good(w)'
  <2>1. PICK v \in Versions :
          /\ version[v].status # "ACTIVE" /\ version'[v].status # "ACTIVE"
          /\ version'[v].signedOff => version[v].signedOff /\ chapter'[v] = chapter[v]
          /\ \A u \in Rules : item'[v][u].status = "PENDING" \/ (item' = item /\ text' = text)
          /\ \A x \in Versions : x # v =>
               /\ version'[x] = version[x] /\ chapter'[x] = chapter[x]
               /\ item'[x] = item[x] /\ text'[x] = text[x]
    BY <1>4, <1>5
  <2>2. \A x : chapter'[x] = chapter[x] => (clearForSignOff(x)' <=> clearForSignOff(x))
    BY DEF clearForSignOff, hasBlockers, hasChangeRequests
  <2>3. Current(w)'
    BY <1>2 DEF Current
  <2>4. SignOffsFollow(w)'
    BY <1>1, <1>5, <2>1, <2>2 DEF Good, SignOffsFollow, Recomputes
  <2>5. DecisionsFollow(w)'
    BY <1>1, <1>5, <2>1 DEF Good, DecisionsFollow, Reopens
  <2>6. (AtMostOneActive /\ SomeVersionActive /\ AcceptedOnce)'
    BY <1>3, <1>5, <2>1 DEF Good, AtMostOneActive, SomeVersionActive, AcceptedOnce
  <2>7. QED BY <2>3, <2>4, <2>5, <2>6 DEF Good
<1>6. QED BY <1>1, <1>3, <1>5, StepsOn

LEMMA SerialCases ==
  ASSUME IInv, SerialInv, OneAtWork', NEW r \in Requests, Pin(r) \/ AcceptRow(r)
  PROVE  SerialInv'
<1>1. PICK o : o = task[r] /\ o # Idle /\ o.step \in {"pin", "accept"} /\ o.k \in Cases
  BY Versioned DEF Pin, AcceptRow, At, TaskOK, Idle
<1>2. PICK w : w = Idle /\ w.step = "idle"
  BY Versioned
<1>3. task' = [task EXCEPT ![r] = w] /\ version' = version /\ text' = text /\ chapter' = chapter /\ item' = item
  BY <1>2 DEF Pin, AcceptRow, Finish
<1>4. ASSUME Good(o)
      PROVE  Good(w)'
  <2>1. \A v : clearForSignOff(v)' <=> clearForSignOff(v)
    BY <1>3 DEF clearForSignOff, hasBlockers, hasChangeRequests
  <2>2. Current(w)'
    BY <1>2 DEF Current
  <2>3. SignOffsFollow(w)' /\ DecisionsFollow(w)'
    BY <1>1, <1>3, <1>4, <2>1 DEF Good, SignOffsFollow, DecisionsFollow, Recomputes, Reopens
  <2>4. AcceptedOnce'
    <3>1. CASE Pin(r)
      BY <1>4, <3>1 DEF Pin, Good, AcceptedOnce
    <3>2. CASE AcceptRow(r)
      <4>1. accepted[o.k] = 0
        BY <1>1, <1>4, <3>2 DEF AcceptRow, At, Good, Current
      <4>2. accepted' = [accepted EXCEPT ![o.k] = IF 0 < MaxAcceptances THEN 1 ELSE 0]
        BY <1>1, <3>2, <4>1 DEF AcceptRow, IInv, DataOK
      <4>3. QED BY <1>1, <1>4, <4>2 DEF Good, AcceptedOnce, IInv, DataOK
    <3>3. QED BY <3>1, <3>2
  <2>5. QED BY <1>3, <1>4, <2>2, <2>3, <2>4, SameForce DEF Good
<1>5. QED BY <1>1, <1>3, <1>4, StepsOn

LEMMA SerialStep ==
  ASSUME IInv, SerialInv, OneAtWork', NEW r \in Requests, Start(r) \/ Step(r)
  PROVE  SerialInv'
BY SerialStart, SerialReads, SerialTexts, SerialChapters, SerialSignOff, SerialActivate, SerialRows, SerialCases DEF Step

\* Of at most one request in progress, no two are.
LEMMA OnlyOne ==
  ASSUME IInv, OneAtWork, NEW r \in Requests, Start(r) \/ Step(r),
         Cardinality({q \in Requests : task'[q] # Idle}) <= 1
  PROVE  OneAtWork'
<1>1. PICK w : task' = [task EXCEPT ![r] = w]
  BY DEF Start, Step, createDraftVersion, updateRuleText, recordReview, recordChapterReview, signOff, activateVersion,
         archiveVersion, assignToCase, acceptRules, Begin, Continue, Finish, Clone, WriteText, ResetItem, WriteItem,
         WriteChapter, Summarise, ReadSignOff, WriteState, CheckClear, Sign, Recheck, Supersede, Activate, Archive,
         Pin, AcceptRow
<1>2. \A q \in Requests : q # r => task'[q] = task[q]
  BY <1>1 DEF IInv, TasksOK
<1>3. PICK b \in Requests : \A q \in Requests : q # r /\ q # b => task'[q] = Idle
  BY <1>2 DEF OneAtWork
<1>4. PICK S : S = {q \in Requests : task'[q] # Idle}
  OBVIOUS
<1>5. S \subseteq {r, b} /\ IsFiniteSet({r, b})
  <2>1. S \subseteq {r, b}
    BY <1>3, <1>4
  <2>2. IsFiniteSet({r}) /\ {r, b} = {r} \cup {b}
    BY FS_Singleton
  <2>3. QED BY <2>1, <2>2, FS_AddElement
<1>6. IsFiniteSet(S) /\ Cardinality(S) \in Nat /\ Cardinality(S) <= 1
  BY <1>4, <1>5, FS_Subset, FS_CardinalityType
<1>7. ASSUME NEW p \in S, NEW q \in S, p # q
      PROVE  FALSE
  <2>1. PICK T : T = {p}
    OBVIOUS
  <2>2. IsFiniteSet({p, q}) /\ Cardinality({p, q}) = 2
    <3>1. IsFiniteSet(T) /\ Cardinality(T) = 1
      BY <2>1, FS_Singleton
    <3>2. {p, q} = T \cup {q} /\ q \notin T
      BY <1>7, <2>1
    <3>3. IsFiniteSet(T \cup {q}) /\ Cardinality(T \cup {q}) = Cardinality(T) + 1
      BY <3>1, <3>2, FS_AddElement
    <3>4. QED BY <3>1, <3>2, <3>3
  <2>3. Cardinality({p, q}) <= Cardinality(S)
    BY <1>6, <2>2, FS_Subset
  <2>4. QED BY <1>6, <2>2, <2>3
<1>8. QED BY <1>4, <1>7 DEF OneAtWork
-----------------------------------------------------------------------------
(* What holds of requests one at a time, in the behaviours of MCSpec *)

LEMMA SerialInitially == Init => SerialInv
<1>1. SUFFICES ASSUME Init
               PROVE  SerialInv
  OBVIOUS
<1>2. \A r \in Requests : task[r] = Idle
  BY <1>1 DEF Init
<1>3. /\ \A v \in Versions : version[v].signedOff = FALSE
      /\ \A v \in Versions : version[v].status = "ACTIVE" <=> v = Published
      /\ Published \in Versions
  BY <1>1, PublishedAssumption DEF Init, NewDraft, NoVersion, PublishedAssumption
<1>4. \A v \in Versions, u \in Rules : item[v][u].status = "PENDING"
  BY <1>1 DEF Init, Pending
<1>5. SignOffsFollow(Idle) /\ DecisionsFollow(Idle)
  BY <1>3, <1>4 DEF SignOffsFollow, DecisionsFollow
<1>6. Current(Idle)
  BY DEF Current, Idle
<1>7. AtMostOneActive /\ SomeVersionActive /\ AcceptedOnce
  BY <1>1, <1>3 DEF Init, AtMostOneActive, SomeVersionActive, AcceptedOnce
<1>8. QED BY <1>2, <1>5, <1>6, <1>7 DEF SerialInv, OneAtWork, Good

LEMMA SerialInvariance == MCSpec => [](IInv /\ (mode = "serial" => SerialInv))
<1>1. MCInit => IInv /\ (mode = "serial" => SerialInv)
  BY InitIInv, SerialInitially DEF MCInit
<1>2. IInv /\ (mode = "serial" => SerialInv) /\ [MCNext]_mcVars => (IInv /\ (mode = "serial" => SerialInv))'
  <2>1. SUFFICES ASSUME IInv, mode = "serial" => SerialInv, [MCNext]_mcVars
                 PROVE  IInv' /\ (mode' = "serial" => SerialInv')
    OBVIOUS
  <2>2. IInv'
    <3>1. [Next]_vars
      BY <2>1 DEF MCNext, mcVars, Next
    <3>2. QED BY <2>1, <3>1, NextIInv
  <2>3. CASE mode = "serial" /\ MCNext
    <3>1. PICK r \in Requests : Start(r) \/ Step(r)
      BY <2>3 DEF MCNext
    <3>2. OneAtWork'
      BY <2>1, <2>3, <3>1, OnlyOne DEF MCNext, SerialInv
    <3>3. QED BY <2>1, <2>2, <2>3, <3>1, <3>2, SerialStep
  <2>4. CASE mode # "serial" /\ MCNext
    BY <2>2, <2>4 DEF MCNext
  <2>5. CASE UNCHANGED mcVars
    <3>1. mode' = mode /\ UNCHANGED vars
      BY <2>5 DEF mcVars
    <3>2. mode = "serial" => SerialInv'
      BY <2>1, <3>1 DEF vars, SerialInv, OneAtWork, Quiet, Good, Current, SignOffsFollow, DecisionsFollow, AtMostOneActive,
                        SomeVersionActive, AcceptedOnce, Recomputes, Reopens, clearForSignOff, hasBlockers,
                        hasChangeRequests, InForce, Idle
    <3>3. QED BY <2>2, <3>1, <3>2
  <2>6. QED BY <2>1, <2>3, <2>4, <2>5
<1>3. QED BY <1>1, <1>2, PTL DEF MCSpec

\* Of requests one at a time, a sign-off stands between them only on chapters
\* that are clear, whatever counsel decides after it, and a decision about a
\* rule is about its present text, however often it was edited.
THEOREM ReviewsHold == MCSpec => []ReviewHolds
<1>1. IInv /\ (mode = "serial" => SerialInv) => ReviewHolds
  <2>1. SUFFICES ASSUME SerialInv, Quiet
                 PROVE  /\ \A v \in Versions : version[v].signedOff => clearForSignOff(v)
                        /\ \A v \in Versions, u \in Rules :
                             item[v][u].status # "PENDING" => item[v][u].of = text[v][u]
    BY DEF ReviewHolds, SignOffStands, DecisionIsOfThisText
  <2>2. Good(Idle)
    BY <2>1 DEF SerialInv
  <2>3. QED BY <2>2 DEF Good, SignOffsFollow, DecisionsFollow, Recomputes, Reopens, Idle
<1>2. QED BY <1>1, SerialInvariance, PTL

\* Of requests one at a time, exactly one version of the rules is in force at
\* every moment, and a party accepts the rules of a case once.
THEOREM OneVersionInForce == MCSpec => []OneInForce
<1>1. IInv /\ (mode = "serial" => SerialInv) => OneInForce
  <2>1. SUFFICES ASSUME SerialInv
                 PROVE  AtMostOneActive /\ SomeVersionActive /\ AcceptedOnce
    BY DEF OneInForce
  <2>2. CASE Quiet
    BY <2>1, <2>2 DEF SerialInv, Good
  <2>3. CASE ~Quiet
    BY <2>1, <2>3 DEF SerialInv, Good, Quiet
  <2>4. QED BY <2>2, <2>3
<1>2. QED BY <1>1, SerialInvariance, PTL

\* No step pins a case again.
LEMMA PinsOnce ==
  ASSUME IInv, Next
  PROVE  \A k \in Cases : pinned[k] # "NONE" => pinned'[k] = pinned[k]
<1>1. ASSUME NEW r \in Requests, Pin(r)
      PROVE  \A k \in Cases : pinned[k] # "NONE" => pinned'[k] = pinned[k]
  <2>1. task[r].k \in Cases
    BY <1>1, Versioned DEF Pin, At, TaskOK, Idle
  <2>2. QED BY <1>1, <2>1 DEF Pin, IInv, DataOK
<1>2. ASSUME NEW r \in Requests, ~Pin(r), Start(r) \/ Step(r) \/ Crash(r)
      PROVE  pinned' = pinned
  <2>1. CASE Start(r)
    BY <2>1 DEF Start, createDraftVersion, updateRuleText, recordReview, recordChapterReview,
                signOff, activateVersion, archiveVersion, assignToCase, acceptRules, rows
  <2>2. CASE Step(r)
    BY <1>2, <2>2 DEF Step, Clone, WriteText, ResetItem, WriteItem, WriteChapter, Summarise,
                ReadSignOff, WriteState, CheckClear, Sign, Recheck, Supersede, Activate, Archive,
                AcceptRow, rows
  <2>3. CASE Crash(r)
    BY <2>3 DEF Crash, rows
  <2>4. QED BY <1>2, <2>1, <2>2, <2>3
<1>3. QED BY <1>1, <1>2 DEF Next

\* The version a case is pinned to never changes, whatever runs with what.
THEOREM PinIsFinal == Spec => NeverRepinned
<1>1. IInv /\ [Next]_vars => [\A k \in Cases : pinned[k] # "NONE" => pinned'[k] = pinned[k]]_vars
  BY PinsOnce
<1>2. QED BY <1>1, Invariance, PTL DEF Spec, NeverRepinned

\* Only drafts are edited, and only what is signed off and clear goes live.
LEMMA EditsAndActivations ==
  ASSUME IInv, SerialInv, NEW r \in Requests, Start(r) \/ Step(r), NEW v \in Versions
  PROVE  /\ version[v].status \notin {"NONE", "DRAFT"} => text'[v] = text[v]
         /\ Activates(v) => clearForSignOff(v) /\ version[v].signedOff
<1>1. task[r] # Idle => Good(task[r])
  BY DEF SerialInv
<1>2. CASE Start(r)
  BY <1>2 DEF Start, createDraftVersion, updateRuleText, recordReview, recordChapterReview,
              signOff, activateVersion, archiveVersion, assignToCase, acceptRules, rows, Activates
<1>3. CASE WriteText(r)
  <2>1. task[r].v \in Versions /\ task[r].u \in Rules /\ version[task[r].v].status = "DRAFT" /\ version' = version
    BY <1>1, <1>3, Versioned DEF WriteText, At, TaskOK, Idle, Good, Current
  <2>2. v # task[r].v => text'[v] = text[v]
    BY <1>3, <2>1 DEF WriteText, IInv, DataOK
  <2>3. QED BY <2>1, <2>2 DEF Activates
<1>4. ASSUME NEW x \in Versions, Clone(r, x)
      PROVE  /\ version[v].status \notin {"NONE", "DRAFT"} => text'[v] = text[v]
             /\ Activates(v) => clearForSignOff(v) /\ version[v].signedOff
  <2>1. version[x].status = "NONE" /\ version'[x].status = "DRAFT"
    BY <1>4 DEF Clone, NewDraft, NoVersion, IInv, DataOK
  <2>2. v # x => version'[v] = version[v] /\ text'[v] = text[v]
    BY <1>4 DEF Clone, IInv, DataOK
  <2>3. QED BY <2>1, <2>2 DEF Activates
<1>5. CASE Activate(r)
  <2>1. /\ task[r].old = InForce /\ clearForSignOff(task[r].v) /\ version[task[r].v].signedOff
        /\ text' = text
    <3>1. PICK o : o = task[r] /\ o.step = "activate" /\ text' = text
      BY <1>5 DEF Activate, At
    <3>2. o # Idle
      BY <3>1, Versioned
    <3>3. Current(task[r])
      BY <1>1, <3>1, <3>2 DEF Good
    <3>4. QED BY <3>1, <3>3 DEF Current
  <2>2. QED BY <1>5, <2>1, Activated DEF Activates
<1>6. CASE Archive(r)
  <2>1. task[r].v \in Versions
    BY <1>6, Versioned DEF Archive, At, TaskOK, Idle
  <2>2. PICK row \in VersionRow : row = version[task[r].v]
    BY <2>1, Versioned
  <2>3. [row EXCEPT !.status = "ARCHIVED"].status = "ARCHIVED"
    BY DEF VersionRow
  <2>4. version'[task[r].v].status = "ARCHIVED" /\ (v # task[r].v => version'[v] = version[v]) /\ text' = text
    BY <1>6, <2>1, <2>2, <2>3 DEF Archive, IInv, DataOK
  <2>5. QED BY <2>4 DEF Activates
<1>7. CASE WriteState(r) \/ Sign(r)
  <2>1. text' = text
    BY <1>7 DEF WriteState, Sign
  <2>2. version'[v].status = version[v].status
    <3>1. CASE WriteState(r)
      <4>1. /\ task[r].v \in Versions /\ task[r].state \in VersionReviewState /\ task[r].revoke \in BOOLEAN
        BY <3>1, Versioned DEF WriteState, At, TaskOK, Idle
      <4>2. PICK s \in BOOLEAN : s = (version[task[r].v].signedOff /\ ~task[r].revoke)
        OBVIOUS
      <4>3. version' = [version EXCEPT ![task[r].v] =
                          [version[task[r].v] EXCEPT !.reviewState = task[r].state, !.signedOff = s]]
        BY <3>1, <4>1, <4>2 DEF WriteState, IInv, DataOK
      <4>4. QED BY <4>1, <4>3, ReviewWritten
    <3>2. CASE Sign(r)
      <4>1. task[r].v \in Versions /\ "APPROVED" \in VersionReviewState
        BY <3>2, Versioned DEF Sign, At, TaskOK, Idle, VersionReviewState
      <4>2. version' = [version EXCEPT ![task[r].v] =
                          [version[task[r].v] EXCEPT !.reviewState = "APPROVED", !.signedOff = TRUE]]
        BY <3>2, <4>1 DEF Sign, IInv, DataOK
      <4>3. QED BY <4>1, <4>2, ReviewWritten
    <3>3. QED BY <1>7, <3>1, <3>2
  <2>3. QED BY <2>1, <2>2 DEF Activates
<1>8. CASE \/ ResetItem(r) \/ WriteItem(r) \/ WriteChapter(r) \/ Summarise(r) \/ ReadSignOff(r)
           \/ CheckClear(r) \/ Recheck(r) \/ Supersede(r) \/ Pin(r) \/ AcceptRow(r)
  BY <1>8 DEF ResetItem, WriteItem, WriteChapter, Summarise, ReadSignOff, CheckClear, Recheck, Supersede, Pin,
              AcceptRow, rows, Activates
<1>9. QED BY <1>2, <1>3, <1>4, <1>5, <1>6, <1>7, <1>8 DEF Step

\* The law of a case does not change under the parties, and what comes into
\* force, of requests one at a time, was signed off and is clear.
THEOREM LawIsKept == MCSpec => LawKept
<1>1. (IInv /\ (mode = "serial" => SerialInv)) /\ [MCNext]_mcVars =>
        [/\ \A k \in Cases : pinned[k] # "NONE" => pinned'[k] = pinned[k]
         /\ mode = "serial" =>
              /\ \A k \in Cases, v \in Versions : pinned[k] = v => text'[v] = text[v]
              /\ \A v \in Versions : Activates(v) => clearForSignOff(v) /\ version[v].signedOff]_mcVars
  <2>1. SUFFICES ASSUME IInv, mode = "serial" => SerialInv, MCNext
                 PROVE  /\ \A k \in Cases : pinned[k] # "NONE" => pinned'[k] = pinned[k]
                        /\ mode = "serial" =>
                             /\ \A k \in Cases, v \in Versions : pinned[k] = v => text'[v] = text[v]
                             /\ \A v \in Versions : Activates(v) => clearForSignOff(v) /\ version[v].signedOff
    OBVIOUS
  <2>2. \A k \in Cases : pinned[k] # "NONE" => pinned'[k] = pinned[k]
    BY <2>1, PinsOnce DEF MCNext, Next
  <2>3. ASSUME mode = "serial"
        PROVE  /\ \A k \in Cases, v \in Versions : pinned[k] = v => text'[v] = text[v]
               /\ \A v \in Versions : Activates(v) => clearForSignOff(v) /\ version[v].signedOff
    <3>1. PICK r \in Requests : Start(r) \/ Step(r)
      BY <2>1, <2>3 DEF MCNext
    <3>2. \A v \in Versions : /\ version[v].status \notin {"NONE", "DRAFT"} => text'[v] = text[v]
                              /\ Activates(v) => clearForSignOff(v) /\ version[v].signedOff
      BY <2>1, <2>3, <3>1, EditsAndActivations
    <3>3. QED BY <2>1, <3>2 DEF IInv, PinnedIsNoDraft
  <2>4. QED BY <2>2, <2>3
<1>2. QED BY <1>1, SerialInvariance, PTL DEF MCSpec, LawKept
=============================================================================
