---------------------------- MODULE RecordsProofs ----------------------------
(***************************************************************************)
(* Theorems about Retention and Correspondence as MCRecords composes them, *)
(* for any cases, overrides, people, bounds, and finite set of requests,   *)
(* and about the scripts of Seed, for any rows of the base seed.           *)
(***************************************************************************)
EXTENDS MCRecords, FiniteSetTheorems, SequenceTheorems, TLAPS

-----------------------------------------------------------------------------
(* The policy: whatever a request is about to put in force was approved *)

DraftRow == [status : {"DRAFT", "PENDING_REVIEW", "APPROVED", "REJECTED"}, overrides : SUBSET Overrides]

PolicyTask ==
  {Idle, [step |-> "deleteDraft"]}
  \cup [step : {"review", "readActive"}, draft : DraftRow]
  \cup [step : {"activate"}, merged : SUBSET Overrides]

Approved(w) == /\ w.step = "readActive" => w.draft.overrides \subseteq approved
               /\ w.step = "activate" => w.merged \subseteq approved

PolicyInv ==
  /\ task \in [Requests -> PolicyTask]
  /\ draft \in DraftRow \cup {NoDraft}
  /\ overrides \subseteq Overrides
  /\ \A r \in Requests : Approved(task[r])

(* The documents: a number a request was given is the next one or is taken, *)
(* and every document there is, or is about to be, has a file of its own.   *)
PaperTask ==
  {Idle}
  \cup [step : {"store", "countDocuments"}, level : Levels, side : Sides \cup {NoSide}]
  \cup [step : {"document"}, level : Levels, side : Sides \cup {NoSide}, number : Nat \ {0}]
  \cup [step : {"activity"}, user : People, number : Nat]
  \cup [step : {"order"}, number : Nat \ {0}]

DocumentRow == [number : Nat, level : Levels, side : Sides \cup {NoSide}]
Pending == {r \in Requests : task[r].step \in {"countDocuments", "document"}}

Numbered(w) == /\ w.step = "document" => w.number <= Len(document) + 1
               /\ w.step = "order" => w.number <= Len(order) + 1

PaperInv ==
  /\ task \in [Requests -> PaperTask]
  /\ \A m \in team : m.side \in Sides \cup {NoSide}
  /\ document \in Seq(DocumentRow) /\ order \in Seq(Nat) /\ stored \in Nat
  /\ \A r \in Requests : Numbered(task[r])
  /\ Len(document) + Cardinality(Pending) <= stored

(* Holds and sweeps: a case that was swept is deleted; and, of requests one *)
(* at a time, only the one at work may have left a hold without its flag,   *)
(* and what a sweep found free to delete has no hold.                       *)
HoldTask ==
  {Idle}
  \cup [step : {"flag", "countHolds", "unflag"}, case : Cases]
  \cup [step : {"release"}, hold : Nat]
  \cup [step : {"eligible"}, days : Nat]
  \cup [step : {"sweep"}, left : SUBSET Cases, held : SUBSET Cases]
  \cup [step : {"tombstone"}, case : Cases, left : SUBSET Cases, held : SUBSET Cases]

HoldRow == [case : Cases, status : {"ACTIVE", "RELEASED"}]
SweptRow == [case : Cases, action : {"SOFT_DELETED", "SKIPPED_LEGAL_HOLD"}]
CaseRow == [age : Int, deleted : BOOLEAN, legalHold : BOOLEAN,
            status : {"ACTIVE", "LEGAL_HOLD", "DELETED"}]

Alone == \A r, s \in Requests : r = s \/ task[r] = Idle \/ task[s] = Idle
Flagged(c) == record[c].legalHold \/ \E r \in Requests : task[r] = [step |-> "flag", case |-> c]
Free(w) ==
  /\ w.step = "unflag" => ~ActiveHold(w.case)
  /\ w.step \in {"sweep", "tombstone"} => \A c \in w.left \ w.held : ~ActiveHold(c)

HoldData ==
  /\ overrides = {}
  /\ task \in [Requests -> HoldTask]
  /\ record \in [Cases -> CaseRow] /\ hold \in Seq(HoldRow) /\ swept \in Seq(SweptRow)
Deletions ==
  /\ \A r \in Requests : task[r].step = "tombstone" => record[task[r].case].deleted
  /\ \A i \in DOMAIN swept : swept[i].action = "SOFT_DELETED" => record[swept[i].case].deleted
OneByOne ==
  /\ Alone
  /\ \A c \in Cases : ActiveHold(c) => Flagged(c)
  /\ \A r \in Requests : Free(task[r])

HoldInv ==
  /\ HoldData
  /\ \A r \in Requests : task[r].step = "release" => task[r].hold \in DOMAIN hold
  /\ Deletions
  /\ Serial => OneByOne

(* The messages: of requests one at a time, the recipients that the one at  *)
(* work has read are those that the team still has.                         *)
MessageTask ==
  {Idle}
  \cup [step : {"team"}, sender : People, restricted : BOOLEAN]
  \cup [step : {"message"}, sender : People, restricted : BOOLEAN, to : SUBSET People]
MessageRow == [sender : People, restricted : BOOLEAN, to : SUBSET People, read : SUBSET People]

Told(w) == w.step = "message" => w.to = Recipients(w.restricted) \ {w.sender}

MessageInv ==
  /\ task \in [Requests -> MessageTask]
  /\ message \in Seq(MessageRow)
  /\ \A m \in team : m.user \in People
  /\ Serial => Alone /\ \A r \in Requests : Told(task[r])

(* The scripts: a row that a script looks for is there whenever a row it    *)
(* stands for is, now and after what is left of the section at work; and    *)
(* what a top-up has come past is mended or about to be written.            *)
superadmin == createUser("superadmin")
Led(S) == \A m \in Marks : m[2] \cap S # {} => m[1] \in S

Mended ==
  /\ \A c \in {"case1", "case2"} : seedCase(c) \notin rows
  /\ done >= 2 => (seedCase("case1") \in db => seedPin("case1") \in db \cup rows)
  /\ done >= 3 => (seedCase("case2") \in db => seedPin("case2") \in db \cup rows)
  /\ done >= 4 => Graph \subseteq db \cup rows /\ \A row \in rows : row[1] \notin {"rule", "definition"}
  /\ done >= 5 => feeSchedule \in db \cup rows
  /\ done >= 6 => (seedCase("case2") \in db => depositRequest \in db \cup rows)

SeedInv ==
  /\ SeededOnce /\ Led(db) /\ Led(db \cup rows)
  /\ \A row \in db \cup rows : row \in BaseRows \/ row[1] \in {"trigger", "action"}
  /\ db = {} \/ superadmin \in db
  /\ script \in {"none", "seed", "topUp", "showcase"} /\ done \in Nat
  /\ script = "none" => done = 0
  /\ done = 0 => rows = {}
  /\ script = "seed" => rows \subseteq BaseRows /\ (done = 0 => db = {})
  /\ script = "topUp" => superadmin \in db /\ Mended
  /\ script = "showcase" => /\ rows \subseteq BaseRows /\ (done <= 2 => showcaseCase \notin db \cup rows)
                            /\ done >= 1 => superadmin \in db /\ ruleSet \in db

IInv ==
  /\ follows \in {"policy", "holds", "messages", "documents", "seed"}
  /\ PolicyApproved
  /\ NumberedInOrder
  /\ follows = "policy" => PolicyInv
  /\ follows = "documents" => PaperInv
  /\ follows = "holds" => HoldInv
  /\ follows = "messages" => MessageInv
  /\ SeedInv
-----------------------------------------------------------------------------
(* The policy *)

LEMMA PolicyShape ==
  ASSUME PolicyInv, NEW r \in Requests
  PROVE  /\ task[r].step \in {"review", "readActive"} => task[r].draft \in DraftRow
         /\ task[r].step = "activate" => task[r].merged \in SUBSET Overrides
BY DEF PolicyInv, PolicyTask, Idle

LEMMA PolicyMove ==
  ASSUME PolicyInv, PolicyApproved, NEW r \in Requests, NEW w \in PolicyTask,
         Begin(r, w) \/ Continue(r, w),
         approved \subseteq approved',
         w.step = "readActive" => w.draft.overrides \subseteq approved',
         w.step = "activate" => w.merged \subseteq approved',
         draft' \in DraftRow \cup {NoDraft}, overrides' \subseteq Overrides
  PROVE  PolicyInv'
<1>1. /\ task' \in [Requests -> PolicyTask]
      /\ task'[r] = w
      /\ \A s \in Requests : s # r => task'[s] = task[s]
  BY DEF PolicyInv, Begin, Continue
<1>2. ASSUME NEW s \in Requests PROVE Approved(task[s])'
  <2>1. CASE s = r
    BY <1>1, <2>1 DEF Approved
  <2>2. CASE s # r
    BY <1>1, <2>2 DEF Approved, PolicyInv
  <2>3. QED BY <2>1, <2>2
<1>3. QED BY <1>1, <1>2 DEF PolicyInv

LEMMA DraftPolicy ==
  ASSUME PolicyInv, PolicyApproved, NEW r \in Requests, draftPolicy(r)
  PROVE  PolicyInv' /\ PolicyApproved'
<1>1. PICK change \in SUBSET Overrides, status \in {"DRAFT", "PENDING_REVIEW"} :
        draft' = [status |-> status, overrides |-> change]
  BY DEF draftPolicy
<1>2. draft' \in DraftRow /\ draft'.status # "APPROVED"
  BY <1>1 DEF DraftRow
<1>3. UNCHANGED <<task, overrides, approved>>
  BY DEF draftPolicy, AtOnce
<1>4. PolicyInv'
  BY <1>2, <1>3 DEF PolicyInv, Approved
<1>5. QED BY <1>2, <1>3, <1>4 DEF PolicyApproved

LEMMA ReviewPolicy ==
  ASSUME PolicyInv, PolicyApproved, NEW r \in Requests, reviewPolicy(r) \/ activatePolicy(r)
  PROVE  PolicyInv' /\ PolicyApproved'
<1>1. draft \in DraftRow
  BY DEF reviewPolicy, activatePolicy, ReadDraft, PolicyInv, NoDraft
<1>2. UNCHANGED <<draft, overrides, approved>>
  BY DEF reviewPolicy, activatePolicy, ReadDraft, retentionVars, policyVars
<1>3. \E step \in {"review", "readActive"} :
        /\ Begin(r, [step |-> step, draft |-> draft])
        /\ step = "readActive" => draft.status = "APPROVED"
  BY DEF reviewPolicy, activatePolicy, ReadDraft
<1>4. PICK step \in {"review", "readActive"} :
        /\ Begin(r, [step |-> step, draft |-> draft])
        /\ step = "readActive" => draft.status = "APPROVED"
  BY <1>3
<1>5. [step |-> step, draft |-> draft] \in PolicyTask
  BY <1>1 DEF PolicyTask
<1>6. step = "readActive" => draft.overrides \subseteq approved
  BY <1>4 DEF PolicyApproved
<1>7. PolicyInv'
  BY <1>1, <1>2, <1>4, <1>5, <1>6, PolicyMove DEF PolicyInv
<1>8. QED BY <1>2, <1>7 DEF PolicyApproved

LEMMA SetReviewed ==
  ASSUME PolicyInv, PolicyApproved, NEW r \in Requests, setReviewed(r)
  PROVE  PolicyInv' /\ PolicyApproved'
<1>1. task[r].draft \in DraftRow
  BY PolicyShape DEF setReviewed, At
<1>2. PICK decision \in {"APPROVED", "REJECTED"} :
        /\ draft' = [task[r].draft EXCEPT !.status = decision]
        /\ approved' = IF decision = "APPROVED" THEN approved \cup task[r].draft.overrides ELSE approved
  BY DEF setReviewed
<1>3. draft' \in DraftRow /\ draft'.status = decision /\ draft'.overrides = task[r].draft.overrides
  BY <1>1, <1>2 DEF DraftRow
<1>4. UNCHANGED overrides /\ approved \subseteq approved'
  BY <1>2 DEF setReviewed
<1>5. Idle \in PolicyTask /\ Idle.step = "idle"
  BY DEF PolicyTask, Idle
<1>6. PolicyInv'
  BY <1>3, <1>4, <1>5, PolicyMove DEF setReviewed, Finish, PolicyInv
<1>7. QED BY <1>2, <1>3, <1>4, <1>6 DEF PolicyApproved

\* The overrides in force and those of an approved draft are approved, and so is
\* what they are merged into.
LEMMA ReadActive ==
  ASSUME PolicyInv, PolicyApproved, NEW r \in Requests, readActive(r)
  PROVE  PolicyInv' /\ PolicyApproved'
<1> DEFINE merged == Merge(overrides, task[r].draft.overrides)
<1>1. task[r].draft.overrides \subseteq Overrides
  BY PolicyShape DEF readActive, At, DraftRow
<1>2. task[r].draft.overrides \subseteq approved
  BY DEF readActive, At, PolicyInv, Approved
<1>3. merged \subseteq Overrides /\ merged \subseteq approved
  BY <1>1, <1>2 DEF Merge, PolicyApproved, PolicyInv
<1>4. UNCHANGED <<draft, overrides, approved>>
  BY DEF readActive, retentionVars, policyVars
<1>5. Continue(r, [step |-> "activate", merged |-> merged])
  BY DEF readActive
<1> HIDE DEF merged
<1>6. [step |-> "activate", merged |-> merged] \in PolicyTask
  BY <1>3 DEF PolicyTask
<1>7. PolicyInv'
  BY <1>3, <1>4, <1>5, <1>6, PolicyMove DEF PolicyInv
<1>8. QED BY <1>4, <1>7 DEF PolicyApproved

LEMMA SetActive ==
  ASSUME PolicyInv, PolicyApproved, NEW r \in Requests, setActive(r)
  PROVE  PolicyInv' /\ PolicyApproved'
<1>1. overrides' \subseteq Overrides /\ overrides' \subseteq approved
  BY PolicyShape DEF setActive, At, PolicyInv, Approved
<1>2. UNCHANGED <<draft, approved>>
  BY DEF setActive
<1>3. [step |-> "deleteDraft"] \in PolicyTask
  BY DEF PolicyTask
<1>4. PolicyInv'
  BY <1>1, <1>2, <1>3, PolicyMove DEF setActive, PolicyInv
<1>5. QED BY <1>1, <1>2, <1>4 DEF PolicyApproved

LEMMA DeleteDraft ==
  ASSUME PolicyInv, PolicyApproved, NEW r \in Requests, deleteDraft(r)
  PROVE  PolicyInv' /\ PolicyApproved'
<1>1. UNCHANGED <<overrides, approved>> /\ draft' = NoDraft
  BY DEF deleteDraft
<1>2. Idle \in PolicyTask /\ Idle.step = "idle"
  BY DEF PolicyTask, Idle
<1>3. PolicyInv'
  BY <1>1, <1>2, PolicyMove DEF deleteDraft, Finish, PolicyInv
<1>4. QED BY <1>1, <1>3 DEF PolicyApproved, NoDraft

LEMMA PolicyPreserved ==
  ASSUME PolicyInv, PolicyApproved, NEW r \in Requests, PolicyStep(r)
  PROVE  PolicyInv' /\ PolicyApproved'
BY DraftPolicy, ReviewPolicy, SetReviewed, ReadActive, SetActive, DeleteDraft DEF PolicyStep
-----------------------------------------------------------------------------
(* Documents and orders *)

LEMMA PaperShape ==
  ASSUME PaperInv, NEW r \in Requests
  PROVE  /\ task[r].step \in {"store", "countDocuments"} =>
              task[r] \in [step : {"store", "countDocuments"}, level : Levels, side : Sides \cup {NoSide}]
         /\ task[r].step = "document" =>
              task[r] \in [step : {"document"}, level : Levels, side : Sides \cup {NoSide}, number : Nat \ {0}]
         /\ task[r].step = "order" => task[r].number \in Nat \ {0}
BY DEF PaperInv, PaperTask, Idle

\* Documents and orders are only added to; the requests with a file and no row
\* yet are counted from those before.
LEMMA PaperMove ==
  ASSUME PaperInv, NEW r \in Requests, NEW w \in PaperTask, Begin(r, w) \/ Continue(r, w),
         w.step = "document" => w.number <= Len(document') + 1,
         w.step = "order" => w.number <= Len(order') + 1,
         Len(document) <= Len(document'), Len(order) <= Len(order'),
         document' \in Seq(DocumentRow), order' \in Seq(Nat), stored' \in Nat, UNCHANGED team,
         w.step \in {"countDocuments", "document"} =>
           IF r \in Pending THEN Len(document') - Len(document) <= stored' - stored
                            ELSE Len(document') - Len(document) < stored' - stored,
         w.step \notin {"countDocuments", "document"} =>
           IF r \in Pending THEN Len(document') - Len(document) <= stored' - stored + 1
                            ELSE Len(document') - Len(document) <= stored' - stored
  PROVE  PaperInv'
<1>1. /\ task' \in [Requests -> PaperTask]
      /\ task'[r] = w
      /\ \A s \in Requests : s # r => task'[s] = task[s]
  BY DEF PaperInv, Begin, Continue
<1>2. ASSUME NEW s \in Requests PROVE Numbered(task[s])'
  <2>1. task[s].step = "document" => task[s].number \in Nat
    BY PaperShape
  <2>2. task[s].step = "order" => task[s].number \in Nat
    BY PaperShape
  <2>3. Len(document) \in Nat /\ Len(document') \in Nat /\ Len(order) \in Nat /\ Len(order') \in Nat
    BY DEF PaperInv
  <2>4. CASE s = r
    BY <1>1, <2>4 DEF Numbered
  <2>5. CASE s # r
    BY <1>1, <2>1, <2>2, <2>3, <2>5 DEF Numbered, PaperInv
  <2>6. QED BY <2>4, <2>5
<1>3. Len(document') + Cardinality(Pending') <= stored'
  <2>1. Pending' = IF w.step \in {"countDocuments", "document"} THEN Pending \cup {r} ELSE Pending \ {r}
    BY <1>1 DEF Pending
  <2>2. IsFiniteSet(Pending) /\ Cardinality(Pending) \in Nat
    BY RequestsAssumption, FS_Subset, FS_CardinalityType DEF Pending
  <2>3. Cardinality(Pending \cup {r}) = IF r \in Pending THEN Cardinality(Pending) ELSE Cardinality(Pending) + 1
    BY <2>2, FS_AddElement
  <2>4. Cardinality(Pending \ {r}) = IF r \in Pending THEN Cardinality(Pending) - 1 ELSE Cardinality(Pending)
    BY <2>2, FS_RemoveElement
  <2>5. Len(document) \in Nat /\ Len(document') \in Nat /\ stored \in Nat /\ stored' \in Nat
    BY DEF PaperInv
  <2>6. Len(document) + Cardinality(Pending) <= stored
    BY DEF PaperInv
  <2>7. CASE w.step \in {"countDocuments", "document"}
    BY <2>1, <2>2, <2>3, <2>5, <2>6, <2>7
  <2>8. CASE w.step \notin {"countDocuments", "document"}
    BY <2>1, <2>2, <2>4, <2>5, <2>6, <2>8
  <2>9. QED BY <2>7, <2>8
<1>4. QED BY <1>1, <1>2, <1>3 DEF PaperInv

\* The case of a step that adds no row and no file, and is not about to.
LEMMA PaperAside ==
  ASSUME PaperInv, NEW r \in Requests, NEW w \in PaperTask, Begin(r, w) \/ Continue(r, w),
         r \notin Pending, w.step \notin {"countDocuments", "document"},
         w.step = "order" => w.number <= Len(order') + 1,
         UNCHANGED <<document, stored, team>>, order' \in Seq(Nat), Len(order) <= Len(order')
  PROVE  PaperInv'
<1>1. Len(document) \in Nat /\ stored \in Nat
  BY DEF PaperInv
<1>2. QED BY <1>1, PaperMove DEF PaperInv

LEMMA NotPending ==
  ASSUME NEW r \in Requests, task[r].step \notin {"countDocuments", "document"}
  PROVE  r \notin Pending
BY DEF Pending

LEMMA Upload ==
  ASSUME PaperInv, NEW r \in Requests, upload(r)
  PROVE  PaperInv' /\ UNCHANGED <<document, order, stored>>
<1>1. PICK u \in People, level \in Levels, side \in Sides \cup {NoSide} :
        Begin(r, [step |-> "store", level |-> level, side |->
         IF level # "PARTY_PRIVATE" \/ side # NoSide \/ SidesOf(u) = {} THEN side
         ELSE CHOOSE s \in SidesOf(u) : TRUE])
  BY DEF upload
<1> DEFINE given == IF level # "PARTY_PRIVATE" \/ side # NoSide \/ SidesOf(u) = {} THEN side
                    ELSE CHOOSE s \in SidesOf(u) : TRUE
<1>2. given \in Sides \cup {NoSide}
  <2>1. SidesOf(u) \subseteq Sides
    BY DEF SidesOf, PaperInv
  <2>2. QED BY <2>1
<1>3. Begin(r, [step |-> "store", level |-> level, side |-> given])
  BY <1>1
<1> HIDE DEF given
<1>4. [step |-> "store", level |-> level, side |-> given] \in PaperTask
  BY <1>2 DEF PaperTask, Levels
<1>5. r \notin Pending
  BY <1>3, NotPending DEF Begin, Idle
<1>6. UNCHANGED <<document, order, stored, team>>
  BY DEF upload, correspondenceVars, paperVars
<1>7. Len(order) \in Nat /\ order \in Seq(Nat)
  BY DEF PaperInv
<1>8. QED BY <1>3, <1>4, <1>5, <1>6, <1>7, PaperAside

LEMMA PutFile ==
  ASSUME PaperInv, NEW r \in Requests, put(r)
  PROVE  PaperInv' /\ UNCHANGED <<document, order>> /\ stored <= stored'
<1> DEFINE w == [task[r] EXCEPT !.step = "countDocuments"]
<1>1. w \in [step : {"store", "countDocuments"}, level : Levels, side : Sides \cup {NoSide}]
  BY PaperShape DEF put, At
<1>2. w \in PaperTask /\ w.step = "countDocuments"
  BY <1>1, PaperShape DEF PaperTask, put, At
<1>3. r \notin Pending
  BY NotPending DEF put, At
<1>4. Continue(r, w)
  BY DEF put
<1>5. UNCHANGED <<document, order, team>> /\ stored' = stored + 1
  BY DEF put
<1>6. Len(document) \in Nat /\ Len(order) \in Nat /\ stored \in Nat
      /\ document \in Seq(DocumentRow) /\ order \in Seq(Nat)
  BY DEF PaperInv
<1> HIDE DEF w
<1>7. PaperInv'
  BY <1>2, <1>3, <1>4, <1>5, <1>6, PaperMove
<1>8. QED BY <1>5, <1>6, <1>7

LEMMA CountDocuments ==
  ASSUME PaperInv, NEW r \in Requests, countDocuments(r)
  PROVE  PaperInv' /\ UNCHANGED <<document, order, stored>>
<1> DEFINE w == [step |-> "document", level |-> task[r].level, side |-> task[r].side, number |-> Len(document) + 1]
<1>1. Len(document) \in Nat /\ Len(order) \in Nat /\ stored \in Nat
      /\ document \in Seq(DocumentRow) /\ order \in Seq(Nat)
  BY DEF PaperInv
<1>2. w \in PaperTask /\ w.step = "document" /\ w.number = Len(document) + 1
  BY <1>1, PaperShape DEF PaperTask, countDocuments, At
<1>3. r \in Pending
  BY DEF Pending, countDocuments, At
<1>4. Continue(r, w)
  BY DEF countDocuments
<1>5. UNCHANGED <<document, order, stored, team>>
  BY DEF countDocuments, correspondenceVars, paperVars
<1> HIDE DEF w
<1>6. PaperInv'
  BY <1>1, <1>2, <1>3, <1>4, <1>5, PaperMove
<1>7. QED BY <1>5, <1>6

LEMMA CreateDocument ==
  ASSUME PaperInv, NumberedInOrder, NEW r \in Requests, createDocument(r)
  PROVE  PaperInv' /\ NumberedInOrder'
<1> DEFINE new == [number |-> task[r].number, level |-> task[r].level, side |-> task[r].side]
<1>1. Len(document) \in Nat /\ Len(order) \in Nat /\ stored \in Nat
      /\ document \in Seq(DocumentRow) /\ order \in Seq(Nat)
  BY DEF PaperInv
<1>2. new \in DocumentRow /\ new.number = task[r].number
  BY PaperShape DEF DocumentRow, createDocument, At
<1>3. task[r].number \in Nat \ {0} /\ task[r].number <= Len(document) + 1
  BY PaperShape DEF createDocument, At, PaperInv, Numbered
<1>4. \A i \in 1..Len(document) : document[i].number = i
  BY <1>1 DEF NumberedInOrder
<1>5. \/ document' = document
      \/ document' = Append(document, new) /\ new.number = Len(document) + 1
  <2>1. CASE task[r].number \in 1..Len(document)
    <3>1. task[r].number \in DOMAIN document /\ document[task[r].number].number = task[r].number
      BY <1>1, <1>4, <2>1
    <3>2. QED BY <3>1 DEF createDocument
  <2>2. CASE task[r].number = Len(document) + 1
    BY <1>2, <2>2 DEF createDocument
  <2>3. QED BY <1>1, <1>3, <2>1, <2>2
<1> HIDE DEF new
<1>6. /\ document' \in Seq(DocumentRow) /\ Len(document') \in Nat
      /\ Len(document) <= Len(document') /\ Len(document') <= Len(document) + 1
      /\ \A i \in 1..Len(document') : document'[i].number = i
  <2>1. CASE document' = document
    BY <1>1, <1>4, <2>1
  <2>2. CASE document' = Append(document, new) /\ new.number = Len(document) + 1
    <3>1. /\ document' \in Seq(DocumentRow) /\ Len(document') = Len(document) + 1
          /\ \A i \in 1..Len(document) : document'[i] = document[i]
          /\ document'[Len(document) + 1] = new
      BY <1>1, <1>2, <2>2, AppendProperties
    <3>2. QED BY <1>1, <1>4, <2>2, <3>1
  <2>3. QED BY <1>5, <2>1, <2>2
<1>7. r \in Pending
  BY DEF Pending, createDocument, At
<1>8. Idle \in PaperTask /\ Idle.step = "idle" /\ Continue(r, Idle)
  BY DEF createDocument, Finish, PaperTask, Idle
<1>9. UNCHANGED <<order, stored, team>>
  BY DEF createDocument
<1>10. PaperInv'
  BY <1>1, <1>6, <1>7, <1>8, <1>9, PaperMove
<1>11. Len(document') <= stored'
  <2>1. IsFiniteSet(Pending') /\ Cardinality(Pending') \in Nat
    BY RequestsAssumption, FS_Subset, FS_CardinalityType DEF Pending
  <2>2. Len(document') + Cardinality(Pending') <= stored'
    BY <1>10 DEF PaperInv
  <2>3. QED BY <1>1, <1>6, <1>9, <2>1, <2>2
<1>12. QED BY <1>1, <1>6, <1>9, <1>10, <1>11 DEF NumberedInOrder

LEMMA LoadViewable ==
  ASSUME PaperInv, NEW r \in Requests, loadViewable(r) \/ createActivity(r)
  PROVE  PaperInv' /\ UNCHANGED <<document, order, stored>>
<1>1. UNCHANGED <<document, order, stored, team>>
  BY DEF loadViewable, createActivity, correspondenceVars, paperVars
<1>2. \E w \in PaperTask : /\ Begin(r, w) \/ Continue(r, w)
                           /\ w.step \in {"activity", "idle"}
  <2>1. CASE loadViewable(r)
    <3>1. PICK u \in People, i \in DOMAIN document :
            Begin(r, [step |-> "activity", user |-> u, number |-> document[i].number])
      BY <2>1 DEF loadViewable
    <3>2. document[i].number \in Nat
      <4>1. document[i] \in DocumentRow
        BY DEF PaperInv
      <4>2. QED BY <4>1 DEF DocumentRow
    <3>3. [step |-> "activity", user |-> u, number |-> document[i].number] \in PaperTask
      BY <3>2 DEF PaperTask
    <3>4. QED BY <3>1, <3>3
  <2>2. CASE createActivity(r)
    BY <2>2 DEF createActivity, Finish, PaperTask, Idle
  <2>3. QED BY <2>1, <2>2
<1>3. r \notin Pending
  BY NotPending DEF loadViewable, createActivity, At, Begin, Idle
<1>4. Len(order) \in Nat /\ order \in Seq(Nat)
  BY DEF PaperInv
<1>5. QED BY <1>1, <1>2, <1>3, <1>4, PaperAside

LEMMA IssueProceduralOrder ==
  ASSUME PaperInv, NEW r \in Requests, issueProceduralOrder(r)
  PROVE  PaperInv' /\ UNCHANGED <<document, order, stored>>
<1> DEFINE w == [step |-> "order", number |-> Len(order) + 1]
<1>1. UNCHANGED <<document, order, stored, team>> /\ Begin(r, w)
  BY DEF issueProceduralOrder, correspondenceVars, paperVars
<1>2. Len(order) \in Nat /\ order \in Seq(Nat)
  BY DEF PaperInv
<1>3. w \in PaperTask /\ w.step = "order" /\ w.number = Len(order) + 1
  BY <1>2 DEF PaperTask
<1>4. r \notin Pending
  BY NotPending DEF issueProceduralOrder, Begin, Idle
<1> HIDE DEF w
<1>5. QED BY <1>1, <1>2, <1>3, <1>4, PaperAside

LEMMA CreateOrder ==
  ASSUME PaperInv, NumberedInOrder, NEW r \in Requests, createOrder(r)
  PROVE  PaperInv' /\ NumberedInOrder'
<1>1. Len(order) \in Nat /\ order \in Seq(Nat) /\ document \in Seq(DocumentRow)
  BY DEF PaperInv
<1>2. task[r].number \in Nat \ {0} /\ task[r].number <= Len(order) + 1
  BY PaperShape DEF createOrder, At, PaperInv, Numbered
<1>3. \A i \in 1..Len(order) : order[i] = i
  BY <1>1 DEF NumberedInOrder
<1>4. \/ order' = order
      \/ order' = Append(order, task[r].number) /\ task[r].number = Len(order) + 1
  <2>1. CASE task[r].number \in 1..Len(order)
    <3>1. task[r].number \in DOMAIN order /\ order[task[r].number] = task[r].number
      BY <1>1, <1>3, <2>1
    <3>2. QED BY <3>1 DEF createOrder
  <2>2. CASE task[r].number = Len(order) + 1
    BY <2>2 DEF createOrder
  <2>3. QED BY <1>1, <1>2, <2>1, <2>2
<1>5. /\ order' \in Seq(Nat) /\ Len(order') \in Nat /\ Len(order) <= Len(order')
      /\ \A i \in 1..Len(order') : order'[i] = i
  <2>1. CASE order' = order
    BY <1>1, <1>3, <2>1
  <2>2. CASE order' = Append(order, task[r].number) /\ task[r].number = Len(order) + 1
    <3>1. /\ order' \in Seq(Nat) /\ Len(order') = Len(order) + 1
          /\ \A i \in 1..Len(order) : order'[i] = order[i]
          /\ order'[Len(order) + 1] = task[r].number
      BY <1>1, <1>2, <2>2, AppendProperties
    <3>2. QED BY <1>1, <1>3, <2>2, <3>1
  <2>3. QED BY <1>4, <2>1, <2>2
<1>6. UNCHANGED <<document, stored, team>>
  BY DEF createOrder
<1>7. Idle \in PaperTask /\ Idle.step = "idle" /\ Continue(r, Idle)
  BY DEF createOrder, Finish, PaperTask, Idle
<1>8. r \notin Pending
  BY NotPending DEF createOrder, At
<1>9. PaperInv'
  BY <1>1, <1>5, <1>6, <1>7, <1>8, PaperAside
<1>10. QED BY <1>1, <1>5, <1>6, <1>9 DEF NumberedInOrder

LEMMA PaperPreserved ==
  ASSUME PaperInv, NumberedInOrder, NEW r \in Requests, DocumentStep(r)
  PROVE  PaperInv' /\ NumberedInOrder'
<1>1. CASE createDocument(r) \/ createOrder(r)
  BY <1>1, CreateDocument, CreateOrder
<1>2. CASE put(r)
  <2>1. PaperInv' /\ UNCHANGED <<document, order>> /\ stored <= stored'
    BY <1>2, PutFile
  <2>2. Len(document) \in Nat /\ stored \in Nat /\ stored' \in Nat
    BY <2>1 DEF PaperInv
  <2>3. QED BY <2>1, <2>2 DEF NumberedInOrder
<1>3. CASE \/ upload(r) \/ countDocuments(r) \/ loadViewable(r) \/ createActivity(r)
           \/ issueProceduralOrder(r)
  <2>1. PaperInv' /\ UNCHANGED <<document, order, stored>>
    BY <1>3, Upload, CountDocuments, LoadViewable, IssueProceduralOrder
  <2>2. QED BY <2>1 DEF NumberedInOrder
<1>4. QED BY <1>1, <1>2, <1>3 DEF DocumentStep
-----------------------------------------------------------------------------
(* Legal holds and the sweep *)

LEMMA HoldShape ==
  ASSUME HoldData, NEW r \in Requests
  PROVE  /\ task[r].step \in {"flag", "countHolds", "unflag"} =>
              task[r] = [step |-> task[r].step, case |-> task[r].case] /\ task[r].case \in Cases
         /\ task[r].step = "release" => task[r].hold \in Nat
         /\ task[r].step = "sweep" =>
              task[r] \in [step : {"sweep"}, left : SUBSET Cases, held : SUBSET Cases]
         /\ task[r].step = "tombstone" =>
              /\ task[r].case \in Cases
              /\ task[r].left \in SUBSET Cases /\ task[r].held \in SUBSET Cases
BY DEF HoldData, HoldTask, Idle

\* When one request at a time is at work, nobody else is when it takes a step.
LEMMA OthersIdle ==
  ASSUME HoldInv, NEW r \in Requests, NEW w, Begin(r, w) \/ (Continue(r, w) /\ task[r] # Idle),
         Serial'
  PROVE  /\ Serial
         /\ \A s \in Requests : s # r => task[s] = Idle /\ task'[s] = Idle
         /\ Begin(r, w) => task[r] = Idle
<1>1. CASE Begin(r, w)
  BY <1>1 DEF Begin, Serial, Quiet, HoldInv, HoldData
<1>2. CASE Continue(r, w) /\ task[r] # Idle
  <2>1. Serial
    BY <1>2 DEF Continue, Serial
  <2>2. \A s \in Requests : s # r => task[s] = Idle
    BY <1>2, <2>1 DEF HoldInv, OneByOne, Alone
  <2>3. \A s \in Requests : s # r => task'[s] = task[s]
    BY <1>2 DEF Continue, HoldInv, HoldData
  <2>4. QED BY <1>2, <2>1, <2>2, <2>3 DEF Begin
<1>3. QED BY <1>1, <1>2

\* What a step leaves alone for the deletions: no case comes back.
LEMMA HoldMove ==
  ASSUME HoldInv, NEW r \in Requests, NEW w \in HoldTask,
         Begin(r, w) \/ (Continue(r, w) /\ task[r] # Idle),
         UNCHANGED overrides,
         record' \in [Cases -> CaseRow], hold' \in Seq(HoldRow), swept' \in Seq(SweptRow),
         DOMAIN hold \subseteq DOMAIN hold',
         w.step = "release" => w.hold \in DOMAIN hold',
         \A c \in Cases : record[c].deleted => record'[c].deleted,
         w.step = "tombstone" => record'[w.case].deleted,
         \A i \in DOMAIN swept' : swept'[i].action = "SOFT_DELETED" => record'[swept'[i].case].deleted,
         Serial' => /\ \A c \in Cases : ActiveHold(c)' =>
                         record'[c].legalHold \/ w = [step |-> "flag", case |-> c]
                    /\ w.step = "unflag" => ~ActiveHold(w.case)'
                    /\ w.step \in {"sweep", "tombstone"} => \A c \in w.left \ w.held : ~ActiveHold(c)'
  PROVE  HoldInv'
<1>1. /\ task' \in [Requests -> HoldTask]
      /\ task'[r] = w
      /\ \A s \in Requests : s # r => task'[s] = task[s]
  BY DEF HoldInv, HoldData, Begin, Continue
<1>2. HoldData'
  BY <1>1 DEF HoldInv, HoldData
<1>3. \A s \in Requests : task'[s].step = "release" => task'[s].hold \in DOMAIN hold'
  BY <1>1 DEF HoldInv
<1>4. \A s \in Requests : task[s].step = "tombstone" => task[s].case \in Cases
  BY HoldShape DEF HoldInv
<1>5. Deletions'
  BY <1>1, <1>4 DEF HoldInv, Deletions
<1>6. ASSUME Serial' PROVE OneByOne'
  <2>1. \A s \in Requests : s # r => task'[s] = Idle
    BY <1>6, OthersIdle
  <2>2. Alone'
    BY <2>1 DEF Alone
  <2>3. \A c \in Cases : ActiveHold(c)' => Flagged(c)'
    BY <1>1, <1>6 DEF Flagged
  <2>4. ASSUME NEW s \in Requests PROVE Free(task[s])'
    <3>1. CASE s = r
      BY <1>1, <1>6, <3>1 DEF Free
    <3>2. CASE s # r
      BY <2>1, <3>2 DEF Free, Idle
    <3>3. QED BY <3>1, <3>2
  <2>5. QED BY <2>2, <2>3, <2>4 DEF OneByOne
<1>7. QED BY <1>2, <1>3, <1>5, <1>6 DEF HoldInv

\* Of requests one at a time, unless the one at work is about to set a flag,
\* each hold in force has its flag.
LEMMA FlagsUpToDate ==
  ASSUME HoldInv, NEW r \in Requests, NEW w, Begin(r, w) \/ (Continue(r, w) /\ task[r] # Idle),
         Serial', NEW c \in Cases, ActiveHold(c), task[r] # [step |-> "flag", case |-> c]
  PROVE  record[c].legalHold
<1>1. Serial /\ \A s \in Requests : s # r => task[s] = Idle
  BY OthersIdle
<1>2. Idle # [step |-> "flag", case |-> c]
  BY DEF Idle
<1>3. QED BY <1>1, <1>2 DEF HoldInv, OneByOne, Flagged

\* A step that only goes on, of a request that was not about to set a flag.
LEMMA HoldAside ==
  ASSUME HoldInv, NEW r \in Requests, NEW w \in HoldTask,
         Begin(r, w) \/ (Continue(r, w) /\ task[r] # Idle), task[r].step # "flag",
         UNCHANGED <<overrides, record, hold, swept>>,
         w.step = "release" => w.hold \in DOMAIN hold,
         w.step # "tombstone",
         Serial' => /\ w.step = "unflag" => ~ActiveHold(w.case)
                    /\ w.step = "sweep" => \A c \in w.left \ w.held : ~ActiveHold(c)
  PROVE  HoldInv'
<1>1. \A c : ActiveHold(c)' <=> ActiveHold(c)
  BY DEF ActiveHold
<1>2. ASSUME Serial', NEW c \in Cases, ActiveHold(c) PROVE record[c].legalHold
  <2>1. task[r] # [step |-> "flag", case |-> c]
    OBVIOUS
  <2>2. QED BY <1>2, <2>1, FlagsUpToDate
<1>3. \A i \in DOMAIN swept' : swept'[i].action = "SOFT_DELETED" => record'[swept'[i].case].deleted
  BY DEF HoldInv, Deletions
<1>4. QED BY <1>1, <1>2, <1>3, HoldMove DEF HoldInv, HoldData

LEMMA PlaceLegalHold ==
  ASSUME HoldInv, NEW r \in Requests, placeLegalHold(r)
  PROVE  HoldInv'
<1>1. PICK c \in Cases : /\ hold' = Append(hold, [case |-> c, status |-> "ACTIVE"])
                         /\ Begin(r, [step |-> "flag", case |-> c])
  BY DEF placeLegalHold
<1> DEFINE w == [step |-> "flag", case |-> c]
           new == [case |-> c, status |-> "ACTIVE"]
<1>2. w \in HoldTask /\ new \in HoldRow
  BY DEF HoldTask, HoldRow
<1>3. hold \in Seq(HoldRow) /\ Len(hold) \in Nat
  BY DEF HoldInv, HoldData
<1>4. /\ hold' \in Seq(HoldRow) /\ Len(hold') = Len(hold) + 1
      /\ \A i \in 1..Len(hold) : hold'[i] = hold[i]
      /\ hold'[Len(hold) + 1] = new
  BY <1>1, <1>2, <1>3, AppendProperties
<1>5. UNCHANGED <<overrides, record, swept>>
  BY DEF placeLegalHold, policyVars
<1>6. DOMAIN hold \subseteq DOMAIN hold'
  BY <1>3, <1>4
<1>7. ASSUME Serial', NEW d \in Cases, ActiveHold(d)', d # c PROVE record'[d].legalHold
  <2>1. ActiveHold(d)
    BY <1>3, <1>4, <1>7 DEF ActiveHold
  <2>2. task[r] = Idle
    BY <1>1, <1>7, OthersIdle
  <2>3. task[r] # [step |-> "flag", case |-> d]
    BY <2>2 DEF Idle
  <2>4. QED BY <1>1, <1>5, <1>7, <2>1, <2>3, FlagsUpToDate
<1>8. \A i \in DOMAIN swept' : swept'[i].action = "SOFT_DELETED" => record'[swept'[i].case].deleted
  BY <1>5 DEF HoldInv, Deletions
<1>9. QED BY <1>1, <1>2, <1>4, <1>5, <1>6, <1>7, <1>8, HoldMove DEF HoldInv, HoldData

LEMMA SweptCases ==
  ASSUME HoldData, NEW i \in DOMAIN swept
  PROVE  swept[i].case \in Cases
<1>1. swept[i] \in SweptRow
  BY DEF HoldData
<1>2. QED BY <1>1 DEF SweptRow

\* The flag of one case is written, and nothing of another.
LEMMA FlagWritten ==
  ASSUME HoldInv, NEW c \in Cases, NEW flag \in BOOLEAN, SetFlag(c, flag)
  PROVE  /\ record' \in [Cases -> CaseRow]
         /\ record'[c].legalHold = flag
         /\ \A d \in Cases : record'[d].deleted = record[d].deleted
         /\ \A d \in Cases : d # c => record'[d].legalHold = record[d].legalHold
<1>1. record \in [Cases -> CaseRow]
  BY DEF HoldInv, HoldData
<1>2. record[c] \in CaseRow
  BY <1>1
<1>3. [record[c] EXCEPT !.legalHold = flag, !.status = IF flag THEN "LEGAL_HOLD" ELSE "ACTIVE"] \in CaseRow
  BY <1>2 DEF CaseRow
<1>4. record' = [record EXCEPT ![c] =
        [record[c] EXCEPT !.legalHold = flag, !.status = IF flag THEN "LEGAL_HOLD" ELSE "ACTIVE"]]
  BY <1>1, <1>2 DEF SetFlag, CaseRow
<1>5. QED BY <1>1, <1>2, <1>3, <1>4 DEF CaseRow

LEMMA SetFlagStep ==
  ASSUME HoldInv, NEW r \in Requests, setFlag(r)
  PROVE  HoldInv'
<1>1. task[r].case \in Cases /\ task[r] = [step |-> "flag", case |-> task[r].case]
  BY HoldShape DEF setFlag, At, HoldInv
<1>2. /\ record' \in [Cases -> CaseRow]
      /\ record'[task[r].case].legalHold = TRUE
      /\ \A d \in Cases : record'[d].deleted = record[d].deleted
      /\ \A d \in Cases : d # task[r].case => record'[d].legalHold = record[d].legalHold
  BY <1>1, FlagWritten DEF setFlag
<1>3. UNCHANGED <<overrides, hold, swept>>
  BY DEF setFlag, policyVars
<1>4. Idle \in HoldTask /\ Idle.step = "idle" /\ Continue(r, Idle) /\ task[r] # Idle
  BY <1>1 DEF setFlag, Finish, HoldTask, Idle
<1>5. ASSUME Serial', NEW d \in Cases, ActiveHold(d)' PROVE record'[d].legalHold
  <2>1. ActiveHold(d)
    BY <1>3, <1>5 DEF ActiveHold
  <2>2. CASE d = task[r].case
    BY <1>2, <2>2
  <2>3. CASE d # task[r].case
    <3>1. task[r] # [step |-> "flag", case |-> d]
      BY <1>1, <2>3
    <3>2. QED BY <1>2, <1>4, <1>5, <2>1, <2>3, <3>1, FlagsUpToDate
  <2>4. QED BY <2>2, <2>3
<1>6. \A i \in DOMAIN swept' : swept'[i].action = "SOFT_DELETED" => record'[swept'[i].case].deleted
  <2>1. \A i \in DOMAIN swept : swept[i].case \in Cases
    BY SweptCases DEF HoldInv
  <2>2. QED BY <1>2, <1>3, <2>1 DEF HoldInv, Deletions
<1>7. QED BY <1>2, <1>3, <1>4, <1>5, <1>6, HoldMove DEF HoldInv, HoldData

LEMMA ReleaseLegalHold ==
  ASSUME HoldInv, NEW r \in Requests, releaseLegalHold(r)
  PROVE  HoldInv'
<1>1. PICK h \in DOMAIN hold : Begin(r, [step |-> "release", hold |-> h])
  BY DEF releaseLegalHold
<1>2. h \in Nat
  BY DEF HoldInv, HoldData
<1>3. [step |-> "release", hold |-> h] \in HoldTask
  BY <1>2 DEF HoldTask
<1>4. UNCHANGED <<overrides, record, hold, swept>>
  BY DEF releaseLegalHold, retentionVars, policyVars, holdVars
<1>5. task[r].step # "flag"
  BY <1>1 DEF Begin, Idle
<1>6. QED BY <1>1, <1>3, <1>4, <1>5, HoldAside

LEMMA SetReleased ==
  ASSUME HoldInv, NEW r \in Requests, setReleased(r)
  PROVE  HoldInv'
<1> DEFINE h == task[r].hold
           w == [step |-> "countHolds", case |-> hold[h].case]
<1>1. hold \in Seq(HoldRow) /\ h \in DOMAIN hold
  BY DEF setReleased, At, HoldInv, HoldData
<1>2. hold[h] \in HoldRow
  BY <1>1
<1>3. [hold[h] EXCEPT !.status = "RELEASED"] \in HoldRow
  BY <1>2 DEF HoldRow
<1>4. hold' = [hold EXCEPT ![h] = [hold[h] EXCEPT !.status = "RELEASED"]]
  BY DEF setReleased
<1>5. hold' \in Seq(HoldRow) /\ DOMAIN hold' = DOMAIN hold
  BY <1>1, <1>3, <1>4
<1>6. w \in HoldTask
  BY <1>2 DEF HoldTask, HoldRow
<1>7. UNCHANGED <<overrides, record, swept>> /\ Continue(r, w) /\ task[r].step = "release"
  BY DEF setReleased, policyVars, At
<1>8. ASSUME NEW c \in Cases, ActiveHold(c)' PROVE ActiveHold(c)
  BY <1>1, <1>2, <1>4, <1>5, <1>8 DEF ActiveHold, HoldRow
<1>9. task[r] # Idle /\ \A c \in Cases : task[r] # [step |-> "flag", case |-> c]
  BY <1>7 DEF Idle
<1>10. \A i \in DOMAIN swept' : swept'[i].action = "SOFT_DELETED" => record'[swept'[i].case].deleted
  BY <1>7 DEF HoldInv, Deletions
<1>11. w.step = "countHolds"
  OBVIOUS
<1> HIDE DEF w, h
<1>12. Serial' => \A c \in Cases : ActiveHold(c)' => record'[c].legalHold
  BY <1>7, <1>8, <1>9, FlagsUpToDate
<1>13. QED BY <1>5, <1>6, <1>7, <1>9, <1>10, <1>11, <1>12, HoldMove DEF HoldInv, HoldData

LEMMA CountHolds ==
  ASSUME HoldInv, NEW r \in Requests, countHolds(r)
  PROVE  HoldInv'
<1>1. task[r].case \in Cases /\ task[r] = [step |-> "countHolds", case |-> task[r].case]
  BY HoldShape DEF countHolds, At, HoldInv
<1>2. UNCHANGED <<overrides, record, hold, swept>>
  BY DEF countHolds, retentionVars, policyVars, holdVars
<1>3. task[r].step # "flag" /\ task[r] # Idle
  BY <1>1 DEF Idle
<1>4. CASE ActiveHold(task[r].case)
  <2>1. Idle \in HoldTask /\ Idle.step = "idle" /\ Continue(r, Idle)
    BY <1>4 DEF countHolds, Finish, HoldTask, Idle
  <2>2. QED BY <1>2, <1>3, <2>1, HoldAside
<1>5. CASE ~ActiveHold(task[r].case)
  <2>1. [task[r] EXCEPT !.step = "unflag"] = [step |-> "unflag", case |-> task[r].case]
    BY <1>1
  <2>2. Continue(r, [step |-> "unflag", case |-> task[r].case])
    BY <1>5, <2>1 DEF countHolds
  <2>3. [step |-> "unflag", case |-> task[r].case] \in HoldTask
    BY <1>1 DEF HoldTask
  <2>4. QED BY <1>2, <1>3, <1>5, <2>2, <2>3, HoldAside
<1>6. QED BY <1>4, <1>5

LEMMA ClearFlag ==
  ASSUME HoldInv, NEW r \in Requests, clearFlag(r)
  PROVE  HoldInv'
<1>1. task[r].case \in Cases /\ task[r] = [step |-> "unflag", case |-> task[r].case]
  BY HoldShape DEF clearFlag, At, HoldInv
<1>2. /\ record' \in [Cases -> CaseRow]
      /\ \A d \in Cases : record'[d].deleted = record[d].deleted
      /\ \A d \in Cases : d # task[r].case => record'[d].legalHold = record[d].legalHold
  BY <1>1, FlagWritten DEF clearFlag
<1>3. UNCHANGED <<overrides, hold, swept>>
  BY DEF clearFlag, policyVars
<1>4. Idle \in HoldTask /\ Idle.step = "idle" /\ Continue(r, Idle) /\ task[r] # Idle
  BY <1>1 DEF clearFlag, Finish, HoldTask, Idle
<1>5. ASSUME Serial', NEW d \in Cases, ActiveHold(d)' PROVE record'[d].legalHold
  <2>1. ActiveHold(d)
    BY <1>3, <1>5 DEF ActiveHold
  <2>2. Serial
    BY <1>4, <1>5, OthersIdle
  <2>3. d # task[r].case
    BY <1>1, <2>1, <2>2 DEF HoldInv, OneByOne, Free
  <2>4. task[r] # [step |-> "flag", case |-> d]
    BY <1>1
  <2>5. QED BY <1>2, <1>4, <1>5, <2>1, <2>3, <2>4, FlagsUpToDate
<1>6. \A i \in DOMAIN swept' : swept'[i].action = "SOFT_DELETED" => record'[swept'[i].case].deleted
  <2>1. \A i \in DOMAIN swept : swept[i].case \in Cases
    BY SweptCases DEF HoldInv
  <2>2. QED BY <1>2, <1>3, <2>1 DEF HoldInv, Deletions
<1>7. QED BY <1>2, <1>3, <1>4, <1>5, <1>6, HoldMove DEF HoldInv, HoldData

LEMMA ExecuteSweep ==
  ASSUME HoldInv, NEW r \in Requests, executeSweep(r)
  PROVE  HoldInv'
<1> DEFINE days == getPolicy["CASE_RECORD"].days
<1>1. days \in Nat
  BY DEF getPolicy, HoldInv, HoldData, DEFAULT_RETENTION_POLICY, SAFEGUARDED_CATEGORIES
<1>2. Begin(r, [step |-> "eligible", days |-> days])
  BY DEF executeSweep
<1> HIDE DEF days
<1>3. [step |-> "eligible", days |-> days] \in HoldTask
  BY <1>1 DEF HoldTask
<1>4. UNCHANGED <<overrides, record, hold, swept>>
  BY DEF executeSweep, retentionVars, policyVars, holdVars
<1>5. task[r].step # "flag"
  BY <1>2 DEF Begin, Idle
<1>6. QED BY <1>2, <1>3, <1>4, <1>5, HoldAside

LEMMA SoftDeleteEligibleCases ==
  ASSUME HoldInv, NEW r \in Requests, softDeleteEligibleCases(r)
  PROVE  HoldInv'
<1> DEFINE left == Eligible(task[r].days)
           held == {c \in left : record[c].legalHold}
           w == [step |-> "sweep", left |-> left, held |-> held]
<1>1. left \subseteq Cases /\ held \subseteq Cases
  BY DEF Eligible
<1>2. Continue(r, w)
  BY DEF softDeleteEligibleCases
<1>3. UNCHANGED <<overrides, record, hold, swept>>
  BY DEF softDeleteEligibleCases, retentionVars, policyVars, holdVars
<1>4. task[r].step = "eligible"
  BY DEF softDeleteEligibleCases, At
<1>5. \A c \in left \ held : ~record[c].legalHold
  OBVIOUS
<1>6. w \in HoldTask
  BY <1>1 DEF HoldTask
<1>7. task[r] # Idle /\ \A c \in Cases : task[r] # [step |-> "flag", case |-> c]
  BY <1>4 DEF Idle
<1> HIDE DEF left, held
<1>8. Serial' => \A c \in left \ held : ~ActiveHold(c)
  BY <1>1, <1>2, <1>5, <1>7, FlagsUpToDate
<1>9. QED BY <1>2, <1>3, <1>4, <1>6, <1>7, <1>8, HoldAside

LEMMA CaseDeleted ==
  ASSUME HoldInv, NEW c \in Cases, record' = [record EXCEPT ![c].deleted = TRUE, ![c].status = "DELETED"]
  PROVE  /\ record' \in [Cases -> CaseRow] /\ record'[c].deleted
         /\ \A d \in Cases : record'[d].legalHold = record[d].legalHold
         /\ \A d \in Cases : record[d].deleted => record'[d].deleted
         /\ \A d \in Cases : d # c => record'[d] = record[d]
<1>1. record \in [Cases -> CaseRow]
  BY DEF HoldInv, HoldData
<1>2. record[c] \in CaseRow
  BY <1>1
<1>3. [record[c] EXCEPT !.deleted = TRUE, !.status = "DELETED"] \in CaseRow
  BY <1>2 DEF CaseRow
<1>4. record' = [record EXCEPT ![c] = [record[c] EXCEPT !.deleted = TRUE, !.status = "DELETED"]]
  BY <1>1, <1>2 DEF CaseRow
<1>5. QED BY <1>1, <1>2, <1>3, <1>4 DEF CaseRow

LEMMA SweepCase ==
  ASSUME HoldInv, NEW r \in Requests, sweepCase(r)
  PROVE  HoldInv'
<1>1. task[r] \in [step : {"sweep"}, left : SUBSET Cases, held : SUBSET Cases]
  BY HoldShape DEF sweepCase, At, HoldInv
<1>2. task[r] # Idle /\ \A c \in Cases : task[r] # [step |-> "flag", case |-> c]
  BY <1>1 DEF Idle
<1>3. UNCHANGED <<overrides, hold>>
  BY DEF sweepCase, policyVars
<1>4. \A c : ActiveHold(c)' <=> ActiveHold(c)
  BY <1>3 DEF ActiveHold
<1>5. CASE task[r].left = {} /\ Finish(r) /\ UNCHANGED <<record, swept>>
  <2>1. Idle \in HoldTask /\ Idle.step = "idle" /\ Continue(r, Idle)
    BY <1>5 DEF Finish, HoldTask, Idle
  <2>2. QED BY <1>1, <1>2, <1>3, <1>5, <2>1, HoldAside
<1>6. ASSUME NEW c \in task[r].left \cap task[r].held, Sweep(c, "SKIPPED_LEGAL_HOLD"),
             Continue(r, [task[r] EXCEPT !.left = @ \ {c}]), UNCHANGED record
      PROVE  HoldInv'
  <2> DEFINE w == [task[r] EXCEPT !.left = @ \ {c}]
             new == [case |-> c, action |-> "SKIPPED_LEGAL_HOLD"]
  <2>1. w \in [step : {"sweep"}, left : SUBSET Cases, held : SUBSET Cases]
    BY <1>1
  <2>2. w \in HoldTask /\ w.left \ w.held \subseteq task[r].left \ task[r].held
    BY <1>1, <2>1 DEF HoldTask
  <2>3. swept \in Seq(SweptRow) /\ new \in SweptRow
    BY <1>1 DEF HoldInv, HoldData, SweptRow
  <2>4. /\ swept' \in Seq(SweptRow) /\ Len(swept') = Len(swept) + 1
        /\ \A i \in 1..Len(swept) : swept'[i] = swept[i]
        /\ swept'[Len(swept) + 1] = new
    BY <1>6, <2>3, AppendProperties DEF Sweep
  <2>5. \A i \in DOMAIN swept' : swept'[i].action = "SOFT_DELETED" => record'[swept'[i].case].deleted
    BY <1>6, <2>3, <2>4 DEF HoldInv, Deletions
  <2>6. Continue(r, w)
    BY <1>6
  <2>7. w.step = "sweep"
    BY <2>1
  <2> HIDE DEF w
  <2>8. ASSUME Serial', NEW d \in Cases, ActiveHold(d)' PROVE record'[d].legalHold
    BY <1>2, <1>4, <1>6, <2>6, <2>8, FlagsUpToDate
  <2>9. Serial' => \A d \in w.left \ w.held : ~ActiveHold(d)'
    <3>1. Serial' => Serial
      BY <1>2, <2>6, OthersIdle
    <3>2. QED BY <1>1, <1>4, <2>2, <3>1 DEF HoldInv, OneByOne, Free
  <2>10. UNCHANGED record
    BY <1>6
  <2>11. QED BY <1>2, <1>3, <2>2, <2>4, <2>5, <2>6, <2>7, <2>8, <2>9, <2>10, HoldMove DEF HoldInv, HoldData
<1>7. ASSUME NEW c \in task[r].left \ task[r].held,
             record' = [record EXCEPT ![c].deleted = TRUE, ![c].status = "DELETED"],
             Continue(r, [step |-> "tombstone", case |-> c, left |-> task[r].left \ {c}, held |-> task[r].held]),
             UNCHANGED swept
      PROVE  HoldInv'
  <2> DEFINE w == [step |-> "tombstone", case |-> c, left |-> task[r].left \ {c}, held |-> task[r].held]
  <2>1. c \in Cases
    BY <1>1
  <2>2. w \in HoldTask /\ w.left \ w.held \subseteq task[r].left \ task[r].held
    BY <1>1, <2>1 DEF HoldTask
  <2>3. w.step = "tombstone" /\ w.case = c /\ Continue(r, w)
    BY <1>7
  <2> HIDE DEF w
  <2>4. /\ record' \in [Cases -> CaseRow] /\ record'[c].deleted
        /\ \A d \in Cases : record'[d].legalHold = record[d].legalHold
        /\ \A d \in Cases : record[d].deleted => record'[d].deleted
    BY <1>7, <2>1, CaseDeleted
  <2>5. ASSUME Serial', NEW d \in Cases, ActiveHold(d)' PROVE record'[d].legalHold
    <3>1. record[d].legalHold
      BY <1>2, <1>4, <2>3, <2>5, FlagsUpToDate
    <3>2. QED BY <2>4, <3>1
  <2>6. Serial' => \A d \in w.left \ w.held : ~ActiveHold(d)'
    <3>1. Serial' => Serial
      BY <1>2, <2>3, OthersIdle
    <3>2. QED BY <1>1, <1>4, <2>2, <3>1 DEF HoldInv, OneByOne, Free
  <2>7. \A i \in DOMAIN swept' : swept'[i].action = "SOFT_DELETED" => record'[swept'[i].case].deleted
    <3>1. \A i \in DOMAIN swept : swept[i].case \in Cases
      BY SweptCases DEF HoldInv
    <3>2. \A i \in DOMAIN swept : swept[i].action = "SOFT_DELETED" => record[swept[i].case].deleted
      BY DEF HoldInv, Deletions
    <3>3. swept' = swept
      BY <1>7
    <3>4. QED BY <2>4, <3>1, <3>2, <3>3
  <2>8. /\ w.step # "release" /\ w.step # "unflag"
        /\ w.step = "tombstone" => record'[w.case].deleted
        /\ swept' \in Seq(SweptRow) /\ DOMAIN hold \subseteq DOMAIN hold' /\ hold' \in Seq(HoldRow)
    BY <1>3, <1>7, <2>3, <2>4 DEF HoldInv, HoldData
  <2>9. w \in HoldTask /\ Continue(r, w) /\ task[r] # Idle /\ UNCHANGED overrides
    BY <1>2, <1>3, <2>2, <2>3
  <2>10. Serial' => \A d \in Cases : ActiveHold(d)' => record'[d].legalHold
    BY <2>5
  <2>11. record' \in [Cases -> CaseRow] /\ \A d \in Cases : record[d].deleted => record'[d].deleted
    BY <2>4
  <2>12. QED BY <2>6, <2>7, <2>8, <2>9, <2>10, <2>11, HoldMove
<1>8. QED BY <1>5, <1>6, <1>7 DEF sweepCase

LEMMA WriteTombstone ==
  ASSUME HoldInv, NEW r \in Requests, writeTombstone(r)
  PROVE  HoldInv'
<1> DEFINE c == task[r].case
           w == [step |-> "sweep", left |-> task[r].left, held |-> task[r].held]
           new == [case |-> c, action |-> "SOFT_DELETED"]
<1>1. /\ task[r].step = "tombstone" /\ c \in Cases
      /\ task[r].left \in SUBSET Cases /\ task[r].held \in SUBSET Cases
  BY HoldShape DEF writeTombstone, At, HoldInv
<1>2. task[r] # Idle /\ \A d \in Cases : task[r] # [step |-> "flag", case |-> d]
  BY <1>1 DEF Idle
<1>3. UNCHANGED <<overrides, record, hold>>
  BY DEF writeTombstone, policyVars
<1>4. \A d : ActiveHold(d)' <=> ActiveHold(d)
  BY <1>3 DEF ActiveHold
<1>5. record[c].deleted
  BY <1>1 DEF HoldInv, Deletions
<1>6. swept \in Seq(SweptRow) /\ new \in SweptRow
  BY <1>1 DEF HoldInv, HoldData, SweptRow
<1>7. /\ swept' \in Seq(SweptRow) /\ Len(swept') = Len(swept) + 1
      /\ \A i \in 1..Len(swept) : swept'[i] = swept[i]
      /\ swept'[Len(swept) + 1] = new
  BY <1>6, AppendProperties DEF writeTombstone, Sweep
<1>8. \A i \in DOMAIN swept' : swept'[i].action = "SOFT_DELETED" => record'[swept'[i].case].deleted
  BY <1>3, <1>5, <1>6, <1>7 DEF HoldInv, Deletions
<1>9. w \in HoldTask /\ w.step = "sweep" /\ w.left = task[r].left /\ w.held = task[r].held
  BY <1>1 DEF HoldTask
<1>10. Continue(r, w)
  BY DEF writeTombstone
<1> HIDE DEF w, c
<1>11. ASSUME Serial', NEW d \in Cases, ActiveHold(d)' PROVE record'[d].legalHold
  BY <1>2, <1>3, <1>4, <1>10, <1>11, FlagsUpToDate
<1>12. Serial' => \A d \in w.left \ w.held : ~ActiveHold(d)'
  <2>1. Serial' => Serial
    BY <1>2, <1>10, OthersIdle
  <2>2. QED BY <1>1, <1>4, <1>9, <2>1 DEF HoldInv, OneByOne, Free
<1>13. QED BY <1>2, <1>3, <1>7, <1>8, <1>9, <1>10, <1>11, <1>12, HoldMove DEF HoldInv, HoldData

\* Time passes for a closed case, and nothing else of it changes.
LEMMA Aged ==
  ASSUME HoldInv, age
  PROVE  /\ record' \in [Cases -> CaseRow]
         /\ \A d \in Cases : record'[d].deleted = record[d].deleted /\ record'[d].legalHold = record[d].legalHold
<1>1. record \in [Cases -> CaseRow]
  BY DEF HoldInv, HoldData
<1>2. PICK c \in Cases : record' = [record EXCEPT ![c].age = @ + 1]
  BY DEF age
<1>3. record[c] \in CaseRow
  BY <1>1
<1>4. [record[c] EXCEPT !.age = @ + 1] \in CaseRow
  BY <1>3 DEF CaseRow
<1>5. record' = [record EXCEPT ![c] = [record[c] EXCEPT !.age = @ + 1]]
  BY <1>1, <1>2
<1>6. QED BY <1>1, <1>3, <1>4, <1>5 DEF CaseRow

LEMMA Age ==
  ASSUME HoldInv, age
  PROVE  HoldInv'
<1>1. /\ record' \in [Cases -> CaseRow]
      /\ \A d \in Cases : record'[d].deleted = record[d].deleted /\ record'[d].legalHold = record[d].legalHold
  BY Aged
<1>2. UNCHANGED <<task, alone, overrides, hold, swept>>
  BY DEF age, policyVars
<1>3. HoldData'
  BY <1>1, <1>2 DEF HoldInv, HoldData
<1>4. Deletions'
  <2>1. \A i \in DOMAIN swept : swept[i].case \in Cases
    BY SweptCases DEF HoldInv
  <2>2. \A r \in Requests : task[r].step = "tombstone" => task[r].case \in Cases
    BY HoldShape DEF HoldInv
  <2>3. QED BY <1>1, <1>2, <2>1, <2>2 DEF HoldInv, Deletions
<1>5. OneByOne => OneByOne'
  <2>1. \A c : ActiveHold(c)' <=> ActiveHold(c)
    BY <1>2 DEF ActiveHold
  <2>2. QED BY <1>1, <1>2, <2>1 DEF OneByOne, Alone, Flagged, Free
<1>6. QED BY <1>2, <1>3, <1>4, <1>5 DEF HoldInv, Serial

LEMMA HoldPreserved ==
  ASSUME HoldInv, NEW r \in Requests, HoldStep(r) \/ SweepStep(r)
  PROVE  HoldInv'
BY PlaceLegalHold, SetFlagStep, ReleaseLegalHold, SetReleased, CountHolds, ClearFlag,
   ExecuteSweep, SoftDeleteEligibleCases, SweepCase, WriteTombstone
   DEF HoldStep, SweepStep
-----------------------------------------------------------------------------
(* Messages *)

\* A call of one request at a time that is done at once, or is the first of several.
LEMMA MessageMove ==
  ASSUME MessageInv, NEW r \in Requests, NEW w \in MessageTask,
         Begin(r, w) \/ (Continue(r, w) /\ task[r] # Idle),
         UNCHANGED team, message' \in Seq(MessageRow), Serial' => Told(w)
  PROVE  MessageInv'
<1>1. /\ task' \in [Requests -> MessageTask]
      /\ task'[r] = w
      /\ \A s \in Requests : s # r => task'[s] = task[s]
  BY DEF MessageInv, Begin, Continue
<1>2. ASSUME Serial' PROVE \A s \in Requests : s # r => task[s] = Idle
  BY <1>2 DEF MessageInv, Alone, Begin, Continue, Serial, Quiet
<1>3. Told(w)' <=> Told(w)
  BY DEF Told, Recipients
<1>4. Told(Idle)'
  BY DEF Told, Idle
<1>5. QED BY <1>1, <1>2, <1>3, <1>4 DEF MessageInv, Alone

LEMMA MessageAtOnce ==
  ASSUME MessageInv, NEW r \in Requests, AtOnce(r), message' \in Seq(MessageRow),
         \A m \in team' : m.user \in People
  PROVE  MessageInv'
<1>1. Told(Idle)'
  BY DEF Told, Idle
<1>2. Serial' => \A s \in Requests : task'[s] = Idle
  BY DEF AtOnce, Serial, Quiet
<1>3. QED BY <1>1, <1>2 DEF MessageInv, Alone, AtOnce

LEMMA Members ==
  ASSUME MessageInv, NEW u \in People, NEW role, NEW side, Upsert(u, role, side)
  PROVE  \A m \in team' : m.user \in People
BY DEF MessageInv, Upsert

LEMMA SendMessage ==
  ASSUME MessageInv, NEW r \in Requests, send(r)
  PROVE  MessageInv'
<1>1. PICK u \in People, restricted \in BOOLEAN :
        Begin(r, [step |-> "team", sender |-> u, restricted |-> restricted])
  BY DEF send
<1>2. PICK w : w = [step |-> "team", sender |-> u, restricted |-> restricted]
  OBVIOUS
<1>3. w \in MessageTask /\ Told(w)
  BY <1>2 DEF MessageTask, Told
<1>4. UNCHANGED <<team, message>>
  BY DEF send, correspondenceVars
<1>5. QED BY <1>1, <1>2, <1>3, <1>4, MessageMove DEF MessageInv

\* The recipients are those of the team at that moment.
LEMMA ReadTeam ==
  ASSUME MessageInv, NEW r \in Requests, readTeam(r)
  PROVE  MessageInv'
<1>1. task[r] \in [step : {"team"}, sender : People, restricted : BOOLEAN] /\ task[r] # Idle
  BY DEF readTeam, At, MessageInv, MessageTask, Idle
<1>2. PICK w : w = [step |-> "message", sender |-> task[r].sender, restricted |-> task[r].restricted,
                    to |-> Recipients(task[r].restricted) \ {task[r].sender}]
  OBVIOUS
<1>3. Recipients(task[r].restricted) \ {task[r].sender} \in SUBSET People
  BY DEF Recipients, MessageInv
<1>4. w \in MessageTask /\ Told(w)
  BY <1>1, <1>2, <1>3 DEF MessageTask, Told
<1>5. UNCHANGED <<team, message>>
  BY DEF readTeam, correspondenceVars
<1>6. QED BY <1>1, <1>2, <1>4, <1>5, MessageMove DEF readTeam, MessageInv

LEMMA Sent ==
  ASSUME MessageInv, NEW r \in Requests, createMessage(r)
  PROVE  \E new \in MessageRow :
           /\ new.sender = task[r].sender /\ new.restricted = task[r].restricted /\ new.to = task[r].to
           /\ message' = Append(message, new)
<1>1. task[r] \in [step : {"message"}, sender : People, restricted : BOOLEAN, to : SUBSET People]
  BY DEF createMessage, At, MessageInv, MessageTask, Idle
<1>2. PICK new : new = [sender |-> task[r].sender, restricted |-> task[r].restricted,
                        to |-> task[r].to, read |-> {}]
  OBVIOUS
<1>3. new \in MessageRow
  BY <1>1, <1>2 DEF MessageRow
<1>4. QED BY <1>2, <1>3 DEF createMessage

LEMMA CreateMessage ==
  ASSUME MessageInv, NEW r \in Requests, createMessage(r)
  PROVE  MessageInv'
<1>1. message' \in Seq(MessageRow)
  BY Sent DEF MessageInv
<1>2. Idle \in MessageTask /\ Told(Idle)
  BY DEF MessageTask, Told, Idle
<1>3. task[r] # Idle /\ Continue(r, Idle) /\ UNCHANGED team
  BY DEF createMessage, Finish, At, Idle
<1>4. QED BY <1>1, <1>2, <1>3, MessageMove

LEMMA MarkRead ==
  ASSUME MessageInv, NEW r \in Requests, markRead(r)
  PROVE  MessageInv' /\ Len(message') = Len(message)
<1>1. PICK i \in DOMAIN message : \E u \in message[i].to : message' = [message EXCEPT ![i].read = @ \cup {u}]
  BY DEF markRead
<1>2. PICK u \in message[i].to : message' = [message EXCEPT ![i].read = @ \cup {u}]
  BY <1>1
<1>3. PICK old \in MessageRow : old = message[i]
  BY DEF MessageInv
<1>4. PICK new : new = [old EXCEPT !.read = old.read \cup {u}]
  OBVIOUS
<1>5. new \in MessageRow
  BY <1>2, <1>3, <1>4 DEF MessageRow
<1>6. message' = [message EXCEPT ![i] = new]
  BY <1>2, <1>3, <1>4
<1>7. message' \in Seq(MessageRow) /\ Len(message') = Len(message)
  BY <1>5, <1>6 DEF MessageInv
<1>8. QED BY <1>7, MessageAtOnce DEF markRead, MessageInv

\* Who joins the team, moves to the other side, or takes a seat.
LEMMA TeamSteps ==
  ASSUME MessageInv, NEW r \in Requests, addTeamMember(r) \/ addRepresentative(r) \/ seat(r)
  PROVE  MessageInv' /\ UNCHANGED message
<1>1. AtOnce(r) /\ UNCHANGED message
  BY DEF addTeamMember, addRepresentative, seat
<1>2. \A m \in team' : m.user \in People
  <2>1. CASE addTeamMember(r)
    BY <2>1, Members DEF addTeamMember
  <2>2. CASE addRepresentative(r)
    <3>1. UNCHANGED team \/ \E u \in People, role \in PARTY_REP_ROLES, side \in Sides : Upsert(u, role, side)
      BY <2>2 DEF addRepresentative, PARTY_REP_ROLES
    <3>2. QED BY <3>1, Members DEF MessageInv
  <2>3. CASE seat(r)
    <3>1. team' \subseteq team \/ \E u \in People, role \in TRIBUNAL_CASE_ROLES : Upsert(u, role, NoSide)
      BY <2>3 DEF seat
    <3>2. QED BY <3>1, Members DEF MessageInv
  <2>4. QED BY <2>1, <2>2, <2>3
<1>3. QED BY <1>1, <1>2, MessageAtOnce DEF MessageInv

LEMMA MessagePreserved ==
  ASSUME MessageInv, NEW r \in Requests, MessageStep(r)
  PROVE  MessageInv'
BY TeamSteps, SendMessage, ReadTeam, CreateMessage, MarkRead DEF MessageStep
-----------------------------------------------------------------------------
(* The scripts of the seed *)

\* A mark is the first of the rows it stands for.
LEMMA MarksFirst ==
  ASSUME NEW m \in Marks, NEW row \in m[2]
  PROVE  /\ m[1] \in BaseRows /\ row \in BaseRows
         /\ Place[m[1]] \in Nat /\ Place[row] \in Nat
         /\ Place[m[1]] <= Place[row]
         /\ Place[m[1]] = Place[row] => m[1] = row
<1>1. {m[1]} \cup m[2] \subseteq BaseRows /\ Place[m[1]] <= Place[row]
  BY BaseAssumption DEF BaseAssumption
<1>2. ASSUME NEW x \in BaseRows
      PROVE  Place[x] \in DOMAIN Base /\ Base[Place[x]] = x
  BY <1>2 DEF Place, BaseRows
<1>3. DOMAIN Base \subseteq Nat
  BY BaseAssumption, LenProperties DEF BaseAssumption
<1>4. QED BY <1>1, <1>2, <1>3

\* The marks, one by one.
LEMMA LedMeans ==
  ASSUME NEW S
  PROVE  Led(S) <=>
    /\ BaseRows \cap S # {} => superadmin \in S
    /\ seedCase("case2") \in S => createUser("registrar") \in S
    /\ seedRules \cap S # {} => ruleSet \in S
    /\ buildVersion("3.0-draft") \cap S # {} => Version("3.0-draft") \in S
    /\ pinCase1 \cap S # {} => seedPin("case1") \in S
    /\ pinCase2 \cap S # {} => seedPin("case2") \in S
    /\ seedFeeSchedule \cap S # {} => feeSchedule \in S
    /\ seedDepositWorkflow \cap S # {} => depositRequest \in S
    /\ seedShowcase \cap S # {} => showcaseCase \in S
BY DEF Led, Marks, superadmin

LEMMA NamedRows ==
  /\ superadmin \in BaseRows /\ seedCase("case2") \in BaseRows
  /\ ruleSet \in BaseRows /\ Version("3.0-draft") \in BaseRows
  /\ pinCase1 \subseteq BaseRows /\ pinCase2 \subseteq BaseRows /\ feeSchedule \in BaseRows
  /\ depositRequest \in BaseRows /\ showcaseCase \in BaseRows
  /\ \A row \in BaseRows : row[1] \notin {"trigger", "action"}
BY BaseAssumption DEF BaseAssumption, Marks, superadmin, pinCase1, pinCase2

\* Writing the next row of a section leaves every mark before what it stands for.
LEMMA WriteLed ==
  ASSUME Led(db), Led(db \cup rows), NEW row \in rows, \A other \in rows : ~Before(other, row)
  PROVE  Led(db \cup {row})
<1> SUFFICES ASSUME NEW m \in Marks, m[2] \cap (db \cup {row}) # {}, m[1] \notin db
             PROVE  m[1] = row
  BY DEF Led
<1>1. row \in m[2]
  BY DEF Led
<1>2. m[1] \in rows
  BY <1>1 DEF Led
<1>3. m[1] \in BaseRows /\ row \in BaseRows /\ ~(Place[m[1]] < Place[row])
  BY <1>1, <1>2, MarksFirst DEF Before
<1>4. QED BY <1>1, <1>3, MarksFirst

LEMMA WriteRow ==
  ASSUME SeedInv, writeRow
  PROVE  SeedInv'
<1>1. PICK row \in rows :
        /\ \A other \in rows : ~Before(other, row)
        /\ db' = db \cup {row} /\ rows' = rows \ {row} /\ UNCHANGED <<script, done, crashes>>
  BY DEF writeRow
<1>2. db' \cup rows' = db \cup rows /\ SeededOnce'
  BY <1>1 DEF SeedInv, SeededOnce
<1>3. Led(db') /\ Led(db' \cup rows')
  BY <1>1, <1>2, WriteLed DEF SeedInv
<1>4. superadmin \in db'
  <2>1. CASE row \in BaseRows
    BY <1>1, <1>3, <2>1, LedMeans
  <2>2. CASE row \notin BaseRows
    <3>1. script = "topUp"
      BY <1>1, <2>2 DEF SeedInv
    <3>2. QED BY <1>1, <3>1 DEF SeedInv
  <2>3. QED BY <2>1, <2>2
<1>5. ASSUME script = "topUp" PROVE Mended'
  <2>1. Mended
    BY <1>5 DEF SeedInv
  <2>2. \A c \in {"case1", "case2"} : seedCase(c) \in db' <=> seedCase(c) \in db
    BY <1>1, <2>1 DEF Mended
  <2>3. ASSUME done >= 4 PROVE Graph' = Graph
    <3>1. row[1] \notin {"rule", "definition"}
      BY <2>1, <2>3 DEF Mended
    <3>2. RulesInDb' = RulesInDb
      BY <1>1, <3>1 DEF RulesInDb
    <3>3. \A rule : Definition(rule)[1] = "definition"
      BY DEF Definition
    <3>4. \A rule : Definition(rule) \in db' <=> Definition(rule) \in db
      BY <1>1, <3>1, <3>3
    <3>5. QED BY <3>2, <3>4 DEF Graph, Acts
  <2>4. QED BY <1>1, <1>2, <2>1, <2>2, <2>3 DEF Mended
<1>6. rows' \subseteq rows /\ row \in rows /\ done' = done /\ script' = script
  BY <1>1
<1>7. /\ script \in {"seed", "topUp", "showcase"} /\ done \in Nat /\ done # 0
      /\ script = "seed" => rows \subseteq BaseRows
      /\ script = "topUp" => superadmin \in db
      /\ \A x \in db \cup rows : x \in BaseRows \/ x[1] \in {"trigger", "action"}
  BY <1>6 DEF SeedInv
<1>8. ASSUME script = "showcase"
      PROVE  /\ rows \subseteq BaseRows /\ (done <= 2 => showcaseCase \notin db \cup rows)
             /\ done >= 1 => superadmin \in db /\ ruleSet \in db
  BY <1>6, <1>8 DEF SeedInv
<1>9. \A x \in db' \cup rows' : x \in BaseRows \/ x[1] \in {"trigger", "action"}
  BY <1>2, <1>7
<1>10. script' = "showcase" => /\ rows' \subseteq BaseRows /\ (done' <= 2 => showcaseCase \notin db' \cup rows')
                               /\ done' >= 1 => superadmin \in db' /\ ruleSet \in db'
  BY <1>1, <1>2, <1>6, <1>8
<1>11. /\ script' = "none" => done' = 0
       /\ done' = 0 => rows' = {}
       /\ script' = "seed" => rows' \subseteq BaseRows /\ (done' = 0 => db' = {})
       /\ script' = "topUp" => superadmin \in db' /\ Mended'
  BY <1>1, <1>4, <1>5, <1>6, <1>7
<1>12. QED BY <1>2, <1>3, <1>4, <1>6, <1>7, <1>9, <1>10, <1>11 DEF SeedInv

\* A script that ends, or stops.
LEMMA Stopped ==
  ASSUME SeedInv, Stop, db' = db
  PROVE  SeedInv'
BY DEF SeedInv, Stop, SeededOnce

LEMMA BeginScript ==
  ASSUME SeedInv, runSeed \/ runTopUp \/ runShowcase
  PROVE  SeedInv'
<1>1. rows = {} /\ done = 0 /\ UNCHANGED <<db, done, rows>>
  BY DEF runSeed, runTopUp, runShowcase, begin, SeedInv
<1>2. SeededOnce' /\ Led(db') /\ Led(db' \cup rows')
  BY <1>1 DEF SeedInv, SeededOnce
<1>3. CASE runSeed
  BY <1>1, <1>2, <1>3 DEF runSeed, begin, SeedInv, superadmin
<1>4. CASE runTopUp
  BY <1>1, <1>2, <1>4 DEF runTopUp, begin, SeedInv, superadmin, Mended
<1>5. CASE runShowcase
  BY <1>1, <1>2, <1>5 DEF runShowcase, begin, SeedInv
<1>6. QED BY <1>3, <1>4, <1>5

LEMMA AssignToCase ==
  ASSUME SeedInv, NEW c \in {"case1", "case2"}, assignToCase(c)
  PROVE  SeedInv'
<1>1. /\ script = "none" /\ rows = {} /\ rows' = {} /\ done' = done /\ script' = script
      /\ db' = db \cup {seedPin(c)} /\ superadmin \in db
  BY DEF assignToCase, SeedInv
<1>2. seedPin(c)[1] = "pin" /\ (seedPin(c) = seedPin("case1") \/ seedPin(c) = seedPin("case2"))
  BY DEF seedPin
<1>3. /\ seedPin(c) \notin seedRules /\ seedPin(c) \notin buildVersion("3.0-draft")
      /\ seedPin(c) \notin seedFeeSchedule /\ seedPin(c) \notin seedDepositWorkflow /\ seedPin(c) \notin seedShowcase
      /\ seedPin(c) # seedCase("case2") /\ seedPin(c) \notin seedNotice
      /\ seedPin(c) \notin PartsOf({"acceptance", "event", "deadline"})
  BY <1>2 DEF seedRules, buildVersion, seedFeeSchedule, seedDepositWorkflow, seedShowcase, seedNotice, PartsOf, seedCase
<1>4. Led(db')
  <2>1. Led(db)
    BY DEF SeedInv
  <2>2. seedPin(c) \in pinCase1 => seedPin(c) = seedPin("case1")
    BY <1>3 DEF pinCase1
  <2>3. seedPin(c) \in pinCase2 => seedPin(c) = seedPin("case2")
    BY <1>3 DEF pinCase2
  <2>4. QED BY <1>1, <1>3, <2>1, <2>2, <2>3, LedMeans
<1>5. seedPin(c) \in BaseRows /\ db' \cup rows' = db' /\ SeededOnce'
  BY <1>1, <1>2, NamedRows DEF pinCase1, pinCase2, SeededOnce
<1>6. \A x \in db' \cup rows' : x \in BaseRows \/ x[1] \in {"trigger", "action"}
  BY <1>1, <1>5 DEF SeedInv
<1>7. QED BY <1>1, <1>4, <1>5, <1>6 DEF SeedInv

\* A script that enters a section.
Enters(section) ==
  /\ UNCHANGED <<db, script>> /\ done' = done + 1
  /\ rows' = IF section.needs \subseteq db /\ section.unless \cap db = {} THEN section.rows ELSE {}
  /\ section.insists => section.needs \subseteq db /\ section.unless \cap db = {}

LEMMA EntersRows ==
  ASSUME NEW needed, NEW row, NEW S
  PROVE  /\ Enters(Section(S)) => rows' = S
         /\ Enters(Insist(needed)) => rows' = {} /\ needed \subseteq db
         /\ Enters(Unless(row, Section(S))) => rows' = IF row \in db THEN {} ELSE S
         /\ Enters(Unless(row, When(needed, Section(S))))
              => rows' = IF needed \subseteq db /\ row \notin db THEN S ELSE {}
<1>1. Enters(Section(S)) => rows' = S
  BY DEF Enters, Section
<1>2. Enters(Insist(needed)) => rows' = {} /\ needed \subseteq db
  BY DEF Enters, Section, Insist
<1>3. ASSUME Enters(Unless(row, Section(S))) PROVE rows' = IF row \in db THEN {} ELSE S
  <2> DEFINE x == Unless(row, Section(S))
  <2>1. x.needs = {} /\ x.unless = {row} /\ x.rows = S
    BY DEF Section, When, Unless
  <2>2. rows' = IF x.needs \subseteq db /\ x.unless \cap db = {} THEN x.rows ELSE {}
    BY <1>3 DEF Enters
  <2> HIDE DEF x
  <2>3. QED BY <2>1, <2>2
<1>4. ASSUME Enters(Unless(row, When(needed, Section(S))))
      PROVE  rows' = IF needed \subseteq db /\ row \notin db THEN S ELSE {}
  <2> DEFINE x == Unless(row, When(needed, Section(S)))
  <2>1. x.needs = needed /\ x.unless = {row} /\ x.rows = S
    BY DEF Section, When, Unless
  <2>2. rows' = IF x.needs \subseteq db /\ x.unless \cap db = {} THEN x.rows ELSE {}
    BY <1>4 DEF Enters
  <2> HIDE DEF x
  <2>3. QED BY <2>1, <2>2
<1>5. QED BY <1>1, <1>2, <1>3, <1>4

LEMMA Entered ==
  ASSUME SeedInv, nextSection, ~(Stop /\ db' = db)
  PROVE  rows = {} /\ done < Len(Sections) /\ Enters(Sections[done + 1])
BY DEF nextSection, Enters

LEMMA EnteredWell ==
  ASSUME SeedInv, UNCHANGED <<db, script>>, done' = done + 1, script # "none",
         rows' \cap db = {}, Led(db \cup rows'),
         db = {} \/ superadmin \in db,
         \A row \in rows' : row \in BaseRows \/ row[1] \in {"trigger", "action"},
         script = "seed" => rows' \subseteq BaseRows,
         script = "topUp" => Mended',
         script = "showcase" => /\ rows' \subseteq BaseRows /\ (done' <= 2 => showcaseCase \notin db \cup rows')
                                /\ done' >= 1 => superadmin \in db /\ ruleSet \in db
  PROVE  SeedInv'
BY DEF SeedInv, SeededOnce

LEMMA SeedSection ==
  ASSUME SeedInv, nextSection, script = "seed"
  PROVE  SeedInv'
<1>1. CASE Stop /\ db' = db
  BY <1>1, Stopped
<1>2. CASE ~(Stop /\ db' = db)
  <2>1. Sections = <<Section(BaseRows)>>
    BY DEF Sections, main
  <2>2. done = 0 /\ db = {}
    BY <1>2, <2>1, Entered DEF SeedInv
  <2>3. Enters(Section(BaseRows))
    BY <1>2, <2>1, <2>2, Entered
  <2>4. rows' = BaseRows /\ UNCHANGED <<db, script>> /\ done' = done + 1
    BY <2>3 DEF Enters, Section
  <2>5. Led(db \cup rows')
    BY <2>2, <2>4, MarksFirst DEF Led
  <2>6. QED BY <2>2, <2>4, <2>5, EnteredWell
<1>3. QED BY <1>1, <1>2

LEMMA TopUpSections ==
  ASSUME script = "topUp"
  PROVE  /\ Len(Sections) = 6
         /\ Sections[1] = topUpRules /\ Sections[2] = topUpCase1 /\ Sections[3] = topUpCase2
         /\ Sections[4] = Section(backfillEngineGraph)
         /\ Sections[5] = Unless(feeSchedule, Section(seedFeeSchedule))
         /\ Sections[6] = Unless(depositRequest,
              When({seedCase("case2"), createUser("registrar")}, Section(seedDepositWorkflow)))
BY DEF Sections, topUp

\* What a section writes keeps the marks first where what it writes of a
\* part comes with the mark of the part.
LEMMA LedGrows ==
  ASSUME Led(db), NEW S, superadmin \in db, seedCase("case2") \notin S,
         seedRules \cap S # {} => ruleSet \in db \cup S,
         buildVersion("3.0-draft") \cap S # {} => Version("3.0-draft") \in db \cup S,
         pinCase1 \cap S # {} => seedPin("case1") \in S,
         pinCase2 \cap S # {} => seedPin("case2") \in S,
         seedFeeSchedule \cap S # {} => feeSchedule \in S,
         seedDepositWorkflow \cap S # {} => depositRequest \in S,
         seedShowcase \cap S # {} => showcaseCase \in S
  PROVE  Led(db \cup S)
<1>1. DEFINE T == db \cup S
<1>2. BaseRows \cap T # {} => superadmin \in T
  OBVIOUS
<1>3. /\ seedCase("case2") \in T => createUser("registrar") \in T
      /\ seedRules \cap T # {} => ruleSet \in T
      /\ buildVersion("3.0-draft") \cap T # {} => Version("3.0-draft") \in T
      /\ pinCase1 \cap T # {} => seedPin("case1") \in T
  BY LedMeans
<1>4. /\ pinCase2 \cap T # {} => seedPin("case2") \in T
      /\ seedFeeSchedule \cap T # {} => feeSchedule \in T
      /\ seedDepositWorkflow \cap T # {} => depositRequest \in T
      /\ seedShowcase \cap T # {} => showcaseCase \in T
  BY LedMeans
<1>5. Led(T)
  <2> HIDE DEF T
  <2>1. QED BY <1>2, <1>3, <1>4, LedMeans
<1>6. QED BY <1>5

\* The parts of the base seed are apart.
LEMMA Apart ==
  /\ \A row \in seedRules \cup buildVersion("3.0-draft") :
       row[1] \in {"ruleSet", "version", "rule", "definition", "calendar"}
  /\ \A row \in pinCase1 : row[1] \in {"pin", "notice"}
  /\ \A row \in pinCase2 : row[1] \in {"pin", "acceptance", "event", "deadline"}
  /\ \A row \in seedFeeSchedule : row[1] = "feeSchedule"
  /\ \A row \in seedDepositWorkflow : row[1] = "deposit"
  /\ \A row \in seedShowcase : row[1] = "showcase"
  /\ \A c : seedCase(c)[1] = "case" /\ seedPin(c)[1] = "pin"
  /\ seedPin("case1") # seedPin("case2")
  /\ seedPin("case1") \notin pinCase2 /\ seedPin("case2") \notin pinCase1
BY DEF seedRules, buildVersion, pinCase1, pinCase2, seedNotice, seedFeeSchedule, seedDepositWorkflow, seedShowcase,
       PartsOf, seedCase, seedPin

LEMMA MarksOfParts ==
  /\ ruleSet \in seedRules /\ Version("3.0-draft") \in seedRules
  /\ Version("3.0-draft") \in buildVersion("3.0-draft") /\ buildVersion("3.0-draft") \subseteq seedRules
  /\ seedPin("case1") \in pinCase1 /\ seedPin("case2") \in pinCase2
  /\ feeSchedule \in seedFeeSchedule /\ depositRequest \in seedDepositWorkflow
  /\ showcaseCase \in seedShowcase
<1>1. /\ ruleSet[1] = "ruleSet" /\ Version("3.0-draft")[1] = "version" /\ Version("3.0-draft")[2] = "3.0-draft"
      /\ feeSchedule[1] = "feeSchedule" /\ depositRequest[1] = "deposit" /\ showcaseCase[1] = "showcase"
  BY DEF ruleSet, Version, feeSchedule, depositRequest, showcaseCase
<1>2. QED
  BY <1>1, NamedRows DEF seedRules, buildVersion, pinCase1, pinCase2, seedFeeSchedule, seedDepositWorkflow,
     seedShowcase, PartsOf

\* The sections of the top-up.
LEMMA TopUpRules ==
  ASSUME SeedInv, nextSection, script = "topUp", done = 0, ~(Stop /\ db' = db)
  PROVE  SeedInv'
<1>1. Enters(topUpRules) /\ rows = {}
  BY TopUpSections, Entered
<1>2. UNCHANGED <<db, script>> /\ done' = 1 /\ Led(db) /\ superadmin \in db
  BY <1>1 DEF Enters, SeedInv
<1>3. rows' = {} \/ (ruleSet \notin db /\ rows' = seedRules)
  BY <1>1, EntersRows DEF topUpRules
<1>4. rows' \cap db = {}
  BY <1>2, <1>3, LedMeans
<1>5. Led(db \cup rows')
  <2>1. CASE rows' = {}
    BY <1>2, <2>1
  <2>2. CASE rows' = seedRules
    <3>1. seedCase("case2") \notin seedRules
      BY Apart
    <3>2. /\ pinCase1 \cap seedRules = {} /\ pinCase2 \cap seedRules = {} /\ seedFeeSchedule \cap seedRules = {}
          /\ seedDepositWorkflow \cap seedRules = {} /\ seedShowcase \cap seedRules = {}
      BY Apart
    <3>3. QED BY <1>2, <2>2, <3>1, <3>2, MarksOfParts, LedGrows
  <2>3. QED BY <1>3, <2>1, <2>2
<1>6. Mended' /\ rows' \subseteq BaseRows
  BY <1>2, <1>3, Apart DEF Mended, seedRules, PartsOf
<1>7. QED BY <1>2, <1>4, <1>5, <1>6, EnteredWell

LEMMA TopUpCase1 ==
  ASSUME SeedInv, nextSection, script = "topUp", done = 1, ~(Stop /\ db' = db)
  PROVE  SeedInv'
<1>1. Enters(topUpCase1) /\ rows = {}
  BY TopUpSections, Entered
<1>2. UNCHANGED <<db, script>> /\ done' = 2 /\ Led(db) /\ superadmin \in db /\ Mended
  BY <1>1 DEF Enters, SeedInv
<1>3. \/ rows' = {} /\ (seedCase("case1") \in db => seedPin("case1") \in db)
      \/ seedPin("case1") \notin db /\ rows' = pinCase1
  BY <1>1, EntersRows DEF topUpCase1
<1>4. rows' \cap db = {}
  BY <1>2, <1>3, LedMeans
<1>5. Led(db \cup rows')
  <2>1. CASE rows' = {}
    BY <1>2, <2>1
  <2>2. CASE rows' = pinCase1
    <3>1. seedCase("case2") \notin pinCase1
      BY Apart
    <3>2. /\ seedRules \cap pinCase1 = {} /\ buildVersion("3.0-draft") \cap pinCase1 = {}
          /\ seedFeeSchedule \cap pinCase1 = {}
          /\ seedDepositWorkflow \cap pinCase1 = {} /\ seedShowcase \cap pinCase1 = {}
      BY Apart
    <3>3. pinCase2 \cap pinCase1 = {}
      BY DEF pinCase1, pinCase2, seedNotice, PartsOf, seedPin
    <3>4. QED BY <1>2, <2>2, <3>1, <3>2, <3>3, MarksOfParts, LedGrows
  <2>3. QED BY <1>3, <2>1, <2>2
<1>6. Mended'
  BY <1>1, <1>2, <1>3, Apart, MarksOfParts DEF Mended
<1>7. rows' \subseteq BaseRows
  BY <1>3, NamedRows
<1>8. QED BY <1>2, <1>4, <1>5, <1>6, <1>7, EnteredWell

LEMMA TopUpCase2 ==
  ASSUME SeedInv, nextSection, script = "topUp", done = 2, ~(Stop /\ db' = db)
  PROVE  SeedInv'
<1>1. Enters(topUpCase2) /\ rows = {}
  BY TopUpSections, Entered
<1>2. UNCHANGED <<db, script>> /\ done' = 3 /\ Led(db) /\ superadmin \in db /\ Mended
  BY <1>1 DEF Enters, SeedInv
<1>3. \/ rows' = {} /\ (seedCase("case2") \in db => seedPin("case2") \in db)
      \/ seedPin("case2") \notin db /\ rows' = pinCase2
  BY <1>1, EntersRows DEF topUpCase2
<1>4. rows' \cap db = {}
  BY <1>2, <1>3, LedMeans
<1>5. Led(db \cup rows')
  <2>1. CASE rows' = {}
    BY <1>2, <2>1
  <2>2. CASE rows' = pinCase2
    <3>1. seedCase("case2") \notin pinCase2
      BY Apart
    <3>2. /\ seedRules \cap pinCase2 = {} /\ buildVersion("3.0-draft") \cap pinCase2 = {}
          /\ seedFeeSchedule \cap pinCase2 = {}
          /\ seedDepositWorkflow \cap pinCase2 = {} /\ seedShowcase \cap pinCase2 = {}
      BY Apart
    <3>3. pinCase1 \cap pinCase2 = {}
      BY DEF pinCase1, pinCase2, seedNotice, PartsOf, seedPin
    <3>4. QED BY <1>2, <2>2, <3>1, <3>2, <3>3, MarksOfParts, LedGrows
  <2>3. QED BY <1>3, <2>1, <2>2
<1>6. Mended'
  BY <1>1, <1>2, <1>3, Apart, MarksOfParts DEF Mended
<1>7. rows' \subseteq BaseRows
  BY <1>3, NamedRows
<1>8. QED BY <1>2, <1>4, <1>5, <1>6, <1>7, EnteredWell

LEMMA TopUpTriggers ==
  ASSUME SeedInv, nextSection, script = "topUp", done = 3, ~(Stop /\ db' = db)
  PROVE  SeedInv'
<1>1. Enters(Section(backfillEngineGraph)) /\ rows = {}
  BY TopUpSections, Entered
<1>2. UNCHANGED <<db, script>> /\ done' = 4 /\ Led(db) /\ superadmin \in db /\ Mended
  BY <1>1 DEF Enters, SeedInv
<1>3. rows' = Graph \ db
  BY <1>1, EntersRows DEF backfillEngineGraph
<1>4. \A row \in rows' : row[1] \in {"trigger", "action"}
  BY <1>3 DEF Graph, upsertTrigger, ensureAction
<1>5. rows' \cap BaseRows = {} /\ \A c : seedCase(c) \notin rows'
  BY <1>4, NamedRows, Apart
<1>6. Led(db \cup rows')
  BY <1>2, <1>4, <1>5, Apart, NamedRows, LedGrows
<1>7. Graph' = Graph
  BY <1>2 DEF Graph, RulesInDb, Acts
<1>8. Mended'
  BY <1>1, <1>2, <1>3, <1>4, <1>5, <1>7 DEF Mended
<1>9. QED BY <1>2, <1>3, <1>4, <1>6, <1>8, EnteredWell

LEMMA TopUpFees ==
  ASSUME SeedInv, nextSection, script = "topUp", done = 4, ~(Stop /\ db' = db)
  PROVE  SeedInv'
<1>1. Enters(Unless(feeSchedule, Section(seedFeeSchedule))) /\ rows = {}
  BY TopUpSections, Entered
<1>2. UNCHANGED <<db, script>> /\ done' = 5 /\ Led(db) /\ superadmin \in db /\ Mended
  BY <1>1 DEF Enters, SeedInv
<1>3. (rows' = {} /\ feeSchedule \in db) \/ (feeSchedule \notin db /\ rows' = seedFeeSchedule)
  BY <1>1, EntersRows
<1>4. rows' \cap db = {}
  BY <1>2, <1>3, LedMeans
<1>5. Led(db \cup rows')
  <2>1. CASE rows' = {}
    BY <1>2, <2>1
  <2>2. CASE rows' = seedFeeSchedule
    <3>1. /\ seedCase("case2") \notin seedFeeSchedule
          /\ seedRules \cap seedFeeSchedule = {} /\ buildVersion("3.0-draft") \cap seedFeeSchedule = {}
          /\ pinCase1 \cap seedFeeSchedule = {} /\ pinCase2 \cap seedFeeSchedule = {}
          /\ seedDepositWorkflow \cap seedFeeSchedule = {} /\ seedShowcase \cap seedFeeSchedule = {}
      BY Apart
    <3>2. QED BY <1>2, <2>2, <3>1, MarksOfParts, LedGrows
  <2>3. QED BY <1>3, <2>1, <2>2
<1>6. Graph' = Graph
  BY <1>2 DEF Graph, RulesInDb, Acts
<1>7. Mended'
  BY <1>1, <1>2, <1>3, <1>6, Apart, MarksOfParts DEF Mended
<1>8. rows' \subseteq BaseRows
  BY <1>3 DEF seedFeeSchedule, seedDepositWorkflow, PartsOf
<1>9. QED BY <1>2, <1>4, <1>5, <1>7, <1>8, EnteredWell

LEMMA TopUpDeposit ==
  ASSUME SeedInv, nextSection, script = "topUp", done = 5, ~(Stop /\ db' = db)
  PROVE  SeedInv'
<1>1. /\ rows = {}
      /\ Enters(Unless(depositRequest,
           When({seedCase("case2"), createUser("registrar")}, Section(seedDepositWorkflow))))
  BY TopUpSections, Entered
<1>2. UNCHANGED <<db, script>> /\ done' = 6 /\ Led(db) /\ superadmin \in db /\ Mended
  BY <1>1 DEF Enters, SeedInv
<1>3. \/ rows' = {} /\ (seedCase("case2") \in db => depositRequest \in db)
      \/ depositRequest \notin db /\ rows' = seedDepositWorkflow
  <2>1. seedCase("case2") \in db => createUser("registrar") \in db
    BY <1>2, LedMeans
  <2>2. QED BY <1>1, <2>1, EntersRows
<1>4. rows' \cap db = {}
  BY <1>2, <1>3, LedMeans
<1>5. Led(db \cup rows')
  <2>1. CASE rows' = {}
    BY <1>2, <2>1
  <2>2. CASE rows' = seedDepositWorkflow
    <3>1. /\ seedCase("case2") \notin seedDepositWorkflow
          /\ seedRules \cap seedDepositWorkflow = {} /\ buildVersion("3.0-draft") \cap seedDepositWorkflow = {}
          /\ pinCase1 \cap seedDepositWorkflow = {} /\ pinCase2 \cap seedDepositWorkflow = {}
          /\ seedFeeSchedule \cap seedDepositWorkflow = {} /\ seedShowcase \cap seedDepositWorkflow = {}
      BY Apart
    <3>2. QED BY <1>2, <2>2, <3>1, MarksOfParts, LedGrows
  <2>3. QED BY <1>3, <2>1, <2>2
<1>6. Graph' = Graph
  BY <1>2 DEF Graph, RulesInDb, Acts
<1>7. Mended'
  BY <1>1, <1>2, <1>3, <1>6, Apart, MarksOfParts DEF Mended
<1>8. rows' \subseteq BaseRows
  BY <1>3 DEF seedFeeSchedule, seedDepositWorkflow, PartsOf
<1>9. QED BY <1>2, <1>4, <1>5, <1>7, <1>8, EnteredWell

LEMMA TopUpSection ==
  ASSUME SeedInv, nextSection, script = "topUp"
  PROVE  SeedInv'
<1>1. CASE Stop /\ db' = db
  BY <1>1, Stopped
<1>2. CASE ~(Stop /\ db' = db)
  <2>1. done \in {0, 1, 2, 3, 4, 5}
    <3>1. done < 6 /\ done \in Nat
      BY <1>2, Entered, TopUpSections DEF SeedInv
    <3>2. QED BY <3>1
  <2>2. QED
    BY <1>2, <2>1, TopUpRules, TopUpCase1, TopUpCase2, TopUpTriggers, TopUpFees, TopUpDeposit
<1>3. QED BY <1>1, <1>2

LEMMA ShowcaseSection ==
  ASSUME SeedInv, nextSection, script = "showcase"
  PROVE  SeedInv'
<1>1. CASE Stop /\ db' = db
  BY <1>1, Stopped
<1>2. CASE ~(Stop /\ db' = db)
  <2>1. /\ Len(Sections) = 3
        /\ Sections[1] = Insist(Accounts \cup {arbitratorProfiles, Version("2.0")})
        /\ Sections[2] = Unless(Version("3.0-draft"), Section(buildVersion("3.0-draft")))
        /\ Sections[3] = Section(seedShowcase)
    BY DEF Sections, showcaseStandalone
  <2>2. rows = {} /\ done \in Nat /\ done < 3 /\ Enters(Sections[done + 1]) /\ UNCHANGED <<db, script>> /\ done' = done + 1
    BY <1>2, <2>1, Entered DEF SeedInv, Enters
  <2>3. Led(db) /\ showcaseCase \notin db
    <3>1. showcaseCase \notin db \cup rows
      BY <2>2 DEF SeedInv
    <3>2. QED BY <3>1 DEF SeedInv
  <2>4. CASE done = 0
    <3>1. rows' = {} /\ Accounts \subseteq db /\ Version("2.0") \in db
      BY <2>1, <2>2, <2>4, EntersRows
    <3>2. createUser("registrar") \in Accounts /\ createUser("registrar") \in BaseRows
      BY BaseAssumption DEF Accounts, BaseAssumption, Marks
    <3>3. superadmin \in db
      BY <2>3, <3>1, <3>2, LedMeans
    <3>4. ruleSet \in db
      <4>1. Version("2.0") \in BaseRows
        BY <2>2, <3>1 DEF SeedInv, Version
      <4>2. Version("2.0") \in seedRules
        BY <4>1 DEF seedRules, PartsOf, Version
      <4>3. QED BY <2>3, <3>1, <4>2, LedMeans
    <3>5. QED BY <2>2, <2>3, <3>1, <3>3, <3>4, EnteredWell
  <2>5. CASE done # 0
    <3>1. superadmin \in db /\ ruleSet \in db
      BY <2>2, <2>5 DEF SeedInv
    <3>2. CASE rows' = {}
      BY <2>2, <2>3, <3>1, <3>2, EnteredWell
    <3>3. CASE done = 1 /\ rows' # {}
      <4>1. Version("3.0-draft") \notin db /\ rows' = buildVersion("3.0-draft")
        <5>1. Enters(Unless(Version("3.0-draft"), Section(buildVersion("3.0-draft"))))
          BY <2>1, <2>2, <3>3
        <5>2. QED BY <3>3, <5>1, EntersRows
      <4>2. /\ pinCase1 \cap rows' = {} /\ pinCase2 \cap rows' = {} /\ seedFeeSchedule \cap rows' = {}
            /\ seedDepositWorkflow \cap rows' = {} /\ seedShowcase \cap rows' = {} /\ seedCase("case2") \notin rows'
            /\ showcaseCase \notin rows'
        BY <4>1, Apart, MarksOfParts
      <4>3. rows' \subseteq BaseRows /\ rows' \cap db = {}
        BY <2>3, <3>1, <4>1, LedMeans DEF buildVersion, PartsOf
      <4>4. Led(db \cup rows')
        BY <2>3, <3>1, <4>1, <4>2, <4>3, MarksOfParts, LedGrows
      <4>5. QED BY <2>2, <2>3, <3>1, <4>2, <4>3, <4>4, EnteredWell
    <3>4. CASE done = 2
      <4>1. rows' = seedShowcase
        <5>1. Enters(Section(seedShowcase))
          BY <2>1, <2>2, <3>4
        <5>2. QED BY <5>1, EntersRows
      <4>2. /\ pinCase1 \cap rows' = {} /\ pinCase2 \cap rows' = {} /\ seedFeeSchedule \cap rows' = {}
            /\ seedDepositWorkflow \cap rows' = {} /\ seedRules \cap rows' = {}
            /\ buildVersion("3.0-draft") \cap rows' = {} /\ seedCase("case2") \notin rows'
        BY <4>1, Apart
      <4>3. rows' \subseteq BaseRows /\ rows' \cap db = {}
        BY <2>3, <4>1, LedMeans DEF seedShowcase, PartsOf
      <4>4. Led(db \cup rows')
        BY <2>3, <3>1, <4>1, <4>2, MarksOfParts, LedGrows
      <4>5. QED BY <2>2, <3>1, <3>4, <4>3, <4>4, EnteredWell
    <3>5. QED BY <2>2, <2>5, <3>2, <3>3, <3>4
  <2>6. QED BY <2>4, <2>5
<1>3. QED BY <1>1, <1>2

LEMMA SeedPreserved ==
  ASSUME SeedInv, [SeedNext]_seedVars
  PROVE  SeedInv'
<1>1. CASE UNCHANGED seedVars
  BY <1>1 DEF seedVars, SeedInv, SeededOnce, Led, Mended, Graph, RulesInDb, Acts
<1>2. CASE nextSection
  <2>1. script # "none"
    BY <1>2 DEF nextSection, Sections, SeedInv
  <2>2. QED BY <1>2, <2>1, SeedSection, TopUpSection, ShowcaseSection DEF SeedInv
<1>3. CASE return \/ crash
  BY <1>3, Stopped DEF return, crash
<1>4. QED BY <1>1, <1>2, <1>3, BeginScript, WriteRow, AssignToCase DEF SeedNext

LEMMA SeedMends ==
  SeedInv => SeededOnce /\ MendedByTopUp
<1>1. Len(topUp) = 6
  BY DEF topUp
<1>2. QED BY <1>1 DEF SeedInv, MendedByTopUp, Mended

LEMMA SeedBegins ==
  SeedInit => SeedInv
BY DEF SeedInit, SeedInv, SeededOnce, Led
-----------------------------------------------------------------------------
(* A behaviour follows one part, and the others keep still *)

LEMMA InitInvariant ==
  Init => IInv
<1> SUFFICES ASSUME Init PROVE IInv
  OBVIOUS
<1> USE DEF Init, HandlersInit, RetentionInit, CorrespondenceInit
<1>1. \A r \in Requests : task[r] = Idle
  OBVIOUS
<1>2. PolicyApproved /\ NumberedInOrder
  BY DEF PolicyApproved, NumberedInOrder, NoDraft
<1>3. PolicyInv
  BY <1>1 DEF PolicyInv, PolicyTask, Approved, Idle
<1>4. PaperInv
  <2>1. Pending = {}
    BY <1>1 DEF Pending, Idle
  <2>2. Cardinality(Pending) = 0
    BY <2>1, FS_EmptySet
  <2>3. document \in Seq(DocumentRow) /\ order \in Seq(Nat) /\ stored \in Nat /\ Len(document) = 0 /\ stored = 0
    OBVIOUS
  <2>4. \A m \in team : m.side \in Sides \cup {NoSide}
    BY DEF Team, Sides
  <2>5. task \in [Requests -> PaperTask] /\ \A r \in Requests : Numbered(task[r])
    BY <1>1 DEF PaperTask, Numbered, Idle
  <2>6. QED BY <2>2, <2>3, <2>4, <2>5 DEF PaperInv
<1>5. HoldInv
  <2>1. record \in [Cases -> CaseRow]
    <3> DEFINE First == [age : {Open, 0}, deleted : {FALSE}, legalHold : {FALSE}, status : {"ACTIVE"}]
    <3>1. record \in [Cases -> First]
      OBVIOUS
    <3>2. Open \in Int
      BY DEF Open
    <3>3. ASSUME NEW row \in First PROVE row \in CaseRow
      <4>1. row = [age |-> row.age, deleted |-> row.deleted, legalHold |-> row.legalHold, status |-> row.status]
        OBVIOUS
      <4>2. row.age \in Int /\ row.status \in {"ACTIVE", "LEGAL_HOLD", "DELETED"}
        BY <3>2
      <4>3. row.deleted \in BOOLEAN /\ row.legalHold \in BOOLEAN
        BY Zenon
      <4>4. QED BY <4>1, <4>2, <4>3 DEF CaseRow
    <3> HIDE DEF First
    <3>4. QED BY <3>1, <3>3
  <2>2. HoldData
    BY <1>1, <2>1 DEF HoldData, HoldTask
  <2>3. QED BY <1>1, <2>2 DEF HoldInv, Deletions, OneByOne, Alone, Free, ActiveHold, Idle
<1>6. MessageInv
  <2>1. task \in [Requests -> MessageTask] /\ \A r \in Requests : Told(task[r])
    BY <1>1 DEF MessageTask, Told, Idle
  <2>2. \A m \in team : m.user \in People
    BY TeamAssumption DEF TeamAssumption, Team
  <2>3. QED BY <1>1, <2>1, <2>2 DEF MessageInv, Alone
<1>7. SeedInv
  BY SeedBegins
<1>8. QED BY <1>2, <1>3, <1>4, <1>5, <1>6, <1>7 DEF IInv

LEMMA NextInvariant ==
  IInv /\ [Next]_vars => IInv'
<1> SUFFICES ASSUME IInv, [Next]_vars PROVE IInv'
  OBVIOUS
<1>0. SeedInv'
  BY SeedPreserved DEF IInv, Next, vars
<1>1. ASSUME UNCHANGED vars PROVE IInv'
  BY <1>0, <1>1 DEF vars, retentionVars, policyVars, holdVars, correspondenceVars, paperVars, IInv,
     PolicyApproved, NumberedInOrder, PolicyInv, Approved, PaperInv, Numbered, Pending,
     HoldInv, HoldData, Deletions, OneByOne, Alone, Flagged, Free, ActiveHold, Serial,
     MessageInv, Told, Recipients
<1>2. ASSUME UNCHANGED <<retentionVars, paperVars>>
      PROVE  PolicyApproved' /\ NumberedInOrder'
  BY <1>2 DEF IInv, PolicyApproved, NumberedInOrder, retentionVars, policyVars, paperVars
<1>3. ASSUME follows = "policy", NEW r \in Requests, PolicyStep(r), UNCHANGED <<follows, correspondenceVars>>
      PROVE  IInv'
  <2>1. PolicyInv' /\ PolicyApproved'
    BY <1>3, PolicyPreserved DEF IInv
  <2>2. NumberedInOrder'
    BY <1>3 DEF IInv, NumberedInOrder, correspondenceVars, paperVars
  <2>3. QED BY <1>0, <1>3, <2>1, <2>2 DEF IInv
<1>4. ASSUME follows = "holds", UNCHANGED <<follows, correspondenceVars>>,
             age \/ \E r \in Requests : HoldStep(r) \/ SweepStep(r)
      PROVE  IInv'
  <2>1. HoldInv'
    BY <1>4, Age, HoldPreserved DEF IInv
  <2>2. UNCHANGED policyVars
    BY <1>4 DEF age, HoldStep, SweepStep, placeLegalHold, setFlag, releaseLegalHold, setReleased, countHolds,
       clearFlag, executeSweep, softDeleteEligibleCases, sweepCase, writeTombstone, retentionVars
  <2>3. PolicyApproved' /\ NumberedInOrder'
    BY <1>4, <2>2 DEF IInv, PolicyApproved, NumberedInOrder, policyVars, correspondenceVars, paperVars
  <2>4. QED BY <1>0, <1>4, <2>1, <2>3 DEF IInv
<1>5. ASSUME follows = "messages", NEW r \in Requests, MessageStep(r), UNCHANGED <<follows, retentionVars>>
      PROVE  IInv'
  <2>1. UNCHANGED paperVars
    BY <1>5 DEF MessageStep, addTeamMember, addRepresentative, seat, send, readTeam, createMessage, markRead,
       correspondenceVars
  <2>2. MessageInv'
    BY <1>5, MessagePreserved DEF IInv
  <2>3. QED BY <1>0, <1>2, <1>5, <2>1, <2>2 DEF IInv
<1>6. ASSUME follows = "documents", NEW r \in Requests, DocumentStep(r), UNCHANGED <<follows, retentionVars>>
      PROVE  IInv'
  <2>1. PaperInv' /\ NumberedInOrder'
    BY <1>6, PaperPreserved DEF IInv
  <2>2. PolicyApproved'
    BY <1>6 DEF IInv, PolicyApproved, retentionVars, policyVars
  <2>3. QED BY <1>0, <1>6, <2>1, <2>2 DEF IInv
<1>7. ASSUME follows = "seed", UNCHANGED <<follows, retentionVars, correspondenceVars>>
      PROVE  IInv'
  <2>1. PolicyApproved' /\ NumberedInOrder'
    BY <1>2, <1>7 DEF correspondenceVars
  <2>2. QED BY <1>0, <1>7, <2>1 DEF IInv
<1>8. QED BY <1>1, <1>3, <1>4, <1>5, <1>6, <1>7 DEF Next

LEMMA Invariant ==
  Spec => []IInv
<1>1. QED BY InitInvariant, NextInvariant, PTL DEF Spec

\* Every override in force, and each of a draft that may be activated, was in
\* a draft that a review approved (draftPolicy, reviewPolicy, activatePolicy).
THEOREM ApprovedPolicy ==
  Spec => []PolicyApproved
<1>1. IInv => PolicyApproved
  BY DEF IInv
<1>2. QED BY <1>1, Invariant, PTL

\* Documents and procedural orders are numbered without gap or repetition, of
\* any number of uploads and orders at once (upload, issueProceduralOrder).
THEOREM NumberedPapers ==
  Spec => []NumberedInOrder
<1>1. IInv => NumberedInOrder
  BY DEF IInv
<1>2. QED BY <1>1, Invariant, PTL

\* Whatever rows the base seed writes, and wherever earlier scripts stopped, no
\* script comes to write a row that is there (seed.ts, seed-rules-topup.ts,
\* seed-showcase-standalone.ts).
THEOREM NothingSeededTwice ==
  Spec => []SeededOnce
<1>1. IInv => SeededOnce
  BY DEF IInv, SeedInv
<1>2. QED BY <1>1, Invariant, PTL

\* When a top-up comes to its end the rules there are have their triggers and
\* actions, the sample cases their pins, the fee schedule and the deposit are
\* there, wherever earlier scripts stopped (seed-rules-topup.ts).
THEOREM TopUpMends ==
  Spec => []MendedByTopUp
<1>1. IInv => MendedByTopUp
  BY SeedMends DEF IInv
<1>2. QED BY <1>1, Invariant, PTL

\* Only a sweep deletes a case, in the step that marks it.
LEMMA OnlySweepsDelete ==
  ASSUME IInv, [Next]_vars, NEW c \in Cases, record'[c].deleted, ~record[c].deleted
  PROVE  /\ HoldInv
         /\ \E r \in Requests : c \in task[r].left \ task[r].held /\ sweepCase(r)
<1>1. ~UNCHANGED record
  OBVIOUS
<1>2. follows = "holds" /\ (age \/ \E r \in Requests : HoldStep(r) \/ SweepStep(r))
  <2>1. \A r \in Requests : PolicyStep(r) => UNCHANGED record
    BY DEF PolicyStep, draftPolicy, reviewPolicy, setReviewed, activatePolicy, readActive, setActive, deleteDraft,
       ReadDraft, retentionVars, holdVars
  <2>2. QED BY <1>1, <2>1 DEF Next, vars, retentionVars, holdVars
<1>3. HoldInv
  BY <1>2 DEF IInv
<1>4. ~age
  BY <1>3, Aged
<1>5. PICK r \in Requests : setFlag(r) \/ clearFlag(r) \/ sweepCase(r)
  BY <1>1, <1>2, <1>4 DEF HoldStep, SweepStep, placeLegalHold, releaseLegalHold, setReleased, countHolds,
     executeSweep, softDeleteEligibleCases, writeTombstone, retentionVars, holdVars
<1>6. ~setFlag(r) /\ ~clearFlag(r)
  <2>1. setFlag(r) \/ clearFlag(r) => task[r].case \in Cases
    BY <1>3, HoldShape DEF HoldInv, setFlag, clearFlag, At
  <2>2. QED BY <1>3, <2>1, FlagWritten DEF setFlag, clearFlag
<1>7. task[r] \in [step : {"sweep"}, left : SUBSET Cases, held : SUBSET Cases]
  BY <1>3, <1>5, <1>6, HoldShape DEF sweepCase, At, HoldInv
<1>8. PICK d \in task[r].left \ task[r].held : record' = [record EXCEPT ![d].deleted = TRUE, ![d].status = "DELETED"]
  BY <1>1, <1>5, <1>6 DEF sweepCase
<1>9. c = d
  BY <1>3, <1>7, <1>8, CaseDeleted
<1>10. QED BY <1>3, <1>5, <1>6, <1>8, <1>9

\* One request at a time, a sweep deletes no case with a hold in force, and
\* none a second time (placeLegalHold, releaseLegalHold, executeSweep).
THEOREM HeldCases ==
  Spec => HeldCaseKept
<1> DEFINE Kept ==
      Serial' => \A c \in Cases :
        (record'[c].deleted /\ ~record[c].deleted) =>
           ~ActiveHold(c) /\ \A i \in DOMAIN swept : swept[i] # [case |-> c, action |-> "SOFT_DELETED"]
<1>1. IInv /\ [Next]_vars => [Kept]_<<retentionVars, alone>>
  <2> SUFFICES ASSUME IInv, [Next]_vars, Serial', NEW c \in Cases, record'[c].deleted, ~record[c].deleted
               PROVE  ~ActiveHold(c) /\ \A i \in DOMAIN swept : swept[i] # [case |-> c, action |-> "SOFT_DELETED"]
    OBVIOUS
  <2>1. PICK r \in Requests : c \in task[r].left \ task[r].held /\ sweepCase(r)
    BY OnlySweepsDelete
  <2>2. HoldInv
    BY OnlySweepsDelete
  <2>3. Serial /\ task[r].step = "sweep"
    BY <2>1 DEF sweepCase, At, Continue, Finish, Serial
  <2>4. ~ActiveHold(c)
    BY <2>1, <2>2, <2>3 DEF HoldInv, OneByOne, Free
  <2>5. \A i \in DOMAIN swept : swept[i] # [case |-> c, action |-> "SOFT_DELETED"]
    BY <2>2 DEF HoldInv, Deletions
  <2>6. QED BY <2>4, <2>5
<1>2. QED BY <1>1, Invariant, PTL DEF Spec, HeldCaseKept

\* Only a message that is made makes the messages more, and in the mode that follows them.
LEMMA OnlyMade ==
  ASSUME IInv, [Next]_vars, Len(message') > Len(message)
  PROVE  MessageInv /\ \E r \in Requests : createMessage(r)
<1>1. message' # message
  <2>1. ASSUME message' = message PROVE FALSE
    <3>1. Len(message) > Len(message)
      BY <2>1
    <3>2. QED BY <3>1
  <2>2. QED BY <2>1
<1>2. PICK r \in Requests : follows = "messages" /\ MessageStep(r)
  <2>1. \A r \in Requests : DocumentStep(r) => UNCHANGED message
    BY DEF DocumentStep, upload, put, countDocuments, createDocument, loadViewable, createActivity,
       issueProceduralOrder, createOrder, correspondenceVars
  <2>2. QED BY <1>1, <2>1 DEF Next, vars, correspondenceVars
<1>3. MessageInv
  BY <1>2 DEF IInv
<1>4. ~markRead(r)
  BY <1>3, MarkRead DEF MessageInv
<1>5. createMessage(r)
  BY <1>1, <1>2, <1>4 DEF MessageStep, addTeamMember, addRepresentative, seat, send, readTeam, correspondenceVars
<1>6. QED BY <1>3, <1>5

\* No one-sided contact with the tribunal: of requests one at a time, a message
\* reaches everybody on the case when it is made, a restricted one nobody who
\* only acts for a party (send, readTeam, createMessage, the team's operations).
THEOREM NobodyIsLeftOut ==
  Spec => NoExParte
<1> DEFINE Reaches ==
      (Serial' /\ Len(message') > Len(message)) =>
        LET sent == Last(message') IN
        IF sent.restricted THEN \A u \in sent.to : ~(RolesOf(u) \subseteq PartyRoles \cup {"OBSERVER"})
        ELSE \A u \in People \ {sent.sender} : RolesOf(u) # {} => u \in sent.to
<1>1. IInv /\ [Next]_vars => [Reaches]_<<correspondenceVars, alone>>
  <2> SUFFICES ASSUME IInv, [Next]_vars, Serial', Len(message') > Len(message)
               PROVE  LET sent == Last(message') IN
                      IF sent.restricted THEN \A u \in sent.to : ~(RolesOf(u) \subseteq PartyRoles \cup {"OBSERVER"})
                      ELSE \A u \in People \ {sent.sender} : RolesOf(u) # {} => u \in sent.to
    OBVIOUS
  <2>1. PICK r \in Requests : MessageInv /\ createMessage(r)
    BY OnlyMade
  <2>2. PICK sent \in MessageRow :
          /\ sent.sender = task[r].sender /\ sent.restricted = task[r].restricted /\ sent.to = task[r].to
          /\ message' = Append(message, sent)
    BY <2>1, Sent
  <2>3. Last(message') = sent
    BY <2>1, <2>2 DEF Last, MessageInv
  <2>4. sent.to = Recipients(sent.restricted) \ {sent.sender}
    BY <2>1, <2>2 DEF createMessage, At, Finish, Continue, Serial, MessageInv, Told
  <2>5. ASSUME sent.restricted, NEW u \in sent.to
        PROVE  ~(RolesOf(u) \subseteq PartyRoles \cup {"OBSERVER"})
    <3>1. PICK m \in team : m.user = u /\ m.role \in STAFF_CASE_ROLES \cup TRIBUNAL_CASE_ROLES
      BY <2>4, <2>5 DEF Recipients
    <3>2. m.role \in RolesOf(u)
      BY <3>1 DEF RolesOf
    <3>3. m.role \notin PartyRoles \cup {"OBSERVER"}
      BY <3>1 DEF STAFF_CASE_ROLES, TRIBUNAL_CASE_ROLES, PartyRoles, Sides, PARTY_REP_ROLES
    <3>4. QED BY <3>2, <3>3
  <2>6. ASSUME ~sent.restricted, NEW u \in People \ {sent.sender}, RolesOf(u) # {}
        PROVE  u \in sent.to
    BY <2>4, <2>6 DEF Recipients, RolesOf
  <2>7. QED BY <2>3, <2>5, <2>6
<1>2. QED BY <1>1, Invariant, PTL DEF Spec, NoExParte
=============================================================================
