--------------------------- MODULE Correspondence ---------------------------
(***************************************************************************)
(* What the people of one case write to each other: the case team          *)
(* (parties.service), messages (messages.service), documents               *)
(* (documents.service over case-access.service and storage.service) and    *)
(* the tribunal's procedural orders (cases.service).                       *)
(***************************************************************************)
EXTENDS Handlers, SequencesExt, FiniteSetsExt

CONSTANTS
  People,
  Staff,                              \* holders of CASE_VIEW_QUEUE
  MaxMessages, MaxDocuments, MaxOrders   \* bounds
ASSUME StaffAssumption == Staff \subseteq People

VARIABLES
  team,       \* active CaseTeamMember rows: [user, role, side]
  message,    \* CaseMessage rows with their recipients
  document,   \* Document rows
  stored,     \* files in the object store
  activity,   \* DocumentActivity rows of views and downloads
  order       \* numbers of the ProceduralOrder rows

teamVars == <<team>>
paperVars == <<document, stored, activity, order>>
correspondenceVars == <<team, message, paperVars>>

Sides == {"CLAIMANT", "RESPONDENT"}
PARTY_REP_ROLES == {"CLAIMANT_REPRESENTATIVE", "RESPONDENT_REPRESENTATIVE"}
TRIBUNAL_CASE_ROLES == {"TRIBUNAL_CHAIR", "TRIBUNAL_MEMBER"}
STAFF_CASE_ROLES == {"CASE_REGISTRAR", "TRIBUNAL_SECRETARY"}
PartyRoles == Sides \cup PARTY_REP_ROLES
NoSide == "none"

RolesOf(u) == {m.role : m \in {n \in team : n.user = u}}
SidesOf(u) == {m.side : m \in {n \in team : n.user = u}} \ {NoSide}
IsTribunal(u) == RolesOf(u) \cap TRIBUNAL_CASE_ROLES # {}
IsParty(u) == RolesOf(u) \cap PartyRoles # {}
CanAccess(u) == RolesOf(u) # {} \/ u \in Staff

\* The claimant filed the case; who else is on it was appointed or added.
CorrespondenceInit(first) ==
  /\ team = first /\ message = <<>> /\ document = <<>> /\ stored = 0 /\ activity = {} /\ order = <<>>
-----------------------------------------------------------------------------
(* The team.  A membership is unique for its user and role; to add it again *)
(* makes it active and may move it to the other side.                       *)

assertCanManageSide(u, side) ==
  (side \in SidesOf(u) /\ ~IsTribunal(u)) \/ "CASE_REGISTRAR" \in RolesOf(u) \/ u \in Staff

Upsert(u, role, side) ==
  team' = {m \in team : m.user # u \/ m.role # role} \cup {[user |-> u, role |-> role, side |-> side]}

addTeamMember(r) ==
  /\ \E actor \in People, u \in People, role \in PARTY_REP_ROLES \cup {"OBSERVER"}, side \in Sides :
       assertCanManageSide(actor, side) /\ Upsert(u, role, side)
  /\ AtOnce(r) /\ UNCHANGED <<message, paperVars>>

\* A lawyer with an account joins the team on the side of the party, unless
\* the membership is there: then its side stays.
addRepresentative(r) ==
  /\ \E actor \in People, u \in People, side \in Sides :
       /\ assertCanManageSide(actor, side)
       /\ LET role == IF side = "CLAIMANT" THEN "CLAIMANT_REPRESENTATIVE" ELSE "RESPONDENT_REPRESENTATIVE" IN
          IF role \in RolesOf(u) THEN UNCHANGED team ELSE Upsert(u, role, side)
  /\ AtOnce(r) /\ UNCHANGED <<message, paperVars>>

\* The appointments seat an arbitrator, or end a seat.
seat(r) ==
  /\ \E u \in People, role \in TRIBUNAL_CASE_ROLES :
       \/ Upsert(u, role, NoSide)
       \/ IsTribunal(u) /\ team' = {m \in team : m.user # u \/ m.role \notin TRIBUNAL_CASE_ROLES}
  /\ AtOnce(r) /\ UNCHANGED <<message, paperVars>>
-----------------------------------------------------------------------------
(* Messages: the sender's membership, the team, then the message with its   *)
(* recipients in one call.                                                  *)

send(r) ==
  \E u \in People, restricted \in BOOLEAN :
    /\ CanAccess(u) /\ (restricted => u \in Staff \/ "CASE_REGISTRAR" \in RolesOf(u))
    /\ Begin(r, [step |-> "team", sender |-> u, restricted |-> restricted])
    /\ UNCHANGED correspondenceVars

\* Mutant: nobody outside a side and the tribunal is told.
RecipientsOfSides(restricted) ==
  {m.user : m \in {n \in team :
     n.role \in TRIBUNAL_CASE_ROLES \/ IF restricted THEN n.role \in STAFF_CASE_ROLES ELSE n.side = "CLAIMANT"}}

Recipients(restricted) ==
  {m.user : m \in {n \in team : ~restricted \/ n.role \in STAFF_CASE_ROLES \cup TRIBUNAL_CASE_ROLES}}

readTeam(r) ==
  /\ At(r, "team")
  /\ Continue(r, [step |-> "message", sender |-> task[r].sender, restricted |-> task[r].restricted,
                  to |-> Recipients(task[r].restricted) \ {task[r].sender}])
  /\ UNCHANGED correspondenceVars
createMessage(r) ==
  /\ At(r, "message") /\ Len(message) < MaxMessages
  /\ message' = Append(message,
       [sender |-> task[r].sender, restricted |-> task[r].restricted, to |-> task[r].to, read |-> {}])
  /\ Finish(r) /\ UNCHANGED <<team, paperVars>>

markRead(r) ==
  /\ \E i \in DOMAIN message : \E u \in message[i].to : message' = [message EXCEPT ![i].read = @ \cup {u}]
  /\ AtOnce(r) /\ UNCHANGED <<team, paperVars>>
-----------------------------------------------------------------------------
(* Documents: the file is stored, the documents are counted, then the row   *)
(* is made; its number is unique in the case.                               *)

Levels == {"PUBLIC", "CASE_PARTIES", "PARTY_PRIVATE", "TRIBUNAL_ONLY", "ADMIN_ONLY"}

upload(r) ==
  \E u \in People, level \in Levels, side \in Sides \cup {NoSide} :
    /\ CanAccess(u) /\ (level = "TRIBUNAL_ONLY" => IsTribunal(u))
    /\ side # NoSide => level = "PARTY_PRIVATE"   \* another level ignores the side
    /\ Begin(r, [step |-> "store", level |-> level, side |->
         IF level # "PARTY_PRIVATE" \/ side # NoSide \/ SidesOf(u) = {} THEN side
         ELSE CHOOSE s \in SidesOf(u) : TRUE])
    /\ UNCHANGED correspondenceVars
put(r) ==
  /\ At(r, "store") /\ stored < MaxDocuments /\ stored' = stored + 1
  /\ Continue(r, [task[r] EXCEPT !.step = "countDocuments"])
  /\ UNCHANGED <<team, message, document, activity, order>>

countDocuments(r) ==
  /\ At(r, "countDocuments")
  /\ Continue(r, [step |-> "document", level |-> task[r].level, side |-> task[r].side, number |-> Len(document) + 1])
  /\ UNCHANGED correspondenceVars

\* Mutant: two documents may have one number.
createDocumentAnyway(r) ==
  /\ At(r, "document")
  /\ document' = Append(document, [number |-> task[r].number, level |-> task[r].level, side |-> task[r].side])
  /\ Finish(r) /\ UNCHANGED <<team, message, stored, activity, order>>

createDocument(r) ==
  /\ At(r, "document")
  /\ document' = IF \E i \in DOMAIN document : document[i].number = task[r].number THEN document
                 ELSE Append(document, [number |-> task[r].number, level |-> task[r].level, side |-> task[r].side])
  /\ Finish(r) /\ UNCHANGED <<team, message, stored, activity, order>>

canViewDocument(u, d) ==
  \/ d.level = "PUBLIC"
  \/ d.level = "CASE_PARTIES" /\ CanAccess(u)
  \/ d.level = "PARTY_PRIVATE" /\ (IsTribunal(u) \/ IF d.side = NoSide THEN IsParty(u) ELSE d.side \in SidesOf(u))
  \/ d.level = "TRIBUNAL_ONLY" /\ IsTribunal(u)
  \/ d.level = "ADMIN_ONLY" /\ (u \in Staff \/ "CASE_REGISTRAR" \in RolesOf(u))

\* getMeta and download: found, allowed, then recorded.
loadViewable(r) ==
  \E u \in People, i \in DOMAIN document :
    /\ canViewDocument(u, document[i]) /\ Begin(r, [step |-> "activity", user |-> u, number |-> document[i].number])
    /\ UNCHANGED correspondenceVars
createActivity(r) ==
  /\ At(r, "activity") /\ activity' = activity \cup {[user |-> task[r].user, number |-> task[r].number]}
  /\ Finish(r) /\ UNCHANGED <<team, message, document, stored, order>>

issueProceduralOrder(r) ==
  \E u \in People :
    IsTribunal(u) /\ Len(order) < MaxOrders /\ Begin(r, [step |-> "order", number |-> Len(order) + 1])
    /\ UNCHANGED correspondenceVars
createOrder(r) ==
  /\ At(r, "order")
  /\ order' = IF \E i \in DOMAIN order : order[i] = task[r].number THEN order ELSE Append(order, task[r].number)
  /\ Finish(r) /\ UNCHANGED <<team, message, document, stored, activity>>
-----------------------------------------------------------------------------
MessageStep(r) ==
  \/ addTeamMember(r) \/ addRepresentative(r) \/ seat(r)
  \/ send(r) \/ readTeam(r) \/ createMessage(r) \/ markRead(r)
DocumentStep(r) ==
  \/ upload(r) \/ put(r) \/ countDocuments(r) \/ createDocument(r) \/ loadViewable(r) \/ createActivity(r)
  \/ issueProceduralOrder(r) \/ createOrder(r)
-----------------------------------------------------------------------------
(* No one-sided contact with the tribunal: one request at a time, a message *)
(* that somebody on a side sends and an arbitrator receives reaches every   *)
(* other person on the case when it is made, the other side among them; a   *)
(* restricted one reaches nobody who only acts for a party.                 *)
NoExParte ==
  [][(Serial' /\ Len(message') > Len(message)) =>
       LET sent == Last(message') IN
       IF sent.restricted THEN \A u \in sent.to : ~(RolesOf(u) \subseteq PartyRoles \cup {"OBSERVER"})
       ELSE \A u \in People \ {sent.sender} : RolesOf(u) # {} => u \in sent.to]_<<correspondenceVars, alone>>

(* Documents and procedural orders are numbered 1, 2, 3, ... without gap or *)
(* repetition, however many are filed at once: the one that comes second    *)
(* fails.  A failure leaves a file behind that no document names.           *)
NumberedInOrder ==
  /\ \A i \in DOMAIN document : document[i].number = i
  /\ \A i \in DOMAIN order : order[i] = i
  /\ Len(document) <= stored
=============================================================================
