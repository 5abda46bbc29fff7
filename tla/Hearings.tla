------------------------------ MODULE Hearings ------------------------------
(***************************************************************************)
(* One hearing of a case, its rooms at the video provider, the links to    *)
(* them and who attended.  A link is minted for one user at a time and is  *)
(* good until the provider forgets the room.                               *)
(***************************************************************************)
EXTENDS Handlers

CONSTANTS Rooms, Participants

VARIABLES
  hearing,    \* Hearing.status, "none" before the row is written
  rooms,      \* the provider's rooms that exist
  links,      \* the links given out, each as who it was for and which room
  attendance  \* HearingParticipant rows

hearingVars == <<hearing, rooms, links, attendance>>

HearingRoomKind == {"MAIN", "TRIBUNAL", "PARTY_WAITING", "WITNESS_WAITING", "BREAKOUT"}
ASSUME RoomsAssumption == Rooms \subseteq HearingRoomKind
Callers == {"tribunal", "party", "registry"}

canAccessRoom(kind, caller) ==
  \/ caller = "tribunal"
  \/ caller = "party" /\ kind \in {"BREAKOUT", "MAIN", "PARTY_WAITING"}
  \/ caller = "registry" /\ kind \in {"WITNESS_WAITING", "MAIN", "PARTY_WAITING"}

HearingsInit ==
  /\ hearing = "none" /\ rooms = {} /\ links = {}
  /\ attendance = [p \in Participants |-> "none"]

\* The rooms are made all at once, each call on its own; if one fails the
\* handler throws and the others stay at the provider.
schedule(r) == hearing = "none" /\ Begin(r, [step |-> "rooms"]) /\ UNCHANGED hearingVars
createRoom(r) ==
  /\ At(r, "rooms")
  /\ \E kind \in Rooms \ rooms : rooms' = rooms \cup {kind}
  /\ UNCHANGED <<task, alone, hearing, links, attendance>>
roomFails(r) == At(r, "rooms") /\ rooms # Rooms /\ Finish(r) /\ UNCHANGED hearingVars
createHearing(r) ==
  /\ At(r, "rooms") /\ rooms = Rooms
  /\ hearing' = "SCHEDULED" /\ Finish(r) /\ UNCHANGED <<rooms, links, attendance>>

Open == {"SCHEDULED", "CONFIRMED", "IN_PROGRESS", "COMPLETED", "ADJOURNED"}

\* An update may set any status but CANCELLED, and has read that it was not.
update(r) ==
  /\ hearing \in Open
  /\ \E status \in Open : Begin(r, [step |-> "update", status |-> status])
  /\ UNCHANGED hearingVars
setUpdated(r) ==
  /\ At(r, "update")
  /\ hearing' = task[r].status /\ Finish(r) /\ UNCHANGED <<rooms, links, attendance>>

\* Best effort: rooms are deleted at the provider, or not; then the status.
cancel(r) == hearing \in Open /\ Begin(r, [step |-> "teardown"]) /\ UNCHANGED hearingVars
deleteRoom(r) ==
  /\ At(r, "teardown")
  /\ \E kind \in rooms : rooms' = rooms \ {kind}
  /\ UNCHANGED <<task, alone, hearing, links, attendance>>
setCancelled(r) ==
  /\ At(r, "teardown") /\ hearing' = "CANCELLED"
  /\ Finish(r) /\ UNCHANGED <<rooms, links, attendance>>

\* Mutant: a link is minted whatever the status of the hearing.
getRoomJoinLinkAnyway(r) ==
  /\ hearing # "none"
  /\ \E kind \in Rooms, caller \in Callers :
       canAccessRoom(kind, caller) /\ Begin(r, [step |-> "link", kind |-> kind, caller |-> caller])
  /\ UNCHANGED hearingVars

getRoomJoinLink(r) ==
  /\ hearing \in Open
  /\ \E kind \in Rooms, caller \in Callers :
       canAccessRoom(kind, caller) /\ Begin(r, [step |-> "link", kind |-> kind, caller |-> caller])
  /\ UNCHANGED hearingVars
\* The provider gives a link only for a room it still has.
issueJoinUrl(r) ==
  /\ At(r, "link")
  /\ links' = IF task[r].kind \in rooms THEN links \cup {<<task[r].caller, task[r].kind>>} ELSE links
  /\ Finish(r) /\ UNCHANGED <<hearing, rooms, attendance>>

addParticipant(r) ==
  /\ hearing # "none" /\ AtOnce(r)
  /\ \E p \in Participants : attendance[p] = "none" /\ attendance' = [attendance EXCEPT ![p] = "listed"]
  /\ UNCHANGED <<hearing, rooms, links>>
recordAttendance(r) ==
  /\ AtOnce(r)
  /\ \E p \in Participants, action \in {"join", "leave"} :
       attendance[p] # "none" /\ attendance' = [attendance EXCEPT ![p] = action]
  /\ UNCHANGED <<hearing, rooms, links>>

HearingsNext ==
  \E r \in Requests :
    \/ schedule(r) \/ createRoom(r) \/ roomFails(r) \/ createHearing(r) \/ update(r) \/ setUpdated(r)
    \/ cancel(r) \/ deleteRoom(r) \/ setCancelled(r) \/ getRoomJoinLink(r) \/ issueJoinUrl(r)
    \/ addParticipant(r) \/ recordAttendance(r)
-----------------------------------------------------------------------------
(* A cancelled hearing stays cancelled and no link is given out for it any  *)
(* more, even though rooms may outlive it at the provider; kept as long as  *)
(* one request runs at a time.                                              *)
CancelledForGood ==
  [][(Serial' /\ hearing = "CANCELLED") => hearing' = hearing /\ links' = links]_<<hearingVars, alone>>
=============================================================================
