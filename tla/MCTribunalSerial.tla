-------------------------- MODULE MCTribunalSerial --------------------------
(***************************************************************************)
(* Tribunal for TLC with one request at a time: a sole arbitrator with a   *)
(* challenge and windows that are extended or suspended, or a panel of     *)
(* three that answers in time.                                             *)
(***************************************************************************)
EXTENDS MCTribunal

Concerned ==
  {a \in Arbitrators : (\E i \in Invitations : invitation[i].arb = a) \/ \E c \in Challenges : challenge[c].target = a}
Sole ==
  /\ \A i \in Invitations : invitation[i].role \in {"SOLE", "NONE"}
  /\ Cardinality(Concerned) <= 2
  /\ Cardinality({i \in Invitations : invitation[i].status # "NONE"}) <= 2
Open == [clock |-> "running", elapsed |-> FALSE]
Panel ==
  /\ \A i \in Invitations : invitation[i].role \in {"CHAIR", "CO_ARBITRATOR", "NONE"} /\ window[i] = Open
  /\ \A c \in Challenges : challenge[c] = NoChallenge

\* What is followed: the rows of a case are of one kind or of the other.
Bounds == Sole \/ Panel
AllRoles == SoleRoles \cup PanelRoles
-----------------------------------------------------------------------------
(* Of requests one at a time, what is over stays over: an expired or       *)
(* withdrawn invitation is not revived, a challenge once decided is not    *)
(* decided otherwise, and the sweep expires no invitation that was         *)
(* answered, or whose window is open, suspended or waived.                 *)
OutcomesStand == ClosedStaysClosed /\ ExpiredOnlyWhenLate /\ DecisionFinal
=============================================================================
