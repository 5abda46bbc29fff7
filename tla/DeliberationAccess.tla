------------------------- MODULE DeliberationAccess -------------------------
(***************************************************************************)
(* What the appointment of a tribunal promises about the deliberations of  *)
(* a case, with no invitation, request or transaction in sight: a user may *)
(* enter them from the moment they are seated to the moment the seat is    *)
(* emptied, and is seated only after disclosing.                           *)
(***************************************************************************)
CONSTANT Arbitrators

VARIABLES
  disclosed,   \* who has filed a conflict disclosure
  seated,      \* who sits on the tribunal
  access       \* who may enter the tribunal's deliberations

vars == <<disclosed, seated, access>>

Init == disclosed = {} /\ seated = {} /\ access = {}

Disclose(a) ==
  /\ disclosed' = disclosed \cup {a}
  /\ UNCHANGED <<seated, access>>

Seat(a) ==
  /\ a \in disclosed
  /\ seated' = seated \cup {a}
  /\ access' = access \cup {a}
  /\ UNCHANGED disclosed

Empty(a) ==
  /\ seated' = seated \ {a}
  /\ access' = access \ {a}
  /\ UNCHANGED disclosed

Next == \E a \in Arbitrators : Disclose(a) \/ Seat(a) \/ Empty(a)

Spec == Init /\ [][Next]_vars
=============================================================================
