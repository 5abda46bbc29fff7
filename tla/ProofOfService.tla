---------------------------- MODULE ProofOfService ----------------------------
(***************************************************************************)
(* What the service of a notice promises, with no mail, provider or        *)
(* request in sight: evidence of receipt is gathered and never lost; one   *)
(* certificate is sealed, and only then has it a document; and the notice  *)
(* counts as served from the sealing of the certificate, on evidence of    *)
(* every recipient, or not at all.  It may cease to count, for good.       *)
(***************************************************************************)
CONSTANT Recipients

VARIABLES
  evidence,    \* the recipients who opened or acknowledged the notice
  certified,   \* is the certificate of service sealed?
  documented,  \* has it a document?
  served       \* does the notice count as served?

vars == <<evidence, certified, documented, served>>

Init == evidence = {} /\ ~certified /\ ~documented /\ ~served

Receive(p) ==
  /\ evidence' = evidence \cup {p}
  /\ UNCHANGED <<certified, documented, served>>

Certify ==
  /\ ~certified /\ certified'
  /\ \/ UNCHANGED served
     \/ Recipients \subseteq evidence /\ served'
  /\ UNCHANGED <<evidence, documented>>

Document ==
  /\ certified /\ documented'
  /\ UNCHANGED <<evidence, certified, served>>

Reopen ==
  /\ ~served'
  /\ UNCHANGED <<evidence, certified, documented>>

Next == (\E p \in Recipients : Receive(p)) \/ Certify \/ Document \/ Reopen

Spec == Init /\ [][Next]_vars
=============================================================================
