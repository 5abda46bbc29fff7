----------------------------- MODULE MCTribunal -----------------------------
(* Instances of Tribunal for TLC: identities are model values, so the safety *)
(* runs may permute them.                                                    *)
EXTENDS Tribunal, TLC

Symmetry == Permutations(Arbitrators) \cup Permutations(Invitations)
              \cup Permutations(Challenges) \cup Permutations(Requests)
SoleRoles == {"SOLE"}
PanelRoles == {"CHAIR", "CO_ARBITRATOR"}
=============================================================================
