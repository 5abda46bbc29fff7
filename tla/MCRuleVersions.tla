--------------------------- MODULE MCRuleVersions ---------------------------
(***************************************************************************)
(* Instances of RuleVersions for TLC.  A behaviour has its requests one at *)
(* a time; or interleaves them and lets them crash, while counsel approves *)
(* what there is and nobody edits.                                         *)
(***************************************************************************)
EXTENDS RuleVersions, TLC

VARIABLE mode
mcVars == <<mode, vars>>

MCInit == Init /\ mode \in {"serial", "concurrent"}

\* Counsel approves the chapters, nobody edits or reviews a rule.
ApprovesOnly ==
  \A r \in Requests :
    /\ task'[r].step \notin {"writeText", "writeItem"}
    /\ task'[r].step = "writeChapter" => task'[r].verdict = "APPROVED"

MCNext ==
  /\ UNCHANGED mode
  /\ \/ /\ mode = "serial" /\ \E r \in Requests : Start(r) \/ Step(r)
        /\ Cardinality({r \in Requests : task'[r] # Idle}) <= 1
     \/ mode = "concurrent" /\ Next /\ ApprovesOnly
MCSpec == MCInit /\ [][MCNext]_mcVars

Symmetry == Permutations(Requests) \cup Permutations(Versions \ {Published}) \cup Permutations(Chapters)
-----------------------------------------------------------------------------
(* Of requests one at a time, the review holds between them: a sign-off    *)
(* stands on chapters that are all clear, since a later blocker revokes    *)
(* it, and a decision about a rule is about its present text.              *)
ReviewHolds == mode = "serial" => SignOffStands /\ DecisionIsOfThisText

(* Of requests one at a time, exactly one version of the rules is in force *)
(* at every moment: it gives way only to the one that replaces it.  And a  *)
(* party accepts the rules of a case once.                                 *)
OneInForce == mode = "serial" => AtMostOneActive /\ SomeVersionActive /\ AcceptedOnce

(* The law of a case does not change under the parties: once pinned it is  *)
(* never replaced, by whatever interleaving; and of requests one at a time *)
(* its text stays, and what comes into force was signed off and is clear.  *)
LawKept ==
  [][/\ \A k \in Cases : pinned[k] # "NONE" => pinned'[k] = pinned[k]
     /\ mode = "serial" =>
          /\ \A k \in Cases, v \in Versions : pinned[k] = v => text'[v] = text[v]
          /\ \A v \in Versions : Activates(v) => clearForSignOff(v) /\ version[v].signedOff]_mcVars
=============================================================================
