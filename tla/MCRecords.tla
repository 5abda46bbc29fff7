----------------------------- MODULE MCRecords -----------------------------
(***************************************************************************)
(* Retention and the correspondence of a case share no rows.  A behaviour  *)
(* follows the retention policy, the holds and the sweeps, the messages of *)
(* the case, one request at a time, its documents, or how the database was *)
(* first filled.                                                           *)
(***************************************************************************)
EXTENDS Retention, Correspondence, SeedRows, TLC

CONSTANTS claimant, respondent, arbitrator
ASSUME TeamAssumption == {claimant, respondent, arbitrator} \subseteq People

VARIABLE follows
vars == <<task, alone, follows, retentionVars, correspondenceVars, seedVars>>

PolicyChanges ==
  {[category |-> "CASE_RECORD", field |-> "days", value |-> 1],
   [category |-> "CASE_RECORD", field |-> "behavior", value |-> "REVIEW"],
   [category |-> "AWARD", field |-> "behavior", value |-> "SOFT_DELETE"],
   [category |-> "AWARD", field |-> "days", value |-> 1]}

Team ==
  {[user |-> claimant, role |-> "CLAIMANT", side |-> "CLAIMANT"],
   [user |-> respondent, role |-> "RESPONDENT", side |-> "RESPONDENT"],
   [user |-> arbitrator, role |-> "TRIBUNAL_CHAIR", side |-> NoSide]}

Init ==
  /\ HandlersInit /\ RetentionInit /\ CorrespondenceInit(Team) /\ SeedInit
  /\ follows \in {"policy", "holds", "messages", "documents", "seed"}
  /\ follows # "holds" => \A c \in Cases : record[c].age = Open

Next ==
  /\ UNCHANGED follows
  /\ follows # "seed" => UNCHANGED seedVars
  /\ \/ follows = "seed" /\ SeedNext /\ UNCHANGED <<task, alone, retentionVars, correspondenceVars>>
     \/ follows = "policy" /\ (\E r \in Requests : PolicyStep(r)) /\ UNCHANGED correspondenceVars
     \/ follows = "holds" /\ (age \/ \E r \in Requests : HoldStep(r) \/ SweepStep(r)) /\ UNCHANGED correspondenceVars
     \/ /\ follows = "messages" /\ (\E r \in Requests : MessageStep(r)) /\ UNCHANGED retentionVars
        /\ alone' /\ Cardinality(team' \ Team) <= 1
     \/ /\ follows = "documents" /\ (\E r \in Requests : DocumentStep(r)) /\ UNCHANGED retentionVars
        /\ Cardinality(activity') <= 1
Spec == Init /\ [][Next]_vars

Symmetry == Permutations(Requests) \cup Permutations(Cases)
=============================================================================
