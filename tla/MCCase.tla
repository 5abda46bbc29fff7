------------------------------- MODULE MCCase -------------------------------
(***************************************************************************)
(* The stage of a case, its hearings, its invoices and what the parties    *)
(* put before the tribunal or the registry share no rows, so a behaviour   *)
(* follows one of them.                                                    *)
(***************************************************************************)
EXTENDS CaseStage, Hearings, Invoices, Applications, TLC

VARIABLE follows

vars == <<task, alone, follows, stageVars, hearingVars, invoices, applicationVars>>

Init ==
  /\ HandlersInit /\ StageInit /\ HearingsInit /\ InvoicesInit
  /\ follows \in {"screening", "awards", "hearing", "invoices", "application"}
  /\ IF follows = "application" THEN ApplicationsInit ELSE kind = "none" /\ row = {}
  /\ follows # "screening" => parties = {}

Next ==
  /\ UNCHANGED follows
  /\ follows # "application" => UNCHANGED applicationVars
  /\ \/ follows = "application" /\ ApplicationsNext /\ UNCHANGED <<stageVars, hearingVars, invoices>>
     \/ follows = "screening" /\ StageNext /\ awards' = <<>> /\ UNCHANGED <<hearingVars, invoices>>
     \/ follows = "awards" /\ StageNext /\ parties' = {} /\ UNCHANGED <<hearingVars, invoices>>
     \/ follows = "hearing" /\ HearingsNext /\ UNCHANGED <<stageVars, invoices>>
     \/ follows = "invoices" /\ InvoicesNext /\ UNCHANGED <<stageVars, hearingVars>>

Spec == Init /\ [][Next]_vars

Symmetry == Permutations(Requests) \cup Permutations(Parties) \cup Permutations(Cases)
            \cup Permutations(Participants)
=============================================================================
