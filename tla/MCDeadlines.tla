---------------------------- MODULE MCDeadlines ----------------------------
(* Instances of Deadlines for TLC: two definitions and one event type. *)
EXTENDS Deadlines, TLC

TwoDefinitions ==
  [RESPONSE |-> [days |-> 2, dayKind |-> "BUSINESS", reminderRule |-> {1}],
   COMMENT  |-> [days |-> 3, dayKind |-> "CALENDAR", reminderRule |-> {1, 2}]]

\* Two triggers ask for the same deadline; one action has no definition; one
\* trigger has a condition.
FilingActions ==
  <<[kind |-> "CREATE_DEADLINE", key |-> "RESPONSE", guarded |-> FALSE],
    [kind |-> "CREATE_DEADLINE", key |-> "UNKNOWN", guarded |-> FALSE],
    [kind |-> "CREATE_DEADLINE", key |-> "RESPONSE", guarded |-> TRUE],
    [kind |-> "NOTIFY_PARTY", key |-> NoKey, guarded |-> TRUE],
    [kind |-> "NOTIFY_PARTY", key |-> NoKey, guarded |-> FALSE]>>

\* Deadlines share nothing but the event they come from: with two of them, one
\* order is followed, and requests overlap only when both come from one event.
OneAtATime ==
  Len(deadline) > 1 =>
    \/ Serial /\ Changes <= 1
    \/ deadline[1].event = deadline[2].event /\ deadline[1].event # 0 /\ Changes = 0

Symmetry == Permutations(Requests)
=============================================================================
