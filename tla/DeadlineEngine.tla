--------------------------- MODULE DeadlineEngine ---------------------------
(***************************************************************************)
(* The deadline calculation engine (deadline-engine.ts), which is pure.    *)
(* A civil date is the number of days since a Sunday; the time zone and    *)
(* the cut-off hour turn a date into an instant and are left out.          *)
(***************************************************************************)
EXTENDS Integers, FiniteSets

weekdayOf(d) == d % 7   \* 0 is Sunday

isBusinessDay(d, calendar) ==
  /\ weekdayOf(d) \notin (IF calendar.weekend = {} THEN {0, 6} ELSE calendar.weekend)
  /\ d \notin calendar.holidays

rollToNextBusinessDay(d, calendar) ==
  LET cursor[c \in Nat] == IF isBusinessDay(c, calendar) THEN c ELSE cursor[c + 1]
  IN  cursor[d]

\* Mutant: the triggering day itself is counted.
countFromTrigger(trigger, days, calendar) ==
  LET cursor[at \in Nat \X Nat] ==   \* a day, and how many are left to count
        IF at[2] = 0 THEN at[1]
        ELSE cursor[<<at[1] + 1, IF isBusinessDay(at[1] + 1, calendar) THEN at[2] - 1 ELSE at[2]>>]
  IN  cursor[<<trigger - 1, days>>]

\* The day on which the given number of business days after the trigger is counted.
countBusinessDays(trigger, days, calendar) ==
  LET cursor[at \in Nat \X Nat] ==   \* a day, and how many are left to count
        IF at[2] = 0 THEN at[1]
        ELSE cursor[<<at[1] + 1, IF isBusinessDay(at[1] + 1, calendar) THEN at[2] - 1 ELSE at[2]>>]
  IN  cursor[<<trigger, days>>]

computeDeadline(trigger, days, dayKind, calendar) ==
  IF dayKind = "BUSINESS" THEN countBusinessDays(trigger, days, calendar)
  ELSE rollToNextBusinessDay(trigger + days, calendar)

\* The offsets of the reminder rule, without the slots that are already past.
computeReminderSchedule(dueAt, offsets, from) ==
  {dueAt - k : k \in {k \in offsets : dueAt - k > from}}

(* What the rules ask for: the triggering day is excluded, a period in      *)
(* business days ends with the last of them, and one in calendar days ends  *)
(* on its last day or else on the first business day that follows.          *)
IsDue(due, trigger, days, dayKind, calendar) ==
  /\ isBusinessDay(due, calendar)
  /\ IF dayKind = "BUSINESS"
     THEN Cardinality({d \in (trigger + 1)..due : isBusinessDay(d, calendar)}) = days
     ELSE /\ due >= trigger + days
          /\ \A d \in (trigger + days)..(due - 1) : ~isBusinessDay(d, calendar)
=============================================================================
