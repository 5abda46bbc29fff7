------------------------------ MODULE Deadlines ------------------------------
(***************************************************************************)
(* The deadlines of one case (DeadlinesService) and the rules engine that  *)
(* opens them from procedural events (RuleEngineService, with the event    *)
(* handler of RulesService).  The definitions and the actions of triggers  *)
(* are those of the rule version the case is pinned to.                    *)
(*                                                                         *)
(* Time is counted in days; a due moment and the instants of its day are   *)
(* not told apart.  A request the role check refuses changes nothing and   *)
(* is left out.                                                            *)
(***************************************************************************)
EXTENDS Handlers, DeadlineEngine

CONSTANTS
  Definitions, \* key |-> [days, dayKind, reminderRule] of the pinned version
  Actions,     \* the actions of the event type's triggers, in order:
               \* [kind, key, guarded]: guarded when its trigger has a condition
  MaxDeadlines, MaxEvents, MaxDay,
  DueDates,    \* the dates a deadline may be set or extended to by hand
  MaxChanges   \* bound: extensions, suspensions, resumptions and waivers in all

\* computeDeadline throws on a period that is no positive whole number of days.
ASSUME DefinitionsAssumption ==
  \A key \in DOMAIN Definitions :
    Definitions[key].days \in Nat \ {0} /\ Definitions[key].reminderRule \subseteq Nat
ASSUME DatesAssumption == DueDates \subseteq Nat /\ MaxDeadlines \in Nat

VARIABLES
  now,         \* the day
  pinned,      \* does the case have a CaseRuleSet row?
  event,       \* caseProceduralEvent rows, oldest first: effective date, metadata match
  deadline,    \* deadline rows, oldest first
  log,         \* deadlineExtension rows of each deadline, oldest first
  reminder,    \* deadlineReminder rows that are no escalations
  escalations, \* number of escalation rows of each deadline
  notices,     \* number of DEADLINE_OVERDUE notifications for each deadline
  execution    \* caseRuleExecution rows, oldest first

vars == <<task, alone, now, pinned, event, deadline, log, reminder, escalations, notices, execution>>

Deadline == 1..MaxDeadlines

DeadlineStatus == {"OPEN", "MET", "EXTENDED", "SUSPENDED", "WAIVED", "OVERDUE"}
Never == -1
NoKey == "none"
calendar == [weekend |-> {0, 6}, holidays |-> {}]   \* no calendar is ever passed

Exists(d) == d \in DOMAIN deadline
Active(d) == deadline[d].status \in {"OPEN", "EXTENDED"}
Due(key, trigger) ==
  computeDeadline(trigger, Definitions[key].days, Definitions[key].dayKind, calendar)

\* Bounds: rows for every deadline and event in the making; few changes.
RowLeft == Len(deadline) + Cardinality({r \in Requests : At(r, "make")}) < MaxDeadlines
Changes == Cardinality(UNION {{d} \X DOMAIN log[d] : d \in Deadline})
ChangeLeft == Changes < MaxChanges

Init ==
  /\ HandlersInit
  /\ now = 1
  /\ pinned \in BOOLEAN
  /\ event = <<>> /\ deadline = <<>> /\ execution = <<>>
  /\ log = [d \in Deadline |-> <<>>]
  /\ reminder = {}
  /\ escalations = [d \in Deadline |-> 0]
  /\ notices = [d \in Deadline |-> 0]

Elapse == now < MaxDay /\ now' = now + 1
          /\ UNCHANGED <<task, alone, pinned, event, deadline, log, reminder, escalations, notices, execution>>

\* assignToCase of RulesService, seen from here: once, and never undone.
assignToCase == ~pinned /\ pinned' = TRUE
                /\ UNCHANGED <<task, alone, now, event, deadline, log, reminder, escalations, notices, execution>>
-----------------------------------------------------------------------------
(* Deadlines made by hand, or from a definition for another service *)

NewDeadline(dueAt, offsets, key, e, trigger) ==
  [status |-> "OPEN", dueAt |-> dueAt, suspendedAt |-> Never, reminderRule |-> offsets,
   key |-> key, event |-> e, trigger |-> trigger]

\* The row of a deadline, whose reminders are scheduled in later calls.
Insert(r, row) ==
  /\ RowLeft
  /\ deadline' = Append(deadline, row)
  /\ Begin(r, [step |-> "clear", d |-> Len(deadline) + 1, dueAt |-> row.dueAt])
  /\ UNCHANGED <<now, pinned, event, log, reminder, escalations, notices, execution>>

create(r, dueAt, offsets) == Insert(r, NewDeadline(dueAt, offsets, NoKey, 0, now))

FromDefinition(key, e, trigger) ==
  NewDeadline(Due(key, trigger), Definitions[key].reminderRule, key, e, trigger)

\* The event, the pinned version and the definition must exist.
generateFromDefinition(r, e, key) ==
  /\ pinned /\ e \in DOMAIN event /\ key \in DOMAIN Definitions
  /\ Insert(r, FromDefinition(key, e, event[e].day))

\* Without a definition no row is made: the caller falls back on a period of its own.
materialiseRuleDeadline(r, key) ==
  /\ pinned /\ key \in DOMAIN Definitions
  /\ Insert(r, FromDefinition(key, 0, now))

\* scheduleReminders: the unsent reminders are deleted, then the new ones are made.
clearReminders(r) ==
  /\ At(r, "clear")
  /\ reminder' = {m \in reminder : m.d # task[r].d \/ m.sent}
  /\ Continue(r, [task[r] EXCEPT !.step = "fill"])
  /\ UNCHANGED <<now, pinned, event, deadline, log, escalations, notices, execution>>

scheduleReminders(r) ==
  /\ At(r, "fill")
  /\ reminder' = reminder \cup
       {[d |-> task[r].d, at |-> at, sent |-> FALSE] :
          at \in computeReminderSchedule(task[r].dueAt, deadline[task[r].d].reminderRule, now)}
  /\ Finish(r)
  /\ UNCHANGED <<now, pinned, event, deadline, log, escalations, notices, execution>>
-----------------------------------------------------------------------------
(* Orders about a deadline: read first, then logged and carried out in one  *)
(* transaction.  An extension may be ordered in any status.                 *)

order(r, step, d, to) ==
  /\ ChangeLeft /\ Exists(d)
  /\ step = "suspend" => deadline[d].status # "SUSPENDED"
  /\ step = "resume" => deadline[d].status = "SUSPENDED" /\ deadline[d].suspendedAt # Never
  /\ Begin(r, [step |-> step, d |-> d, seen |-> deadline[d], at |-> now, to |-> to])
  /\ UNCHANGED <<now, pinned, event, deadline, log, reminder, escalations, notices, execution>>

Logged(r, newDueAt) ==
  log' = [log EXCEPT ![task[r].d] = Append(@,
            [kind |-> task[r].step, previousDueAt |-> task[r].seen.dueAt, newDueAt |-> newDueAt])]

\* The reminders follow the new date in later calls.
Moved(r, dueAt) == Continue(r, [step |-> "clear", d |-> task[r].d, dueAt |-> dueAt])

\* Mutant: the old reminders are left as they are.
extendOnly(r) ==
  /\ At(r, "extend")
  /\ Logged(r, task[r].to)
  /\ deadline' = [deadline EXCEPT ![task[r].d] = [@ EXCEPT !.dueAt = task[r].to, !.status = "EXTENDED"]]
  /\ Finish(r)
  /\ UNCHANGED <<now, pinned, event, reminder, escalations, notices, execution>>

extend(r) ==
  /\ At(r, "extend")
  /\ Logged(r, task[r].to)
  /\ deadline' = [deadline EXCEPT ![task[r].d] = [@ EXCEPT !.dueAt = task[r].to, !.status = "EXTENDED"]]
  /\ Moved(r, task[r].to)
  /\ UNCHANGED <<now, pinned, event, reminder, escalations, notices, execution>>

suspend(r) ==
  /\ At(r, "suspend")
  /\ Logged(r, Never)
  /\ deadline' = [deadline EXCEPT ![task[r].d] =
                    [@ EXCEPT !.status = "SUSPENDED", !.suspendedAt = task[r].at]]
  /\ Finish(r)
  /\ UNCHANGED <<now, pinned, event, reminder, escalations, notices, execution>>

\* The time that was left at the suspension runs from now.
Remaining(row) == IF row.dueAt > row.suspendedAt THEN row.dueAt - row.suspendedAt ELSE 0

\* Mutant: the log row is written for the date the deadline had.
resumeUnlogged(r) ==
  /\ At(r, "resume")
  /\ Logged(r, Never)
  /\ LET dueAt == task[r].at + Remaining(task[r].seen)
     IN  /\ deadline' = [deadline EXCEPT ![task[r].d] =
                          [@ EXCEPT !.status = "OPEN", !.dueAt = dueAt, !.suspendedAt = Never]]
         /\ Moved(r, dueAt)
  /\ UNCHANGED <<now, pinned, event, reminder, escalations, notices, execution>>

resume(r) ==
  /\ At(r, "resume")
  /\ LET dueAt == task[r].at + Remaining(task[r].seen)
     IN  /\ Logged(r, dueAt)
         /\ deadline' = [deadline EXCEPT ![task[r].d] =
                          [@ EXCEPT !.status = "OPEN", !.dueAt = dueAt, !.suspendedAt = Never]]
         /\ Moved(r, dueAt)
  /\ UNCHANGED <<now, pinned, event, reminder, escalations, notices, execution>>

\* Every unsent row goes, the escalations included (they are never marked sent).
waive(r) ==
  /\ At(r, "waive")
  /\ Logged(r, Never)
  /\ deadline' = [deadline EXCEPT ![task[r].d].status = "WAIVED"]
  /\ reminder' = {m \in reminder : m.d # task[r].d \/ m.sent}
  /\ escalations' = [escalations EXCEPT ![task[r].d] = 0]
  /\ Finish(r)
  /\ UNCHANGED <<now, pinned, event, notices, execution>>

markComplete(r, d) ==
  /\ Exists(d) /\ deadline[d].status # "MET"
  /\ deadline' = [deadline EXCEPT ![d].status = "MET"]
  /\ AtOnce(r)
  /\ UNCHANGED <<now, pinned, event, log, reminder, escalations, notices, execution>>
-----------------------------------------------------------------------------
(* The two sweeps: the rows are listed once, and handled one by one *)

escalateOverdue(r) ==
  LET candidates == {d \in DOMAIN deadline : Active(d) /\ deadline[d].dueAt < now}
  IN  /\ candidates # {}
      /\ Begin(r, [step |-> "escalate", todo |-> candidates])
      /\ UNCHANGED <<now, pinned, event, deadline, log, reminder, escalations, notices, execution>>

\* Was it escalated before?  Then it becomes OVERDUE without another notice.
findExisting(r) ==
  /\ At(r, "escalate")
  /\ \E d \in task[r].todo :
       Continue(r, [step |-> "overdue", d |-> d, todo |-> task[r].todo \ {d},
                    existing |-> escalations[d] > 0])
  /\ UNCHANGED <<now, pinned, event, deadline, log, reminder, escalations, notices, execution>>

NextOverdue(r) ==
  IF task[r].todo = {} THEN Finish(r) ELSE Continue(r, [step |-> "escalate", todo |-> task[r].todo])

\* Mutant: every sweep raises the deadline again.
setOverdueAgain(r) ==
  /\ At(r, "overdue")
  /\ deadline' = [deadline EXCEPT ![task[r].d].status = "OVERDUE"]
  /\ Continue(r, [task[r] EXCEPT !.step = "raise"])
  /\ UNCHANGED <<now, pinned, event, log, reminder, escalations, notices, execution>>

setOverdue(r) ==
  /\ At(r, "overdue")
  /\ deadline' = [deadline EXCEPT ![task[r].d].status = "OVERDUE"]
  /\ IF task[r].existing THEN NextOverdue(r) ELSE Continue(r, [task[r] EXCEPT !.step = "raise"])
  /\ UNCHANGED <<now, pinned, event, log, reminder, escalations, notices, execution>>

raiseOverdue(r) ==
  /\ At(r, "raise")
  /\ escalations' = [escalations EXCEPT ![task[r].d] = @ + 1]
  /\ notices' = [notices EXCEPT ![task[r].d] = @ + 1]
  /\ NextOverdue(r)
  /\ UNCHANGED <<now, pinned, event, deadline, log, reminder, execution>>

runDueReminders(r) ==
  LET due == {m \in reminder : ~m.sent /\ m.at <= now /\ Active(m.d)}
  IN  /\ due # {}
      /\ Begin(r, [step |-> "remind", todo |-> due])
      /\ UNCHANGED <<now, pinned, event, deadline, log, reminder, escalations, notices, execution>>

\* A reminder deleted meanwhile fails the update, and with it the request.
markSent(r) ==
  /\ At(r, "remind")
  /\ \E m \in task[r].todo :
       LET rest == task[r].todo \ {m}
           found == m \in reminder \/ [m EXCEPT !.sent = TRUE] \in reminder
       IN  /\ reminder' = IF found THEN (reminder \ {m}) \cup {[m EXCEPT !.sent = TRUE]} ELSE reminder
           /\ IF found /\ rest # {} THEN Continue(r, [task[r] EXCEPT !.todo = rest]) ELSE Finish(r)
  /\ UNCHANGED <<now, pinned, event, deadline, log, escalations, notices, execution>>
-----------------------------------------------------------------------------
(* The rules engine *)

\* recordEvent, and a filing, which records an event of its own.
recordEvent(r, day, matches) ==
  /\ Len(event) < MaxEvents
  /\ event' = Append(event, [day |-> day, matches |-> matches])
  /\ Begin(r, [step |-> "engine", e |-> Len(event) + 1])
  /\ UNCHANGED <<now, pinned, deadline, log, reminder, escalations, notices, execution>>

conditionMatches(action, e) == action.guarded => event[e].matches

Then(r, e, todo) ==
  IF todo = <<>> THEN Finish(r) ELSE Continue(r, [step |-> "action", e |-> e, todo |-> todo])

\* Nothing happens on a case that is not pinned yet.
applyEvent(r) ==
  /\ At(r, "engine")
  /\ LET e == task[r].e
         matching(action) == conditionMatches(action, e)
     IN  Then(r, e, IF pinned THEN SelectSeq(Actions, matching) ELSE <<>>)
  /\ UNCHANGED <<now, pinned, event, deadline, log, reminder, escalations, notices, execution>>

record(r, kind, key, status, d) ==
  execution' = Append(execution, [event |-> task[r].e, kind |-> kind, key |-> key,
                                  status |-> status, deadline |-> d])

Recorded(e, kind, key) ==
  \E i \in DOMAIN execution : /\ execution[i].event = e
                              /\ execution[i].kind = kind /\ execution[i].key = key

\* An advisory action records a work item, once; only this request handles the
\* event, so the reading joins the write.
executeAction(r) ==
  /\ At(r, "action")
  /\ LET a == Head(task[r].todo) IN
       /\ a.kind # "CREATE_DEADLINE"
       /\ IF Recorded(task[r].e, a.kind, a.key) THEN UNCHANGED execution
          ELSE record(r, a.kind, a.key, "EXECUTED", 0)
       /\ Then(r, task[r].e, Tail(task[r].todo))
  /\ UNCHANGED <<now, pinned, event, deadline, log, reminder, escalations, notices>>

\* createDeadline without a definition: the skipped action is recorded.
skipDeadline(r) ==
  /\ At(r, "action")
  /\ LET a == Head(task[r].todo) IN
       /\ a.kind = "CREATE_DEADLINE" /\ a.key \notin DOMAIN Definitions
       /\ record(r, a.kind, a.key, "SKIPPED", 0)
       /\ Then(r, task[r].e, Tail(task[r].todo))
  /\ UNCHANGED <<now, pinned, event, deadline, log, reminder, escalations, notices>>

\* Mutant: whether the deadline exists already is not asked.
createDeadlineAlways(r) ==
  /\ At(r, "action")
  /\ LET a == Head(task[r].todo) IN
       /\ a.kind = "CREATE_DEADLINE" /\ a.key \in DOMAIN Definitions
       /\ RowLeft /\ Continue(r, [task[r] EXCEPT !.step = "make"])
  /\ UNCHANGED <<now, pinned, event, deadline, log, reminder, escalations, notices, execution>>

\* createDeadline: a second one for the same definition and event is skipped silently.
createDeadline(r) ==
  /\ At(r, "action")
  /\ LET a == Head(task[r].todo) IN
       /\ a.kind = "CREATE_DEADLINE" /\ a.key \in DOMAIN Definitions
       /\ IF \E d \in DOMAIN deadline : deadline[d].key = a.key /\ deadline[d].event = task[r].e
          THEN Then(r, task[r].e, Tail(task[r].todo))
          ELSE RowLeft /\ Continue(r, [task[r] EXCEPT !.step = "make"])
  /\ UNCHANGED <<now, pinned, event, deadline, log, reminder, escalations, notices, execution>>

\* The engine schedules no reminders for its deadlines.
makeDeadline(r) ==
  /\ At(r, "make")
  /\ deadline' = Append(deadline, FromDefinition(Head(task[r].todo).key, task[r].e, event[task[r].e].day))
  /\ Continue(r, [step |-> "made", e |-> task[r].e, todo |-> task[r].todo, d |-> Len(deadline) + 1])
  /\ UNCHANGED <<now, pinned, event, log, reminder, escalations, notices, execution>>

recordDeadline(r) ==
  /\ At(r, "made")
  /\ LET a == Head(task[r].todo) IN
       /\ record(r, a.kind, a.key, "EXECUTED", task[r].d)
       /\ Then(r, task[r].e, Tail(task[r].todo))
  /\ UNCHANGED <<now, pinned, event, deadline, log, reminder, escalations, notices>>
-----------------------------------------------------------------------------
\* The routes of DeadlinesController.
DeadlinesController(r) ==
  \/ \E dueAt \in DueDates, key \in DOMAIN Definitions : create(r, dueAt, Definitions[key].reminderRule)
  \/ \E key \in DOMAIN Definitions, e \in DOMAIN event : generateFromDefinition(r, e, key)
  \/ \E d \in Deadline : \/ \E to \in DueDates : order(r, "extend", d, to)
                         \/ \E step \in {"suspend", "resume", "waive"} : order(r, step, d, Never)
                         \/ markComplete(r, d)
  \/ escalateOverdue(r)
  \/ runDueReminders(r)

Work(r) ==
  \/ clearReminders(r) \/ scheduleReminders(r)
  \/ extend(r) \/ suspend(r) \/ resume(r) \/ waive(r)
  \/ findExisting(r) \/ setOverdue(r) \/ raiseOverdue(r) \/ markSent(r)
  \/ applyEvent(r) \/ executeAction(r) \/ skipDeadline(r)
  \/ createDeadline(r) \/ makeDeadline(r) \/ recordDeadline(r)

Next ==
  \/ Elapse
  \/ assignToCase
  \/ \E r \in Requests :
       \/ DeadlinesController(r)
       \/ \E key \in DOMAIN Definitions : materialiseRuleDeadline(r, key)
       \/ \E day \in 1..now, matches \in BOOLEAN : recordEvent(r, day, matches)
       \/ Work(r)

Spec == Init /\ [][Next]_vars
-----------------------------------------------------------------------------
(* Properties *)

\* The i-th entry is the last before the k-th that moved the date.
LastMove(entries, i, k) ==
  /\ i \in 1..(k - 1) /\ entries[i].newDueAt # Never
  /\ \A j \in (i + 1)..(k - 1) : entries[j].newDueAt = Never

\* Deadlines are never silently overwritten: the due date is the one the log gives
\* last, whatever the interleaving; and, of requests that run one at a time, each
\* entry starts from the date that the one before it left.
DueAccountedFor ==
  \A d \in DOMAIN deadline : \A i \in DOMAIN log[d] :
    /\ LastMove(log[d], i, Len(log[d]) + 1) => deadline[d].dueAt = log[d][i].newDueAt
    /\ Serial => \A k \in DOMAIN log[d] :
         LastMove(log[d], i, k) => log[d][k].previousDueAt = log[d][i].newDueAt

\* A deadline that rests on a definition first fell due on the day the rules ask
\* for, and that day can be read off its row or the first entry of its log.
DueAsComputed ==
  \A d \in DOMAIN deadline :
    LET row == deadline[d]
        first == IF log[d] = <<>> THEN row.dueAt ELSE log[d][1].previousDueAt
    IN  row.key # NoKey =>
          IsDue(first, row.trigger, Definitions[row.key].days, Definitions[row.key].dayKind, calendar)

\* Between requests that run one at a time, a reminder that is still to be sent
\* counts back from the date the deadline has now, not from one it had.
RemindersMatchDue ==
  Serial /\ Quiet =>
    \A m \in reminder : ~m.sent =>
      deadline[m.d].dueAt - m.at \in deadline[m.d].reminderRule

\* Sweeps that run one at a time notify the case of an overdue deadline once,
\* however often it is extended, and again only after a waiver wiped the record.
EscalatedOnce ==
  Serial => \A d \in DOMAIN deadline :
    notices[d] <= 1 + Cardinality({i \in DOMAIN log[d] : log[d][i].kind = "waive"})

\* Every deadline the engine says it made is there, made from that definition and
\* event, and it says so once: also when the registry generates the same deadline
\* meanwhile, and when requests are lost.
ExecutedOnce ==
  \A i \in DOMAIN execution :
    LET x == execution[i] IN
    x.kind = "CREATE_DEADLINE" /\ x.status = "EXECUTED" =>
      /\ x.deadline \in DOMAIN deadline
      /\ deadline[x.deadline].key = x.key /\ deadline[x.deadline].event = x.event
      /\ \A j \in DOMAIN execution :
           execution[j].event = x.event /\ execution[j].kind = x.kind /\ execution[j].key = x.key
             /\ execution[j].status = "EXECUTED" => i = j
=============================================================================
