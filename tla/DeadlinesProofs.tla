-------------------------- MODULE DeadlinesProofs --------------------------
(***************************************************************************)
(* Theorems about the deadlines of a case and the rules engine, for any    *)
(* definitions, actions, dates and number of requests.                     *)
(***************************************************************************)
EXTENDS Deadlines, FiniteSetTheorems, SequenceTheorems, WellFoundedInduction, TLAPS

(* Loops.  A loop goes from s to next[s] until it is done, and comes nearer *)
(* to its end each time; the recursive functions that the engine's loops    *)
(* are written as are then defined, and induction along the loop is sound.  *)

LEMMA Least ==
  ASSUME NEW T \in SUBSET Nat, T # {}
  PROVE  \E x \in T : \A y \in T : x <= y
<1>1. IsWellFoundedOn(OpToRel(<, Nat), Nat)
  BY NatLessThanWellFounded
<1>2. PICK x \in T : \A y \in T : <<y, x>> \notin OpToRel(<, Nat)
  BY <1>1, WFMin
<1>3. \A y \in T : ~(y < x)
  BY <1>2 DEF OpToRel
<1>4. QED BY <1>3

LEMMA Upward ==
  ASSUME NEW T \in SUBSET Nat, 0 \in T, \A n \in T : n + 1 \in T
  PROVE  T = Nat
<1> SUFFICES ASSUME Nat \ T # {} PROVE FALSE
  OBVIOUS
<1>1. PICK x \in Nat \ T : \A y \in Nat \ T : x <= y
  BY Least
<1>2. x # 0 /\ x - 1 \in T
  BY <1>1
<1>3. QED BY <1>1, <1>2

Loop(S, Done, next, left) ==
  /\ \A s \in S : left[s] \in Nat
  /\ \A s \in S \ Done : next[s] \in S /\ left[next[s]] < left[s]

LEMMA AlongLoop ==
  \A S, Done, next, left, Q :
    Loop(S, Done, next, left) /\ (\A s \in S : (s \in Done \/ next[s] \in Q) => s \in Q)
      => \A s \in S : s \in Q
<1> SUFFICES ASSUME NEW S, NEW Done, NEW next, NEW left, NEW Q, Loop(S, Done, next, left),
                    \A s \in S : (s \in Done \/ next[s] \in Q) => s \in Q,
                    NEW bad \in S, bad \notin Q
             PROVE  FALSE
  OBVIOUS
<1>1. PICK T : T = {left[s] : s \in S \ Q}
  OBVIOUS
<1>2. T \in SUBSET Nat /\ T # {}
  BY <1>1 DEF Loop
<1>3. PICK x \in T : \A y \in T : x <= y
  BY <1>2, Least
<1>4. PICK s \in S \ Q : left[s] = x
  BY <1>1
<1>5. s \notin Done /\ next[s] \in S \ Q
  BY <1>4 DEF Loop
<1>6. left[next[s]] \in T /\ left[next[s]] < left[s]
  BY <1>1, <1>5 DEF Loop
<1>7. \A y \in T : y < x => FALSE
  BY <1>2, <1>3
<1>8. QED BY <1>4, <1>6, <1>7

LEMMA LoopDefined ==
  \A S, Done, next, out, left :
    Loop(S, Done, next, left) => \E f : f = [s \in S |-> IF s \in Done THEN out[s] ELSE f[next[s]]]
<1> SUFFICES ASSUME NEW S, NEW Done, NEW next, NEW out, NEW left, Loop(S, Done, next, left)
             PROVE  \E f : f = [s \in S |-> IF s \in Done THEN out[s] ELSE f[next[s]]]
  OBVIOUS
<1>0. /\ \A s \in S : left[s] \in Nat
      /\ \A s \in S \ Done : next[s] \in S /\ left[next[s]] < left[s]
  BY DEF Loop
<1> DEFINE Below(n) == {s \in S : left[s] < n}
           Solves(f, n) == f = [s \in Below(n) |-> IF s \in Done THEN out[s] ELSE f[next[s]]]
<1>1. ASSUME NEW n \in Nat, NEW m \in Nat, NEW f, NEW g, Solves(f, n), Solves(g, m), n <= m
      PROVE  \A s \in Below(n) : f[s] = g[s]
  <2>1. PICK Q : Q = {s \in S : left[s] < n => f[s] = g[s]}
    OBVIOUS
  <2>2. ASSUME NEW s \in S, s \in Done \/ next[s] \in Q PROVE s \in Q
    <3> SUFFICES ASSUME left[s] < n PROVE f[s] = g[s]
      BY <2>1
    <3>1. s \in Below(n) /\ s \in Below(m)
      BY <1>0, <1>1
    <3>2. /\ f[s] = IF s \in Done THEN out[s] ELSE f[next[s]]
          /\ g[s] = IF s \in Done THEN out[s] ELSE g[next[s]]
      BY <1>1, <3>1
    <3>3. s \notin Done => f[next[s]] = g[next[s]]
      <4>1. s \notin Done => next[s] \in Q /\ next[s] \in S /\ left[next[s]] < left[s]
        BY <1>0, <2>2
      <4>2. s \notin Done => left[next[s]] < n
        BY <1>0, <1>1, <4>1
      <4>3. QED BY <2>1, <4>1, <4>2
    <3>4. QED BY <3>2, <3>3
  <2>3. \A s \in S : (s \in Done \/ next[s] \in Q) => s \in Q
    BY <2>2
  <2>4. \A s \in S : s \in Q
    BY <2>3, AlongLoop
  <2>5. QED BY <2>1, <2>4
<1>2. ASSUME NEW n \in Nat PROVE \E f : Solves(f, n)
  <2>1. PICK T : T = {k \in Nat : \E f : Solves(f, k)}
    OBVIOUS
  <2>2. 0 \in T
    <3>1. Below(0) = {}
      BY <1>0
    <3>2. PICK f : f = [s \in Below(0) |-> out[s]]
      OBVIOUS
    <3>3. Solves(f, 0)
      BY <3>1, <3>2
    <3>4. QED BY <2>1, <3>3
  <2>3. ASSUME NEW k \in T PROVE k + 1 \in T
    <3>1. k \in Nat
      BY <2>1
    <3>2. PICK f : Solves(f, k)
      BY <2>1
    <3>3. PICK g : g = [s \in Below(k + 1) |-> IF s \in Done THEN out[s] ELSE f[next[s]]]
      OBVIOUS
    <3>4. ASSUME NEW s \in Below(k + 1), s \notin Done PROVE g[next[s]] = f[next[s]]
      <4>1. next[s] \in Below(k) /\ next[s] \in Below(k + 1)
        BY <1>0, <3>1, <3>4
      <4>2. PICK t : t = next[s]
        OBVIOUS
      <4>3. f[t] = IF t \in Done THEN out[t] ELSE f[next[t]]
        BY <3>2, <4>1, <4>2
      <4>4. g[t] = IF t \in Done THEN out[t] ELSE f[next[t]]
        BY <3>3, <4>1, <4>2
      <4>5. QED BY <4>2, <4>3, <4>4
    <3>5. g = [s \in Below(k + 1) |-> IF s \in Done THEN out[s] ELSE g[next[s]]]
      BY <3>3, <3>4
    <3>6. \E h : Solves(h, k + 1)
      BY <3>5
    <3>7. k + 1 \in Nat
      BY <3>1
    <3>8. QED BY <2>1, <3>6, <3>7, Zenon
  <2>4. T \in SUBSET Nat /\ \A k \in T : k + 1 \in T
    BY <2>1, <2>3
  <2>5. T = Nat
    BY <2>2, <2>4, Upward
  <2>6. QED BY <2>1, <2>5
<1>3. PICK f : f = [s \in S |-> (CHOOSE g : Solves(g, left[s] + 1))[s]]
  OBVIOUS
<1>4. ASSUME NEW s \in S, NEW n \in Nat, left[s] < n, NEW g, Solves(g, n) PROVE f[s] = g[s]
  <2>1. PICK h : h = (CHOOSE e : Solves(e, left[s] + 1))
    OBVIOUS
  <2>2. left[s] + 1 \in Nat /\ left[s] + 1 <= n /\ s \in Below(left[s] + 1)
    BY <1>0, <1>4
  <2>3. Solves(h, left[s] + 1)
    BY <1>2, <2>1, <2>2
  <2>4. \A t \in Below(left[s] + 1) : h[t] = g[t]
    <3>1. \A i, j, e, d : i \in Nat /\ j \in Nat /\ i <= j /\ Solves(e, i) /\ Solves(d, j) => \A t \in Below(i) : e[t] = d[t]
      BY <1>1
    <3>2. QED BY <1>4, <2>2, <2>3, <3>1
  <2>5. QED BY <1>3, <2>1, <2>2, <2>4
<1>5. ASSUME NEW s \in S PROVE f[s] = IF s \in Done THEN out[s] ELSE f[next[s]]
  <2>1. PICK n \in Nat : n = left[s] + 1
    BY <1>0
  <2>2. PICK g : Solves(g, n)
    BY <1>2
  <2>3. f[s] = g[s] /\ s \in Below(n)
    BY <1>0, <1>4, <2>1, <2>2
  <2>4. s \notin Done => next[s] \in S /\ left[next[s]] < n
    BY <1>0, <2>1
  <2>5. s \notin Done => f[next[s]] = g[next[s]]
    BY <1>4, <2>2, <2>4
  <2>6. g[s] = IF s \in Done THEN out[s] ELSE g[next[s]]
    BY <2>2, <2>3
  <2>7. QED BY <2>3, <2>5, <2>6
<1>6. f = [s \in S |-> IF s \in Done THEN out[s] ELSE f[next[s]]]
  BY <1>3, <1>5
<1>7. QED BY <1>6
-----------------------------------------------------------------------------
(* The engine's two loops, over the days of a week that has a weekend.      *)

Business(d) == isBusinessDay(d, calendar)
ToBusiness(d) == IF Business(d) THEN 0 ELSE IF Business(d + 1) THEN 1 ELSE 2
Counted(from, due) == {d \in (from + 1)..due : Business(d)}

LEMMA Weekend ==
  \A d \in Nat : /\ ToBusiness(d) \in 0..2
                 /\ ~Business(d) => ToBusiness(d) = ToBusiness(d + 1) + 1
<1> SUFFICES ASSUME NEW d \in Nat
             PROVE  /\ ToBusiness(d) \in 0..2
                    /\ ~Business(d) => ToBusiness(d) = ToBusiness(d + 1) + 1
  OBVIOUS
<1>1. \A c \in Nat : Business(c) <=> c % 7 \notin {0, 6}
  BY DEF Business, isBusinessDay, calendar, weekdayOf
<1>2. d % 7 = 6 => (d + 1) % 7 = 0 /\ (d + 2) % 7 = 1
  OBVIOUS
<1>3. d % 7 = 0 => (d + 1) % 7 = 1
  OBVIOUS
<1>4. d + 1 \in Nat /\ d + 2 \in Nat /\ d + 1 + 1 = d + 2
  OBVIOUS
<1>5. QED BY <1>1, <1>2, <1>3, <1>4 DEF ToBusiness

LEMMA RollsForward ==
  \A day \in Nat : LET due == rollToNextBusinessDay(day, calendar) IN
    due \in Nat /\ due >= day /\ Business(due) /\ \A d \in day..(due - 1) : ~Business(d)
<1>1. PICK done : done = {c \in Nat : Business(c)}
  OBVIOUS
<1>2. PICK next : next = [c \in Nat |-> c + 1]
  OBVIOUS
<1>3. PICK out : out = [c \in Nat |-> c]
  OBVIOUS
<1>4. PICK left : left = [c \in Nat |-> ToBusiness(c)]
  OBVIOUS
<1>5. Loop(Nat, done, next, left)
  BY <1>1, <1>2, <1>4, Weekend DEF Loop
<1>6. \E f : f = [c \in Nat |-> IF c \in done THEN out[c] ELSE f[next[c]]]
  BY <1>5, LoopDefined
<1>7. \E f : f = [c \in Nat |-> IF isBusinessDay(c, calendar) THEN c ELSE f[c + 1]]
  <2>1. PICK f : f = [c \in Nat |-> IF c \in done THEN out[c] ELSE f[next[c]]]
    BY <1>6
  <2>2. f = [c \in Nat |-> IF isBusinessDay(c, calendar) THEN c ELSE f[c + 1]]
    BY <2>1, <1>1, <1>2, <1>3 DEF Business
  <2>3. QED BY <2>2
<1>8. PICK cursor : cursor = (CHOOSE f : f = [c \in Nat |-> IF isBusinessDay(c, calendar) THEN c ELSE f[c + 1]])
  OBVIOUS
<1>9. cursor = [c \in Nat |-> IF isBusinessDay(c, calendar) THEN c ELSE cursor[c + 1]]
  BY <1>7, <1>8
<1>10. \A day : rollToNextBusinessDay(day, calendar) = cursor[day]
  BY <1>8 DEF rollToNextBusinessDay
<1>11. PICK Q : Q = {c \in Nat : /\ cursor[c] \in Nat /\ cursor[c] >= c /\ Business(cursor[c])
                                 /\ \A d \in c..(cursor[c] - 1) : ~Business(d)}
  OBVIOUS
<1>12. ASSUME NEW c \in Nat, c \in done \/ next[c] \in Q PROVE c \in Q
  <2>1. CASE c \in done
    BY <1>1, <1>9, <1>11, <2>1 DEF Business
  <2>2. CASE c \notin done
    <3>1. ~Business(c) /\ next[c] = c + 1 /\ c + 1 \in Nat /\ cursor[c] = cursor[c + 1]
      BY <1>1, <1>2, <1>9, <2>2 DEF Business
    <3>2. c + 1 \in Q
      BY <1>12, <2>2, <3>1
    <3>3. QED BY <1>11, <3>1, <3>2
  <2>3. QED BY <2>1, <2>2
<1>13. \A c \in Nat : c \in Q
  BY <1>5, <1>12, AlongLoop
<1>14. QED BY <1>10, <1>11, <1>13

LEMMA CountsDays ==
  \A trigger \in Nat, days \in Nat : LET due == countBusinessDays(trigger, days, calendar) IN
    /\ due \in Nat /\ due >= trigger
    /\ days # 0 => Business(due)
    /\ IsFiniteSet(Counted(trigger, due)) /\ Cardinality(Counted(trigger, due)) = days
<1> DEFINE Step(s) == <<s[1] + 1, IF Business(s[1] + 1) THEN s[2] - 1 ELSE s[2]>>
<1>1. PICK days0 : days0 = Nat \X Nat
  OBVIOUS
<1>2. PICK done : done = {s \in days0 : s[2] = 0}
  OBVIOUS
<1>3. PICK next : next = [s \in days0 |-> Step(s)]
  OBVIOUS
<1>4. PICK out : out = [s \in days0 |-> s[1]]
  OBVIOUS
<1>5. PICK left : left = [s \in days0 |-> 3 * s[2] + ToBusiness(s[1] + 1)]
  OBVIOUS
<1>6. \A s \in days0 : s[1] \in Nat /\ s[2] \in Nat /\ s = <<s[1], s[2]>>
  BY <1>1
<1>7. ASSUME NEW s \in days0 PROVE left[s] \in Nat
  <2>1. PICK c \in Nat, n \in Nat : c = s[1] /\ n = s[2] /\ c + 1 \in Nat
    BY <1>6
  <2>2. ToBusiness(c + 1) \in 0..2
    BY <2>1, Weekend
  <2>3. left[s] = 3 * n + ToBusiness(c + 1)
    BY <1>5, <2>1
  <2>4. QED BY <2>1, <2>2, <2>3
<1>8. ASSUME NEW s \in days0 \ done PROVE Step(s) \in days0 /\ left[Step(s)] < left[s]
  <2>1. PICK c, n : c = s[1] /\ n = s[2]
    OBVIOUS
  <2>2. c \in Nat /\ n \in Nat /\ n # 0 /\ c + 1 \in Nat /\ c + 1 + 1 = c + 2 /\ c + 2 \in Nat /\ n - 1 \in Nat
    BY <1>2, <1>6, <2>1
  <2>3. Step(s) = <<c + 1, IF Business(c + 1) THEN n - 1 ELSE n>>
    BY <2>1
  <2>4. Step(s) \in days0
    BY <1>1, <2>2, <2>3
  <2>5. left[Step(s)] = 3 * (IF Business(c + 1) THEN n - 1 ELSE n) + ToBusiness(c + 2)
    BY <1>5, <2>2, <2>3, <2>4
  <2>6. left[s] = 3 * n + ToBusiness(c + 1)
    BY <1>5, <2>1
  <2>7. /\ ToBusiness(c + 1) \in 0..2 /\ ToBusiness(c + 2) \in 0..2
        /\ ~Business(c + 1) => ToBusiness(c + 1) = ToBusiness(c + 2) + 1
    BY <2>2, Weekend
  <2>8. QED BY <2>2, <2>4, <2>5, <2>6, <2>7
<1>9. Loop(days0, done, next, left)
  BY <1>3, <1>7, <1>8 DEF Loop
<1>10. PICK f : f = [s \in days0 |-> IF s \in done THEN out[s] ELSE f[next[s]]]
  BY <1>9, LoopDefined
<1>11. f = [s \in Nat \X Nat |->
             IF s[2] = 0 THEN s[1]
             ELSE f[<<s[1] + 1, IF isBusinessDay(s[1] + 1, calendar) THEN s[2] - 1 ELSE s[2]>>]]
  BY <1>1, <1>2, <1>3, <1>4, <1>10 DEF Business
<1>12. PICK cursor :
         cursor = (CHOOSE g : g = [s \in Nat \X Nat |->
                     IF s[2] = 0 THEN s[1]
                     ELSE g[<<s[1] + 1, IF isBusinessDay(s[1] + 1, calendar) THEN s[2] - 1 ELSE s[2]>>]])
  OBVIOUS
<1>13. cursor = [s \in days0 |-> IF s[2] = 0 THEN s[1] ELSE cursor[Step(s)]]
  BY <1>1, <1>11, <1>12 DEF Business
<1>14. \A trigger, days : countBusinessDays(trigger, days, calendar) = cursor[<<trigger, days>>]
  BY <1>12 DEF countBusinessDays
<1>15. PICK Q : Q = {s \in days0 :
                       /\ cursor[s] \in Nat /\ cursor[s] >= s[1]
                       /\ IF s[2] = 0 THEN cursor[s] = s[1] ELSE Business(cursor[s])
                       /\ IsFiniteSet(Counted(s[1], cursor[s])) /\ Cardinality(Counted(s[1], cursor[s])) = s[2]}
  OBVIOUS
<1>16. ASSUME NEW s \in days0, s \in done \/ next[s] \in Q PROVE s \in Q
  <2>1. PICK c \in Nat, n \in Nat : s = <<c, n>> /\ s[1] = c /\ s[2] = n
    BY <1>6
  <2>2. CASE n = 0
    <3>1. cursor[s] = c
      BY <1>13, <2>1, <2>2
    <3>2. Counted(c, c) = {}
      BY DEF Counted
    <3>3. IsFiniteSet(Counted(c, c)) /\ Cardinality(Counted(c, c)) = 0
      BY <3>2, FS_EmptySet
    <3>4. QED BY <1>15, <2>1, <2>2, <3>1, <3>3
  <2>3. CASE n # 0
    <3>1. PICK t : t = Step(s)
      OBVIOUS
    <3>2. t \in Q /\ cursor[s] = cursor[t] /\ t[1] = c + 1 /\ t[2] = (IF Business(c + 1) THEN n - 1 ELSE n)
      <4>1. s \notin done
        BY <1>2, <2>1, <2>3
      <4>2. QED BY <1>3, <1>13, <1>16, <2>1, <2>3, <3>1, <4>1
    <3>3. PICK due : due = cursor[s]
      OBVIOUS
    <3>4. /\ due \in Nat /\ due >= c + 1 /\ IF t[2] = 0 THEN due = c + 1 ELSE Business(due)
          /\ IsFiniteSet(Counted(c + 1, due)) /\ Cardinality(Counted(c + 1, due)) = t[2]
      BY <1>15, <3>2, <3>3
    <3>5. CASE Business(c + 1)
      <4>1. (c + 1)..due = ((c + 2)..due) \cup {c + 1} /\ c + 1 \notin (c + 2)..due /\ c + 1 + 1 = c + 2
        BY <2>1, <3>4
      <4>2. Counted(c, due) = Counted(c + 1, due) \cup {c + 1} /\ c + 1 \notin Counted(c + 1, due)
        BY <3>5, <4>1 DEF Counted
      <4>3. Cardinality(Counted(c, due)) = t[2] + 1 /\ IsFiniteSet(Counted(c, due))
        BY <3>4, <4>2, FS_AddElement
      <4>4. t[2] = n - 1 /\ Business(due)
        BY <3>2, <3>4, <3>5
      <4>5. Cardinality(Counted(c, due)) = n
        BY <4>3, <4>4, <2>1
      <4>6. QED BY <1>15, <2>1, <2>3, <3>3, <3>4, <4>3, <4>4, <4>5
    <3>6. CASE ~Business(c + 1)
      <4>1. Counted(c, due) = Counted(c + 1, due)
        BY <2>1, <3>4, <3>6 DEF Counted
      <4>2. QED BY <1>15, <2>1, <2>3, <3>2, <3>3, <3>4, <3>6, <4>1
    <3>7. QED BY <3>5, <3>6
  <2>4. QED BY <2>2, <2>3
<1>17. \A s \in days0 : s \in Q
  BY <1>9, <1>16, AlongLoop
<1>18. ASSUME NEW trigger \in Nat, NEW days \in Nat
       PROVE  LET due == countBusinessDays(trigger, days, calendar) IN
                /\ due \in Nat /\ due >= trigger
                /\ days # 0 => Business(due)
                /\ IsFiniteSet(Counted(trigger, due)) /\ Cardinality(Counted(trigger, due)) = days
  <2>1. PICK s : s = <<trigger, days>>
    OBVIOUS
  <2>2. s \in Q /\ s[1] = trigger /\ s[2] = days /\ countBusinessDays(trigger, days, calendar) = cursor[s]
    BY <1>1, <1>14, <1>17, <2>1
  <2>3. QED BY <1>15, <2>2
<1>19. QED BY <1>18

\* The engine finds the day that the rules ask for.
LEMMA DeadlineIsDue ==
  \A dayKind : \A trigger \in Nat, days \in Nat \ {0} :
    LET due == computeDeadline(trigger, days, dayKind, calendar) IN
      due \in Nat /\ IsDue(due, trigger, days, dayKind, calendar)
<1> SUFFICES ASSUME NEW trigger \in Nat, NEW days \in Nat \ {0}, NEW dayKind
             PROVE  LET due == computeDeadline(trigger, days, dayKind, calendar) IN
                      due \in Nat /\ IsDue(due, trigger, days, dayKind, calendar)
  OBVIOUS
<1>1. CASE dayKind = "BUSINESS"
  <2>1. PICK due : due = countBusinessDays(trigger, days, calendar)
    OBVIOUS
  <2>2. due \in Nat /\ Business(due) /\ Cardinality(Counted(trigger, due)) = days
    BY <2>1, CountsDays
  <2>3. QED BY <1>1, <2>1, <2>2 DEF computeDeadline, IsDue, Business, Counted
<1>2. CASE dayKind # "BUSINESS"
  <2>1. PICK due : due = rollToNextBusinessDay(trigger + days, calendar)
    OBVIOUS
  <2>2. trigger + days \in Nat
    OBVIOUS
  <2>3. due \in Nat /\ due >= trigger + days /\ Business(due) /\ \A d \in (trigger + days)..(due - 1) : ~Business(d)
    BY <2>1, <2>2, RollsForward
  <2>4. QED BY <1>2, <2>1, <2>3 DEF computeDeadline, IsDue, Business
<1>3. QED BY <1>1, <1>2
-----------------------------------------------------------------------------
(* The rows, and the work of a request on them.                             *)

Orders == {"extend", "suspend", "resume", "waive"}
Engine == {"engine", "action", "make", "made"}

Row ==
  [status : DeadlineStatus, dueAt : Nat, suspendedAt : Nat \cup {Never}, reminderRule : SUBSET Nat,
   key : DOMAIN Definitions \cup {NoKey}, event : Nat, trigger : Nat]
Entry == [kind : Orders, previousDueAt : Nat, newDueAt : Nat \cup {Never}]
ReminderRow == [d : Nat, at : Int, sent : BOOLEAN]
EventRow == [day : Nat, matches : BOOLEAN]

Works ==
  {Idle}
  \cup [step : {"clear", "fill"}, d : Nat, dueAt : Nat]
  \cup [step : Orders, d : Nat, seen : Row, at : Nat, to : Nat \cup {Never}]
  \cup [step : {"escalate"}, todo : SUBSET Nat]
  \cup [step : {"overdue", "raise"}, d : Nat, todo : SUBSET Nat, existing : BOOLEAN]
  \cup [step : {"remind"}, todo : SUBSET ReminderRow]
  \cup [step : {"engine"}, e : Nat]
Shaped(w) ==
  \/ w \in Works
  \/ w.step \in {"action", "make"} /\ w = [step |-> w.step, e |-> w.e, todo |-> w.todo]
  \/ w.step = "made" /\ w = [step |-> "made", e |-> w.e, todo |-> w.todo, d |-> w.d]

(* Work refers to rows that are there.                                      *)
Sound(w) ==
  /\ Shaped(w)
  /\ w.step \in {"clear", "fill", "overdue", "raise", "made"} \cup Orders => w.d \in DOMAIN deadline
  /\ w.step \in {"escalate", "overdue", "raise"} => w.todo \subseteq DOMAIN deadline
  /\ w.step = "extend" => w.to # Never
  /\ w.step = "resume" => w.seen.suspendedAt # Never
  /\ w.step \in Engine => w.e \in DOMAIN event
  /\ w.step \in {"make", "made"} =>
       Head(w.todo).kind = "CREATE_DEADLINE" /\ Head(w.todo).key \in DOMAIN Definitions

Makers == {r \in Requests : At(r, "make")}

DataInv ==
  /\ task = [r \in Requests |-> task[r]]
  /\ now \in Nat
  /\ event \in Seq(EventRow) /\ deadline \in Seq(Row) /\ log \in [Deadline -> Seq(Entry)]
  /\ escalations \in [Deadline -> Nat] /\ notices \in [Deadline -> Nat] /\ reminder \subseteq ReminderRow
  /\ Len(deadline) + Cardinality(Makers) <= MaxDeadlines
  /\ \A d \in Deadline \ DOMAIN deadline : log[d] = <<>> /\ notices[d] = 0
  /\ \A r \in Requests : Sound(task[r])

(* Each entry of the log moved the date, which an order that found no entry *)
(* yet has read as it was computed.                                         *)
Accounted(d) ==
  \A i \in DOMAIN log[d] : LastMove(log[d], i, Len(log[d]) + 1) => deadline[d].dueAt = log[d][i].newDueAt
Computed(d) ==
  LET row == deadline[d]
      first == IF log[d] = <<>> THEN row.dueAt ELSE log[d][1].previousDueAt
  IN  row.key # NoKey =>
        IsDue(first, row.trigger, Definitions[row.key].days, Definitions[row.key].dayKind, calendar)
Untouched(w) == w.step \in Orders /\ log[w.d] = <<>> => w.seen.dueAt = deadline[w.d].dueAt
RowsInv ==
  /\ \A d \in DOMAIN deadline : Accounted(d) /\ Computed(d)
  /\ \A r \in Requests : Untouched(task[r])

(* One request handles an event, and records a deadline it was about to     *)
(* make after it found none.                                                *)
Made(x) == x.kind = "CREATE_DEADLINE" /\ x.status = "EXECUTED"
Ahead(w) ==
  /\ w.step \in {"make", "made"} =>
       \A i \in DOMAIN execution :
         Made(execution[i]) => execution[i].event # w.e \/ execution[i].key # Head(w.todo).key
  /\ w.step = "made" => deadline[w.d].event = w.e /\ deadline[w.d].key = Head(w.todo).key
EngineInv ==
  /\ execution \in Seq({execution[i] : i \in DOMAIN execution})
  /\ \A i \in DOMAIN execution : execution[i].event \in DOMAIN event
  /\ \A r, s \in Requests : r # s /\ task[r].step \in Engine /\ task[s].step \in Engine => task[r].e # task[s].e
  /\ \A r \in Requests : Ahead(task[r])
  /\ ExecutedOnce

(* What the only request at work has read is still so, and it alone may     *)
(* have left reminders of a date that has moved.                            *)
Waives(entries) == Cardinality({i \in DOMAIN entries : entries[i].kind = "waive"})
Chained(entries) ==
  \A i, k \in DOMAIN entries : LastMove(entries, i, k) => entries[k].previousDueAt = entries[i].newDueAt
Matches(m) == deadline[m.d].dueAt - m.at \in deadline[m.d].reminderRule
Fresh(w) ==
  /\ w.step \in Orders => w.seen = deadline[w.d]
  /\ w.step \in {"clear", "fill"} => w.dueAt = deadline[w.d].dueAt
  /\ w.step = "overdue" => (w.existing <=> escalations[w.d] > 0)
  /\ w.step = "raise" => escalations[w.d] = 0
Reminded(w) ==
  \A m \in reminder : ~m.sent =>
    m.d \in DOMAIN deadline /\ (Matches(m) \/ (w.step = "clear" /\ w.d = m.d))
Notified(d) == notices[d] <= Waives(log[d]) + (IF escalations[d] > 0 THEN 1 ELSE 0)
Steady(w) == Fresh(w) /\ Reminded(w) /\ \A d \in DOMAIN deadline : Chained(log[d]) /\ Notified(d)

Alone == \A r, s \in Requests : r = s \/ task[r] = Idle \/ task[s] = Idle
Only(r) == \A s \in Requests \ {r} : task[s] = Idle
SerialInv ==
  Serial => /\ Alone
            /\ Quiet => Steady(Idle)
            /\ \A r \in Requests : Only(r) => Steady(task[r])

IInv == DataInv /\ RowsInv /\ EngineInv /\ SerialInv

Moves(r, work) ==
  \/ Begin(r, work)
  \/ AtOnce(r) /\ work = Idle
  \/ task[r] # Idle /\ Continue(r, work)
-----------------------------------------------------------------------------
LEMMA Taken ==
  ASSUME DataInv, NEW r \in Requests, NEW w, Moves(r, w)
  PROVE  /\ task' = [s \in Requests |-> task'[s]]
         /\ task'[r] = w
         /\ \A s \in Requests : s # r => task'[s] = task[s]
         /\ \A s \in Requests : task'[s] = IF s = r THEN w ELSE task[s]
BY DEF DataInv, Moves, Begin, AtOnce, Continue

LEMMA Element ==
  ASSUME NEW S, NEW s \in Seq(S), NEW i \in DOMAIN s
  PROVE  s[i] \in S /\ i \in Nat \ {0} /\ i <= Len(s)
OBVIOUS

LEMMA Room ==
  ASSUME DataInv, NEW r \in Requests, NEW w, Moves(r, w)
  PROVE  /\ Cardinality(Makers) \in Nat
         /\ Cardinality(Makers') = Cardinality(Makers) + (IF w.step = "make" THEN 1 ELSE 0)
                                                       - (IF r \in Makers THEN 1 ELSE 0)
<1>1. Makers' = IF w.step = "make" THEN Makers \cup {r} ELSE Makers \ {r}
  BY Taken DEF Makers, At
<1>2. IsFiniteSet(Makers) /\ Cardinality(Makers) \in Nat
  BY RequestsAssumption, FS_Subset, FS_CardinalityType DEF Makers
<1>3. Cardinality(Makers \cup {r}) = IF r \in Makers THEN Cardinality(Makers) ELSE Cardinality(Makers) + 1
  BY <1>2, FS_AddElement
<1>4. Cardinality(Makers \ {r}) = IF r \in Makers THEN Cardinality(Makers) - 1 ELSE Cardinality(Makers)
  BY <1>2, FS_RemoveElement
<1>5. QED BY <1>1, <1>2, <1>3, <1>4

LEMMA Rows ==
  ASSUME DataInv
  PROVE  /\ Len(deadline) \in Nat /\ DOMAIN deadline = 1..Len(deadline) /\ DOMAIN deadline \subseteq Deadline
         /\ Len(event) \in Nat /\ DOMAIN event = 1..Len(event)
         /\ \A d \in DOMAIN deadline : deadline[d] \in Row /\ d \in Nat
         /\ \A e \in DOMAIN event : event[e].day \in Nat /\ e \in Nat
         /\ DOMAIN log = Deadline /\ \A d \in Deadline : log[d] \in Seq(Entry)
<1>1. Cardinality(Makers) \in Nat
  BY RequestsAssumption, FS_Subset, FS_CardinalityType DEF Makers
<1>2. Len(deadline) \in Nat /\ DOMAIN deadline = 1..Len(deadline) /\ Len(deadline) + Cardinality(Makers) <= MaxDeadlines
  BY DEF DataInv
<1>3. DOMAIN deadline \subseteq Deadline
  BY <1>1, <1>2, DatesAssumption DEF Deadline
<1>4. \A d \in DOMAIN deadline : deadline[d] \in Row /\ d \in Nat
  BY Element DEF DataInv
<1>5. ASSUME NEW e \in DOMAIN event PROVE event[e].day \in Nat /\ e \in Nat
  <2>1. event \in Seq(EventRow)
    BY DEF DataInv
  <2>2. event[e] \in EventRow /\ e \in Nat
    BY <2>1, Element
  <2>3. QED BY <2>2 DEF EventRow
<1>6. Len(event) \in Nat /\ DOMAIN event = 1..Len(event) /\ DOMAIN log = Deadline /\ \A d \in Deadline : log[d] \in Seq(Entry)
  BY DEF DataInv
<1>7. QED BY <1>2, <1>3, <1>4, <1>5, <1>6

\* A step of a request: what it changes stays of its kind, and rows are only added.
LEMMA DataMove ==
  ASSUME DataInv, NEW r \in Requests, NEW w, Moves(r, w), Sound(w)',
         UNCHANGED now,
         event' \in Seq(EventRow), Len(event) <= Len(event'),
         deadline' \in Seq(Row), Len(deadline) <= Len(deadline'),
         Len(deadline') + Cardinality(Makers') <= MaxDeadlines,
         log' \in [Deadline -> Seq(Entry)],
         escalations' \in [Deadline -> Nat], notices' \in [Deadline -> Nat], reminder' \subseteq ReminderRow,
         \A d \in Deadline \ DOMAIN deadline : log'[d] = log[d] /\ notices'[d] = notices[d]
  PROVE  DataInv'
<1>1. /\ task' = [s \in Requests |-> task'[s]]
      /\ \A s \in Requests : task'[s] = IF s = r THEN w ELSE task[s]
  BY Taken
<1>2. DOMAIN deadline \subseteq DOMAIN deadline' /\ DOMAIN event \subseteq DOMAIN event'
  BY Rows
<1>3. ASSUME NEW s \in Requests PROVE Sound(task[s])'
  <2>1. PICK t : t = task'[s]
    OBVIOUS
  <2>2. Sound(t)'
    <3>1. CASE s = r
      BY <1>1, <2>1, <3>1
    <3>2. CASE s # r
      <4>1. Sound(t)
        BY <1>1, <2>1, <3>2 DEF DataInv
      <4>2. QED BY <1>2, <4>1 DEF Sound
    <3>3. QED BY <3>1, <3>2
  <2>3. QED BY <2>1, <2>2 DEF Sound
<1>4. ASSUME NEW d \in Deadline \ DOMAIN deadline' PROVE log'[d] = <<>> /\ notices'[d] = 0
  BY <1>2 DEF DataInv
<1>5. now' \in Nat
  BY DEF DataInv
<1>6. QED BY <1>1, <1>3, <1>4, <1>5 DEF DataInv

\* The usual step: no deadline, event or log row is made, and none is about to be.
LEMMA DataKeep ==
  ASSUME DataInv, NEW r \in Requests, NEW w, Moves(r, w), Sound(w), w.step # "make",
         UNCHANGED <<now, event, deadline, log>>,
         escalations' \in [Deadline -> Nat], notices' \in [Deadline -> Nat], reminder' \subseteq ReminderRow,
         \A d \in Deadline \ DOMAIN deadline : notices'[d] = notices[d]
  PROVE  DataInv'
<1>1. Sound(w)'
  BY DEF Sound
<1>2. Len(deadline) + Cardinality(Makers') <= MaxDeadlines
  <2>1. Cardinality(Makers) \in Nat /\ Cardinality(Makers') <= Cardinality(Makers)
    BY Room
  <2>2. Cardinality(Makers') \in Int
    BY Room
  <2>3. QED BY <2>1, <2>2, Rows, DatesAssumption DEF DataInv
<1>3. /\ event \in Seq(EventRow) /\ deadline \in Seq(Row) /\ log \in [Deadline -> Seq(Entry)]
      /\ Len(event) <= Len(event') /\ Len(deadline) <= Len(deadline')
  BY Rows DEF DataInv
<1>4. \A d \in Deadline \ DOMAIN deadline : log'[d] = log[d]
  OBVIOUS
<1>5. event' \in Seq(EventRow) /\ deadline' \in Seq(Row) /\ log' \in [Deadline -> Seq(Entry)]
      /\ Len(deadline') + Cardinality(Makers') <= MaxDeadlines
  BY <1>2, <1>3
<1>6. QED BY <1>1, <1>3, <1>4, <1>5, DataMove
LEMMA WorkShape ==
  ASSUME DataInv, NEW r \in Requests
  PROVE  /\ Sound(task[r])
         /\ task[r].step # "idle" => task[r] # Idle
         /\ task[r].step \in {"clear", "fill"} => task[r] \in [step : {"clear", "fill"}, d : Nat, dueAt : Nat]
         /\ task[r].step \in Orders =>
              task[r] \in [step : Orders, d : Nat, seen : Row, at : Nat, to : Nat \cup {Never}]
         /\ task[r].step = "escalate" => task[r] \in [step : {"escalate"}, todo : SUBSET Nat]
         /\ task[r].step \in {"overdue", "raise"} =>
              task[r] \in [step : {"overdue", "raise"}, d : Nat, todo : SUBSET Nat, existing : BOOLEAN]
         /\ task[r].step = "remind" => task[r] \in [step : {"remind"}, todo : SUBSET ReminderRow]
         /\ task[r].step = "engine" => task[r] \in [step : {"engine"}, e : Nat]
         /\ task[r].step \in {"action", "make"} => task[r] = [step |-> task[r].step, e |-> task[r].e, todo |-> task[r].todo]
         /\ task[r].step = "made" => task[r] = [step |-> "made", e |-> task[r].e, todo |-> task[r].todo, d |-> task[r].d]
<1>1. Sound(task[r])
  BY DEF DataInv
<1>2. PICK w : w = task[r]
  OBVIOUS
<1>3. Shaped(w) /\ Sound(w)
  BY <1>1, <1>2 DEF Sound
<1>4. /\ w.step # "idle" => w # Idle
      /\ w.step \in {"clear", "fill"} => w \in [step : {"clear", "fill"}, d : Nat, dueAt : Nat]
      /\ w.step \in Orders => w \in [step : Orders, d : Nat, seen : Row, at : Nat, to : Nat \cup {Never}]
      /\ w.step = "escalate" => w \in [step : {"escalate"}, todo : SUBSET Nat]
      /\ w.step \in {"overdue", "raise"} =>
           w \in [step : {"overdue", "raise"}, d : Nat, todo : SUBSET Nat, existing : BOOLEAN]
      /\ w.step = "remind" => w \in [step : {"remind"}, todo : SUBSET ReminderRow]
      /\ w.step = "engine" => w \in [step : {"engine"}, e : Nat]
      /\ w.step \in {"action", "make"} => w = [step |-> w.step, e |-> w.e, todo |-> w.todo]
      /\ w.step = "made" => w = [step |-> "made", e |-> w.e, todo |-> w.todo, d |-> w.d]
  BY <1>3 DEF Shaped, Works, Orders, Idle
<1>5. QED BY <1>1, <1>2, <1>4

LEMMA IdleWork == DataInv => Sound(Idle) /\ Untouched(Idle) /\ Ahead(Idle)
BY DEF Sound, Shaped, Works, Orders, Engine, Idle, Untouched, Ahead
-----------------------------------------------------------------------------
(* Each action keeps the rows and the work of their kind.                   *)

OnTime(row) ==
  row.key # NoKey =>
    IsDue(row.dueAt, row.trigger, Definitions[row.key].days, Definitions[row.key].dayKind, calendar)

LEMMA DefinedRow ==
  ASSUME NEW key \in DOMAIN Definitions, NEW e \in Nat, NEW trigger \in Nat
  PROVE  /\ FromDefinition(key, e, trigger) \in Row /\ OnTime(FromDefinition(key, e, trigger))
         /\ FromDefinition(key, e, trigger).key = key /\ FromDefinition(key, e, trigger).event = e
<1>1. PICK due : due = Due(key, trigger)
  OBVIOUS
<1>2. Definitions[key].days \in Nat \ {0} /\ Definitions[key].reminderRule \in SUBSET Nat
  BY DefinitionsAssumption
<1>3. due \in Nat /\ IsDue(due, trigger, Definitions[key].days, Definitions[key].dayKind, calendar)
  BY <1>1, <1>2, DeadlineIsDue DEF Due
<1>4. FromDefinition(key, e, trigger) =
        [status |-> "OPEN", dueAt |-> due, suspendedAt |-> Never,
         reminderRule |-> Definitions[key].reminderRule, key |-> key, event |-> e, trigger |-> trigger]
  BY <1>1 DEF FromDefinition, NewDeadline
<1>5. FromDefinition(key, e, trigger) \in Row
  BY <1>2, <1>3, <1>4 DEF Row, DeadlineStatus
<1>6. OnTime(FromDefinition(key, e, trigger))
  BY <1>3, <1>4 DEF OnTime
<1>7. QED BY <1>4, <1>5, <1>6

\* A new deadline is the last, and the others stay as they are.
Added(row) ==
  /\ deadline' \in Seq(Row) /\ Len(deadline') = Len(deadline) + 1
  /\ DOMAIN deadline' = DOMAIN deadline \cup {Len(deadline) + 1} /\ Len(deadline) + 1 \notin DOMAIN deadline
  /\ Len(deadline) + 1 \in Deadline
  /\ deadline'[Len(deadline) + 1] = row
  /\ \A d \in DOMAIN deadline : deadline'[d] = deadline[d]
  /\ UNCHANGED log

LEMMA AddRow ==
  ASSUME DataInv, NEW row \in Row, deadline' = Append(deadline, row), Len(deadline) < MaxDeadlines, UNCHANGED log
  PROVE  Added(row)
<1>1. deadline \in Seq(Row)
  BY DEF DataInv
<1>2. /\ deadline' \in Seq(Row) /\ Len(deadline') = Len(deadline) + 1
      /\ deadline'[Len(deadline) + 1] = row
      /\ \A d \in DOMAIN deadline : deadline'[d] = deadline[d]
  BY <1>1
<1>3. Len(deadline) \in Nat /\ DOMAIN deadline = 1..Len(deadline) /\ DOMAIN deadline' = 1..(Len(deadline) + 1)
  BY <1>1, <1>2, Rows
<1>4. DOMAIN deadline' = DOMAIN deadline \cup {Len(deadline) + 1} /\ Len(deadline) + 1 \notin DOMAIN deadline
  BY <1>3
<1>5. Len(deadline) + 1 \in Deadline
  BY <1>3, DatesAssumption DEF Deadline
<1>6. QED BY <1>2, <1>4, <1>5 DEF Added

LEMMA RoomLeft ==
  ASSUME DataInv, NEW r \in Requests, RowLeft
  PROVE  Len(deadline) < MaxDeadlines /\ Len(deadline) + Cardinality(Makers) + 1 <= MaxDeadlines
<1>1. Len(deadline) \in Nat /\ Cardinality(Makers) \in Nat
  BY Rows, RequestsAssumption, FS_Subset, FS_CardinalityType DEF Makers
<1>2. Len(deadline) + Cardinality(Makers) < MaxDeadlines
  BY DEF RowLeft, Makers
<1>3. QED BY <1>1, <1>2, DatesAssumption

LEMMA Inserted ==
  ASSUME DataInv, NEW r \in Requests, NEW row \in Row, Insert(r, row)
  PROVE  /\ DataInv' /\ Added(row) /\ task[r] = Idle
         /\ Moves(r, [step |-> "clear", d |-> Len(deadline) + 1, dueAt |-> row.dueAt])
<1>0. PICK w : w = [step |-> "clear", d |-> Len(deadline) + 1, dueAt |-> row.dueAt]
  OBVIOUS
<1>1. Begin(r, w) /\ RowLeft /\ deadline' = Append(deadline, row) /\ UNCHANGED <<now, event, log, escalations, notices, reminder>>
  BY <1>0 DEF Insert
<1>2. Moves(r, w) /\ w.step = "clear" /\ w.d = Len(deadline) + 1 /\ r \notin Makers
  BY <1>0, <1>1 DEF Moves, Begin, Makers, At, Idle
<1>3. Len(deadline) < MaxDeadlines /\ Len(deadline) + Cardinality(Makers) + 1 <= MaxDeadlines
  BY <1>1, RoomLeft
<1>4. Added(row)
  BY <1>1, <1>3, AddRow
<1>5. Len(deadline) \in Nat /\ Len(deadline') = Len(deadline) + 1 /\ Len(deadline) + 1 \in DOMAIN deadline'
      /\ deadline' \in Seq(Row)
  BY <1>4, Rows DEF Added
<1>6. Sound(w)'
  <2>1. row.dueAt \in Nat
    BY DEF Row
  <2>2. w \in Works
    BY <1>0, <1>5, <2>1 DEF Works
  <2>3. QED BY <1>2, <1>5, <2>2 DEF Sound, Shaped, Orders, Engine
<1>7. Len(deadline') + Cardinality(Makers') <= MaxDeadlines
  <2>1. Cardinality(Makers) \in Nat /\ Cardinality(Makers') = Cardinality(Makers)
    BY <1>2, Room
  <2>2. QED BY <1>3, <1>5, <2>1, DatesAssumption
<1>8. DataInv'
  <2>1. /\ event' \in Seq(EventRow) /\ Len(event) <= Len(event') /\ log' \in [Deadline -> Seq(Entry)]
        /\ escalations' \in [Deadline -> Nat] /\ notices' \in [Deadline -> Nat] /\ reminder' \subseteq ReminderRow
        /\ \A d \in Deadline \ DOMAIN deadline : log'[d] = log[d] /\ notices'[d] = notices[d]
    BY <1>1, Rows DEF DataInv
  <2>2. Len(deadline) <= Len(deadline') /\ UNCHANGED now
    BY <1>1, <1>5
  <2>3. QED BY <1>2, <1>5, <1>6, <1>7, <2>1, <2>2, DataMove
<1>9. QED BY <1>0, <1>1, <1>2, <1>4, <1>8 DEF Begin

LEMMA Inserts ==
  ASSUME DataInv, NEW r \in Requests,
         \/ \E dueAt \in DueDates, key \in DOMAIN Definitions : create(r, dueAt, Definitions[key].reminderRule)
         \/ \E key \in DOMAIN Definitions, e \in DOMAIN event : generateFromDefinition(r, e, key)
         \/ \E key \in DOMAIN Definitions : materialiseRuleDeadline(r, key)
  PROVE  \E row \in Row : Insert(r, row) /\ OnTime(row)
<1>1. now \in Nat
  BY DEF DataInv
<1>2. CASE \E dueAt \in DueDates, key \in DOMAIN Definitions : create(r, dueAt, Definitions[key].reminderRule)
  <2>1. PICK dueAt \in DueDates, key \in DOMAIN Definitions : create(r, dueAt, Definitions[key].reminderRule)
    BY <1>2
  <2>2. PICK row : row = NewDeadline(dueAt, Definitions[key].reminderRule, NoKey, 0, now)
    OBVIOUS
  <2>3. dueAt \in Nat /\ Definitions[key].reminderRule \in SUBSET Nat
    BY DatesAssumption, DefinitionsAssumption
  <2>4. row \in Row /\ row.key = NoKey
    BY <1>1, <2>2, <2>3 DEF NewDeadline, Row, DeadlineStatus
  <2>5. Insert(r, row)
    BY <2>1, <2>2 DEF create
  <2>6. QED BY <2>4, <2>5 DEF OnTime
<1>3. CASE \E key \in DOMAIN Definitions, e \in DOMAIN event : generateFromDefinition(r, e, key)
  <2>1. PICK key \in DOMAIN Definitions, e \in DOMAIN event : generateFromDefinition(r, e, key)
    BY <1>3
  <2>2. e \in Nat /\ event[e].day \in Nat
    BY Rows
  <2>3. QED BY <2>1, <2>2, DefinedRow DEF generateFromDefinition
<1>4. CASE \E key \in DOMAIN Definitions : materialiseRuleDeadline(r, key)
  <2>1. 0 \in Nat
    OBVIOUS
  <2>2. QED BY <1>1, <1>4, <2>1, DefinedRow DEF materialiseRuleDeadline
<1>5. QED BY <1>2, <1>3, <1>4

LEMMA Reminding ==
  ASSUME DataInv, NEW r \in Requests, clearReminders(r) \/ scheduleReminders(r)
  PROVE  DataInv'
<1>1. task[r] \in [step : {"clear", "fill"}, d : Nat, dueAt : Nat] /\ task[r] # Idle /\ Sound(task[r])
  BY WorkShape DEF clearReminders, scheduleReminders, At
<1>2. CASE clearReminders(r)
  <2>1. PICK w : w = [task[r] EXCEPT !.step = "fill"]
    OBVIOUS
  <2>2. w \in [step : {"clear", "fill"}, d : Nat, dueAt : Nat] /\ w.step = "fill" /\ w.d = task[r].d
    BY <1>1, <2>1
  <2>3. Sound(w)
    BY <1>1, <1>2, <2>2 DEF Sound, Shaped, Works, Orders, Engine, clearReminders, At
  <2>4. Moves(r, w)
    BY <1>1, <1>2, <2>1 DEF clearReminders, Moves
  <2>5. QED BY <1>2, <2>2, <2>3, <2>4, DataKeep DEF clearReminders, DataInv
<1>3. CASE scheduleReminders(r)
  <2>1. Moves(r, Idle) /\ Idle.step # "make"
    BY <1>1, <1>3 DEF scheduleReminders, Moves, Finish, Idle
  <2>2. deadline[task[r].d].reminderRule \in SUBSET Nat /\ task[r].d \in Nat /\ task[r].dueAt \in Nat
    <3>1. task[r].d \in DOMAIN deadline
      BY <1>1, <1>3 DEF Sound, scheduleReminders, At
    <3>2. QED BY <1>1, <3>1, Rows DEF Row
  <2>3. PICK S : S = computeReminderSchedule(task[r].dueAt, deadline[task[r].d].reminderRule, now)
    OBVIOUS
  <2>4. reminder' \subseteq ReminderRow
    <3>1. S \subseteq Int
      BY <2>2, <2>3 DEF computeReminderSchedule
    <3>2. \A at \in S : [d |-> task[r].d, at |-> at, sent |-> FALSE] \in ReminderRow
      BY <2>2, <3>1 DEF ReminderRow
    <3>3. reminder' = reminder \cup {[d |-> task[r].d, at |-> at, sent |-> FALSE] : at \in S}
      BY <1>3, <2>3 DEF scheduleReminders
    <3>4. QED BY <3>2, <3>3 DEF DataInv
  <2>5. QED BY <1>3, <2>1, <2>4, IdleWork, DataKeep DEF scheduleReminders, DataInv
<1>4. QED BY <1>2, <1>3

LEMMA Order ==
  ASSUME DataInv, NEW r \in Requests,
         NEW step \in Orders, NEW d \in Deadline, NEW to \in Nat \cup {Never}, order(r, step, d, to),
         step = "extend" => to # Never
  PROVE  DataInv'
<1>0. PICK w : w = [step |-> step, d |-> d, seen |-> deadline[d], at |-> now, to |-> to]
  OBVIOUS
<1>1. d \in DOMAIN deadline /\ deadline[d] \in Row /\ d \in Nat /\ now \in Nat
  BY Rows DEF order, Exists, DataInv
<1>2. w \in [step : Orders, d : Nat, seen : Row, at : Nat, to : Nat \cup {Never}]
  BY <1>0, <1>1
<1>3. Moves(r, w) /\ w.step = step /\ w.step # "make"
  BY <1>0 DEF order, Moves, Orders
<1>4. Sound(w)
  BY <1>0, <1>1, <1>2, <1>3 DEF Sound, Shaped, Works, Orders, Engine, order
<1>5. QED BY <1>3, <1>4, DataKeep DEF order, DataInv

LEMMA EscalateOverdue ==
  ASSUME DataInv, NEW r \in Requests, escalateOverdue(r)
  PROVE  DataInv'
<1>1. PICK todo : todo = {d \in DOMAIN deadline : Active(d) /\ deadline[d].dueAt < now}
  OBVIOUS
<1>2. PICK w : w = [step |-> "escalate", todo |-> todo]
  OBVIOUS
<1>3. todo \in SUBSET Nat /\ todo \subseteq DOMAIN deadline
  BY <1>1, Rows
<1>4. Sound(w) /\ w.step # "make"
  BY <1>2, <1>3 DEF Sound, Shaped, Works, Orders, Engine
<1>5. Moves(r, w)
  BY <1>1, <1>2 DEF escalateOverdue, Moves
<1>6. QED BY <1>4, <1>5, DataKeep DEF escalateOverdue, DataInv

LEMMA FindExisting ==
  ASSUME DataInv, NEW r \in Requests, findExisting(r)
  PROVE  DataInv'
<1>1. PICK d \in task[r].todo :
        Continue(r, [step |-> "overdue", d |-> d, todo |-> task[r].todo \ {d}, existing |-> escalations[d] > 0])
  BY DEF findExisting
<1>2. PICK w : w = [step |-> "overdue", d |-> d, todo |-> task[r].todo \ {d}, existing |-> escalations[d] > 0]
  OBVIOUS
<1>3. task[r] # Idle /\ task[r].todo \subseteq DOMAIN deadline /\ DOMAIN deadline \subseteq Nat
  BY WorkShape, Rows DEF findExisting, At, Sound
<1>4. Sound(w) /\ w.step # "make"
  BY <1>2, <1>3 DEF Sound, Shaped, Works, Orders, Engine
<1>5. Moves(r, w)
  BY <1>1, <1>2, <1>3 DEF Moves
<1>6. QED BY <1>4, <1>5, DataKeep DEF findExisting, DataInv

LEMMA OverdueNext ==
  ASSUME DataInv, NEW r \in Requests, task[r].step \in {"overdue", "raise"}, NextOverdue(r)
  PROVE  \E w : Moves(r, w) /\ Sound(w) /\ w.step \in {"idle", "escalate"}
<1>1. task[r] # Idle /\ Sound(task[r]) /\ task[r].todo \in SUBSET Nat
  BY WorkShape
<1>2. CASE task[r].todo = {}
  BY <1>1, <1>2, IdleWork DEF NextOverdue, Finish, Moves, Idle
<1>3. CASE task[r].todo # {}
  <2>1. PICK w : w = [step |-> "escalate", todo |-> task[r].todo]
    OBVIOUS
  <2>2. Sound(w) /\ w.step = "escalate"
    BY <1>1, <2>1 DEF Sound, Shaped, Works, Orders, Engine
  <2>3. Moves(r, w)
    BY <1>1, <1>3, <2>1 DEF NextOverdue, Moves
  <2>4. QED BY <2>2, <2>3
<1>4. QED BY <1>2, <1>3

LEMMA RaiseOverdue ==
  ASSUME DataInv, NEW r \in Requests, raiseOverdue(r)
  PROVE  DataInv'
<1>1. PICK w : Moves(r, w) /\ Sound(w) /\ w.step \in {"idle", "escalate"}
  BY OverdueNext DEF raiseOverdue, At
<1>2. task[r].d \in DOMAIN deadline
  BY WorkShape DEF raiseOverdue, At, Sound
<1>3. /\ escalations' \in [Deadline -> Nat] /\ notices' \in [Deadline -> Nat]
      /\ \A d \in Deadline \ DOMAIN deadline : notices'[d] = notices[d]
  BY <1>2, Rows DEF raiseOverdue, DataInv
<1>4. QED BY <1>1, <1>3, DataKeep DEF raiseOverdue, DataInv

LEMMA RunDueReminders ==
  ASSUME DataInv, NEW r \in Requests, runDueReminders(r) \/ markSent(r)
  PROVE  DataInv' /\ \E w : Moves(r, w) /\ w.step \in {"idle", "remind"}
<1>1. CASE runDueReminders(r)
  <2>1. PICK todo : todo = {m \in reminder : ~m.sent /\ m.at <= now /\ Active(m.d)}
    OBVIOUS
  <2>2. PICK w : w = [step |-> "remind", todo |-> todo]
    OBVIOUS
  <2>3. todo \in SUBSET ReminderRow
    BY <2>1 DEF DataInv
  <2>4. Sound(w) /\ w.step = "remind"
    BY <2>2, <2>3 DEF Sound, Shaped, Works, Orders, Engine
  <2>5. Moves(r, w)
    BY <1>1, <2>1, <2>2 DEF runDueReminders, Moves
  <2>6. QED BY <1>1, <2>4, <2>5, DataKeep DEF runDueReminders, DataInv
<1>2. CASE markSent(r)
  <2>1. PICK m \in task[r].todo :
          LET rest == task[r].todo \ {m}
              found == m \in reminder \/ [m EXCEPT !.sent = TRUE] \in reminder
          IN  /\ reminder' = IF found THEN (reminder \ {m}) \cup {[m EXCEPT !.sent = TRUE]} ELSE reminder
              /\ IF found /\ rest # {} THEN Continue(r, [task[r] EXCEPT !.todo = rest]) ELSE Finish(r)
    BY <1>2 DEF markSent
  <2>2. task[r] \in [step : {"remind"}, todo : SUBSET ReminderRow] /\ task[r] # Idle
    BY <1>2, WorkShape DEF markSent, At
  <2>3. PICK w : w = [task[r] EXCEPT !.todo = task[r].todo \ {m}]
    OBVIOUS
  <2>4. w \in [step : {"remind"}, todo : SUBSET ReminderRow] /\ w.step = "remind"
    BY <2>2, <2>3
  <2>5. Sound(w)
    BY <2>4 DEF Sound, Shaped, Works, Orders, Engine
  <2>6. PICK x \in {w, Idle} : Moves(r, x)
    BY <2>1, <2>2, <2>3 DEF Moves, Finish
  <2>7. Sound(x) /\ x.step \in {"idle", "remind"}
    BY <2>4, <2>5, <2>6, IdleWork DEF Idle
  <2>8. [m EXCEPT !.sent = TRUE] \in ReminderRow
    BY <2>1, <2>2 DEF ReminderRow
  <2>9. reminder' \subseteq ReminderRow
    BY <2>1, <2>8 DEF DataInv
  <2>10. QED BY <1>2, <2>6, <2>7, <2>9, DataKeep DEF markSent, DataInv
<1>3. QED BY <1>1, <1>2

\* The rows of one deadline may change, and its log may grow.
LEMMA DataChange ==
  ASSUME DataInv, NEW r \in Requests, NEW w, Moves(r, w), Sound(w), w.step # "make",
         NEW d \in DOMAIN deadline, NEW row \in Row, deadline' = [deadline EXCEPT ![d] = row],
         log' \in [Deadline -> Seq(Entry)], \A c \in Deadline \ {d} : log'[c] = log[c],
         UNCHANGED <<now, event, notices>>, escalations' \in [Deadline -> Nat], reminder' \subseteq ReminderRow
  PROVE  /\ DataInv'
         /\ DOMAIN deadline' = DOMAIN deadline /\ deadline'[d] = row
         /\ \A c \in DOMAIN deadline \ {d} : deadline'[c] = deadline[c]
<1>1. deadline \in Seq(Row) /\ Len(deadline) \in Nat
  BY Rows DEF DataInv
<1>2. /\ deadline' \in Seq(Row) /\ Len(deadline') = Len(deadline) /\ DOMAIN deadline' = DOMAIN deadline
      /\ deadline'[d] = row /\ \A c \in DOMAIN deadline \ {d} : deadline'[c] = deadline[c]
  BY <1>1
<1>3. Sound(w)'
  BY <1>2 DEF Sound
<1>4. Len(deadline') + Cardinality(Makers') <= MaxDeadlines
  <2>1. Cardinality(Makers) \in Nat /\ Cardinality(Makers') <= Cardinality(Makers)
    BY Room
  <2>2. Cardinality(Makers') \in Int
    BY Room
  <2>3. QED BY <1>1, <1>2, <2>1, <2>2, DatesAssumption DEF DataInv
<1>5. /\ event' \in Seq(EventRow) /\ Len(event) <= Len(event') /\ notices' \in [Deadline -> Nat]
      /\ Len(deadline) <= Len(deadline')
  BY <1>1, <1>2, Rows DEF DataInv
<1>6. \A c \in Deadline \ DOMAIN deadline : log'[c] = log[c] /\ notices'[c] = notices[c]
  OBVIOUS
<1>7. DataInv'
  BY <1>2, <1>3, <1>4, <1>5, <1>6, DataMove
<1>8. QED BY <1>2, <1>7

\* The status of a deadline changes, and nothing else of it.
Restated(d) ==
  /\ d \in DOMAIN deadline /\ DOMAIN deadline' = DOMAIN deadline /\ UNCHANGED log
  /\ \E status \in DeadlineStatus : deadline'[d] = [deadline[d] EXCEPT !.status = status]
  /\ \A c \in DOMAIN deadline \ {d} : deadline'[c] = deadline[c]

LEMMA Restating ==
  ASSUME DataInv, NEW r \in Requests, NEW w, Moves(r, w), Sound(w), w.step # "make",
         NEW d \in DOMAIN deadline, NEW status \in DeadlineStatus,
         deadline' = [deadline EXCEPT ![d].status = status],
         UNCHANGED <<now, event, log, notices, escalations, reminder>>
  PROVE  DataInv' /\ Restated(d)
<1>1. PICK row : row = [deadline[d] EXCEPT !.status = status]
  OBVIOUS
<1>2. deadline[d] \in Row
  BY Rows
<1>3. row \in Row
  BY <1>1, <1>2 DEF Row
<1>4. deadline' = [deadline EXCEPT ![d] = row]
  BY <1>1
<1>5. /\ log' \in [Deadline -> Seq(Entry)] /\ \A c \in Deadline \ {d} : log'[c] = log[c]
      /\ escalations' \in [Deadline -> Nat] /\ reminder' \subseteq ReminderRow
  BY DEF DataInv
<1>6. /\ DataInv' /\ DOMAIN deadline' = DOMAIN deadline /\ deadline'[d] = row
      /\ \A c \in DOMAIN deadline \ {d} : deadline'[c] = deadline[c]
  BY <1>3, <1>4, <1>5, DataChange
<1>7. QED BY <1>1, <1>6 DEF Restated

LEMMA MarkComplete ==
  ASSUME DataInv, NEW r \in Requests, NEW d \in Deadline, markComplete(r, d)
  PROVE  DataInv' /\ Restated(d) /\ Moves(r, Idle)
<1>1. Moves(r, Idle) /\ Idle.step # "make" /\ "MET" \in DeadlineStatus
  BY DEF markComplete, Moves, Idle, DeadlineStatus
<1>2. QED BY <1>1, IdleWork, Restating DEF markComplete, Exists

LEMMA SetOverdue ==
  ASSUME DataInv, NEW r \in Requests, setOverdue(r)
  PROVE  /\ DataInv' /\ Restated(task[r].d)
         /\ \E w : /\ Moves(r, w)
                   /\ \/ w.step \in {"idle", "escalate"}
                      \/ ~task[r].existing /\ w.step = "raise" /\ w.d = task[r].d
<1>1. /\ task[r] \in [step : {"overdue", "raise"}, d : Nat, todo : SUBSET Nat, existing : BOOLEAN]
      /\ task[r] # Idle /\ Sound(task[r]) /\ task[r].step = "overdue"
  BY WorkShape DEF setOverdue, At
<1>2. PICK w : /\ Moves(r, w) /\ Sound(w)
               /\ \/ w.step \in {"idle", "escalate"}
                  \/ ~task[r].existing /\ w.step = "raise" /\ w.d = task[r].d
  <2>1. CASE task[r].existing
    BY <1>1, <2>1, OverdueNext DEF setOverdue
  <2>2. CASE ~task[r].existing
    <3>1. PICK w : w = [task[r] EXCEPT !.step = "raise"]
      OBVIOUS
    <3>2. /\ w \in [step : {"overdue", "raise"}, d : Nat, todo : SUBSET Nat, existing : BOOLEAN]
          /\ w.step = "raise" /\ w.d = task[r].d /\ w.todo = task[r].todo
      BY <1>1, <3>1
    <3>3. Sound(w)
      BY <1>1, <3>2 DEF Sound, Shaped, Works, Orders, Engine
    <3>4. Moves(r, w)
      BY <1>1, <2>2, <3>1 DEF setOverdue, Moves
    <3>5. QED BY <2>2, <3>2, <3>3, <3>4
  <2>3. QED BY <2>1, <2>2
<1>3. w.step # "make" /\ "OVERDUE" \in DeadlineStatus /\ task[r].d \in DOMAIN deadline
  BY <1>1, <1>2 DEF DeadlineStatus, Sound
<1>4. QED BY <1>2, <1>3, Restating DEF setOverdue

\* An order is logged with the date it read and the one it set, if it set any.
Ordered(r, to, row) ==
  LET d == task[r].d
      entry == [kind |-> task[r].step, previousDueAt |-> task[r].seen.dueAt, newDueAt |-> to]
  IN  /\ d \in DOMAIN deadline /\ d \in Deadline /\ entry \in Entry
      /\ DOMAIN deadline' = DOMAIN deadline
      /\ deadline'[d] = row /\ row.key = deadline[d].key /\ row.trigger = deadline[d].trigger
      /\ row.event = deadline[d].event /\ row.reminderRule = deadline[d].reminderRule
      /\ row.dueAt = IF to = Never THEN deadline[d].dueAt ELSE to
      /\ \A c \in DOMAIN deadline \ {d} : deadline'[c] = deadline[c]
      /\ log'[d] = Append(log[d], entry) /\ \A c \in Deadline \ {d} : log'[c] = log[c]

LEMMA Ordering ==
  ASSUME DataInv, NEW r \in Requests, task[r].step \in Orders, NEW to \in Nat \cup {Never}, Logged(r, to),
         NEW w \in {Idle, [step |-> "clear", d |-> task[r].d, dueAt |-> to]}, w = Idle \/ to # Never,
         Continue(r, w),
         NEW row \in Row, deadline' = [deadline EXCEPT ![task[r].d] = row],
         row.key = deadline[task[r].d].key, row.trigger = deadline[task[r].d].trigger,
         row.event = deadline[task[r].d].event, row.reminderRule = deadline[task[r].d].reminderRule,
         row.dueAt = IF to = Never THEN deadline[task[r].d].dueAt ELSE to,
         UNCHANGED <<now, event, notices>>, escalations' \in [Deadline -> Nat], reminder' \subseteq ReminderRow
  PROVE  DataInv' /\ Ordered(r, to, row) /\ Moves(r, w)
<1>1. PICK d, seen, step : d = task[r].d /\ seen = task[r].seen /\ step = task[r].step
  OBVIOUS
<1>2. d \in DOMAIN deadline /\ d \in Deadline /\ d \in Nat /\ seen \in Row /\ task[r] # Idle /\ step \in Orders
  BY <1>1, WorkShape, Rows DEF Sound, Orders
<1>3. PICK entry : entry = [kind |-> step, previousDueAt |-> seen.dueAt, newDueAt |-> to]
  OBVIOUS
<1>4. entry \in Entry
  BY <1>2, <1>3 DEF Entry, Row
<1>5. log' = [log EXCEPT ![d] = Append(log[d], entry)]
  BY <1>1, <1>3 DEF Logged
<1>6. log \in [Deadline -> Seq(Entry)]
  BY DEF DataInv
<1>7. /\ log' \in [Deadline -> Seq(Entry)] /\ log'[d] = Append(log[d], entry)
      /\ \A c \in Deadline \ {d} : log'[c] = log[c]
  BY <1>2, <1>4, <1>5, <1>6
<1>8. Sound(w) /\ w.step # "make" /\ Moves(r, w)
  <2>1. Moves(r, w)
    BY <1>2 DEF Moves
  <2>2. CASE w = Idle
    BY <2>1, <2>2, IdleWork DEF Idle
  <2>3. CASE w = [step |-> "clear", d |-> d, dueAt |-> to] /\ to \in Nat
    <3>1. w \in [step : {"clear", "fill"}, d : Nat, dueAt : Nat] /\ w.step = "clear" /\ w.d = d
      BY <1>2, <2>3
    <3>2. QED BY <1>2, <2>1, <3>1 DEF Sound, Shaped, Works, Orders, Engine
  <2>4. QED BY <1>1, <2>2, <2>3
<1>9. deadline' = [deadline EXCEPT ![d] = row]
  BY <1>1
<1>10. /\ DataInv' /\ DOMAIN deadline' = DOMAIN deadline /\ deadline'[d] = row
       /\ \A c \in DOMAIN deadline \ {d} : deadline'[c] = deadline[c]
  BY <1>2, <1>7, <1>8, <1>9, DataChange
<1>11. QED BY <1>1, <1>2, <1>3, <1>4, <1>7, <1>8, <1>10 DEF Ordered

Followed(r, to) == IF to = Never THEN Idle ELSE [step |-> "clear", d |-> task[r].d, dueAt |-> to]

LEMMA CarryingOut ==
  ASSUME DataInv, NEW r \in Requests, extend(r) \/ suspend(r) \/ resume(r) \/ waive(r)
  PROVE  /\ DataInv' /\ task[r].step \in Orders
         /\ \E to \in Nat \cup {Never}, row \in Row : Ordered(r, to, row) /\ Moves(r, Followed(r, to))
<1>1. task[r] \in [step : Orders, d : Nat, seen : Row, at : Nat, to : Nat \cup {Never}] /\ Sound(task[r])
      /\ task[r].step \in Orders
  BY WorkShape DEF extend, suspend, resume, waive, At, Orders
<1>2. PICK d, seen, old : d = task[r].d /\ seen = task[r].seen /\ old = deadline[d]
  OBVIOUS
<1>3. d \in DOMAIN deadline /\ seen \in Row /\ old \in Row /\ deadline[d] = old
  BY <1>1, <1>2, Rows DEF Sound
<1>4. escalations \in [Deadline -> Nat] /\ reminder \subseteq ReminderRow /\ d \in Deadline
  BY <1>3, Rows DEF DataInv
<1>5. CASE extend(r)
  <2>1. PICK to : to = task[r].to
    OBVIOUS
  <2>2. to \in Nat
    BY <1>1, <1>5, <2>1 DEF Sound, extend, At
  <2>3. PICK row : row = [old EXCEPT !.dueAt = to, !.status = "EXTENDED"]
    OBVIOUS
  <2>4. row \in Row /\ row.dueAt = to /\ row.key = old.key /\ row.trigger = old.trigger /\ row.event = old.event
        /\ row.reminderRule = old.reminderRule
    BY <1>3, <2>2, <2>3 DEF Row, DeadlineStatus
  <2>5. deadline' = [deadline EXCEPT ![d] = row]
    BY <1>2, <1>5, <2>1, <2>3 DEF extend
  <2>6. to # Never /\ Followed(r, to) = [step |-> "clear", d |-> d, dueAt |-> to]
    BY <1>2, <2>2 DEF Followed, Never
  <2>7. Continue(r, Followed(r, to)) /\ Logged(r, to)
    BY <1>2, <1>5, <2>1, <2>6 DEF extend, Moved
  <2>8. UNCHANGED <<now, event, notices>> /\ escalations' \in [Deadline -> Nat] /\ reminder' \subseteq ReminderRow
    BY <1>4, <1>5 DEF extend
  <2>9. DataInv' /\ Ordered(r, to, row) /\ Moves(r, Followed(r, to))
    BY <1>1, <1>2, <1>3, <2>2, <2>4, <2>5, <2>6, <2>7, <2>8, Ordering
  <2>10. QED BY <1>1, <2>2, <2>4, <2>9
<1>6. CASE suspend(r)
  <2>1. PICK row : row = [old EXCEPT !.status = "SUSPENDED", !.suspendedAt = task[r].at]
    OBVIOUS
  <2>2. row \in Row /\ row.dueAt = old.dueAt /\ row.key = old.key /\ row.trigger = old.trigger /\ row.event = old.event
        /\ row.reminderRule = old.reminderRule
    BY <1>1, <1>3, <2>1 DEF Row, DeadlineStatus
  <2>3. deadline' = [deadline EXCEPT ![d] = row]
    BY <1>2, <1>6, <2>1 DEF suspend
  <2>4. Followed(r, Never) = Idle
    BY DEF Followed
  <2>5. Continue(r, Idle) /\ Logged(r, Never)
    BY <1>6 DEF suspend, Finish
  <2>6. UNCHANGED <<now, event, notices>> /\ escalations' \in [Deadline -> Nat] /\ reminder' \subseteq ReminderRow
    BY <1>4, <1>6 DEF suspend
  <2>7. DataInv' /\ Ordered(r, Never, row) /\ Moves(r, Idle)
    BY <1>1, <1>2, <1>3, <2>2, <2>3, <2>5, <2>6, Ordering
  <2>8. QED BY <1>1, <2>2, <2>4, <2>7
<1>7. CASE resume(r)
  <2>1. PICK to : to = task[r].at + Remaining(seen)
    OBVIOUS
  <2>2. to \in Nat
    <3>1. seen.dueAt \in Nat /\ seen.suspendedAt \in Nat \cup {-1} /\ task[r].at \in Nat
      BY <1>1, <1>3 DEF Row, Never
    <3>2. QED BY <2>1, <3>1 DEF Remaining
  <2>3. PICK row : row = [old EXCEPT !.status = "OPEN", !.dueAt = to, !.suspendedAt = Never]
    OBVIOUS
  <2>4. row \in Row /\ row.dueAt = to /\ row.key = old.key /\ row.trigger = old.trigger /\ row.event = old.event
        /\ row.reminderRule = old.reminderRule
    BY <1>3, <2>2, <2>3 DEF Row, DeadlineStatus
  <2>5. deadline' = [deadline EXCEPT ![d] = row]
    BY <1>2, <1>7, <2>1, <2>3 DEF resume
  <2>6. to # Never /\ Followed(r, to) = [step |-> "clear", d |-> d, dueAt |-> to]
    BY <1>2, <2>2 DEF Followed, Never
  <2>7. Continue(r, Followed(r, to)) /\ Logged(r, to)
    BY <1>2, <1>7, <2>1, <2>6 DEF resume, Moved
  <2>8. UNCHANGED <<now, event, notices>> /\ escalations' \in [Deadline -> Nat] /\ reminder' \subseteq ReminderRow
    BY <1>4, <1>7 DEF resume
  <2>9. DataInv' /\ Ordered(r, to, row) /\ Moves(r, Followed(r, to))
    BY <1>1, <1>2, <1>3, <2>2, <2>4, <2>5, <2>6, <2>7, <2>8, Ordering
  <2>10. QED BY <1>1, <2>2, <2>4, <2>9
<1>8. CASE waive(r)
  <2>1. PICK row : row = [old EXCEPT !.status = "WAIVED"]
    OBVIOUS
  <2>2. row \in Row /\ row.dueAt = old.dueAt /\ row.key = old.key /\ row.trigger = old.trigger /\ row.event = old.event
        /\ row.reminderRule = old.reminderRule
    BY <1>3, <2>1 DEF Row, DeadlineStatus
  <2>3. deadline' = [deadline EXCEPT ![d] = row]
    BY <1>2, <1>8, <2>1 DEF waive
  <2>4. Followed(r, Never) = Idle
    BY DEF Followed
  <2>5. Continue(r, Idle) /\ Logged(r, Never)
    BY <1>8 DEF waive, Finish
  <2>6. UNCHANGED <<now, event, notices>> /\ escalations' \in [Deadline -> Nat] /\ reminder' \subseteq ReminderRow
    BY <1>2, <1>4, <1>8 DEF waive
  <2>7. DataInv' /\ Ordered(r, Never, row) /\ Moves(r, Idle)
    BY <1>1, <1>2, <1>3, <2>2, <2>3, <2>5, <2>6, Ordering
  <2>8. QED BY <1>1, <2>2, <2>4, <2>7
<1>9. QED BY <1>5, <1>6, <1>7, <1>8

\* The engine's requests.
LEMMA RecordEvent ==
  ASSUME DataInv, NEW r \in Requests, NEW day \in 1..now, NEW matches \in BOOLEAN, recordEvent(r, day, matches)
  PROVE  DataInv' /\ DOMAIN event' = DOMAIN event \cup {Len(event) + 1} /\ Len(event) + 1 \notin DOMAIN event
         /\ Moves(r, [step |-> "engine", e |-> Len(event) + 1])
<1>1. PICK w, new : w = [step |-> "engine", e |-> Len(event) + 1] /\ new = [day |-> day, matches |-> matches]
  OBVIOUS
<1>2. Moves(r, w) /\ event' = Append(event, new) /\ UNCHANGED <<now, deadline, log, reminder, escalations, notices>>
  BY <1>1 DEF recordEvent, Moves
<1>3. event \in Seq(EventRow) /\ new \in EventRow /\ Len(event) \in Nat /\ DOMAIN event = 1..Len(event)
  BY <1>1, Rows DEF EventRow, DataInv
<1>4. /\ event' \in Seq(EventRow) /\ Len(event') = Len(event) + 1
      /\ DOMAIN event' = DOMAIN event \cup {Len(event) + 1} /\ Len(event) + 1 \notin DOMAIN event
  BY <1>2, <1>3
<1>5. Sound(w)' /\ w.step # "make"
  <2>1. w \in Works /\ w.step = "engine" /\ w.e = Len(event) + 1
    BY <1>1, <1>3 DEF Works
  <2>2. QED BY <1>4, <2>1 DEF Sound, Shaped, Orders, Engine
<1>6. Len(deadline') + Cardinality(Makers') <= MaxDeadlines
  <2>1. Cardinality(Makers) \in Nat /\ Cardinality(Makers') <= Cardinality(Makers)
    BY <1>2, <1>5, Room
  <2>2. Cardinality(Makers') \in Int
    BY <1>2, Room
  <2>3. QED BY <1>2, <2>1, <2>2, Rows, DatesAssumption DEF DataInv
<1>7. DataInv'
  <2>1. /\ deadline' \in Seq(Row) /\ Len(deadline) <= Len(deadline') /\ log' \in [Deadline -> Seq(Entry)]
        /\ escalations' \in [Deadline -> Nat] /\ notices' \in [Deadline -> Nat] /\ reminder' \subseteq ReminderRow
        /\ \A d \in Deadline \ DOMAIN deadline : log'[d] = log[d] /\ notices'[d] = notices[d]
    BY <1>2, Rows DEF DataInv
  <2>2. Len(event) <= Len(event')
    BY <1>3, <1>4
  <2>3. QED BY <1>2, <1>4, <1>5, <1>6, <2>1, <2>2, DataMove
<1>8. QED BY <1>1, <1>2, <1>4, <1>7

LEMMA ThenWork ==
  ASSUME DataInv, NEW r \in Requests, task[r].step \in Engine, NEW todo, Then(r, task[r].e, todo)
  PROVE  \E w : Moves(r, w) /\ Sound(w) /\ (w = Idle \/ (w.step = "action" /\ w.e = task[r].e))
<1>1. task[r] # Idle /\ Sound(task[r])
  BY WorkShape DEF Engine
<1>2. CASE todo = <<>>
  <2>1. PICK w : w = Idle
    OBVIOUS
  <2>2. Moves(r, w) /\ Sound(w)
    BY <1>1, <1>2, <2>1, IdleWork DEF Then, Finish, Moves
  <2>3. QED BY <2>1, <2>2
<1>3. CASE todo # <<>>
  <2>1. PICK w : w = [step |-> "action", e |-> task[r].e, todo |-> todo]
    OBVIOUS
  <2>2. w.step = "action" /\ w.e = task[r].e /\ w = [step |-> w.step, e |-> w.e, todo |-> w.todo]
    BY <2>1
  <2>3. Sound(w)
    BY <1>1, <2>2 DEF Sound, Shaped, Orders, Engine
  <2>4. Moves(r, w)
    BY <1>1, <1>3, <2>1 DEF Then, Moves
  <2>5. QED BY <2>2, <2>3, <2>4
<1>4. QED BY <1>2, <1>3

LEMMA EngineReads ==
  ASSUME DataInv, NEW r \in Requests,
         applyEvent(r) \/ executeAction(r) \/ skipDeadline(r) \/ recordDeadline(r)
  PROVE  /\ DataInv' /\ UNCHANGED <<event, deadline, log>> /\ task[r].step \in Engine
         /\ \E w : Moves(r, w) /\ (w = Idle \/ (w.step = "action" /\ w.e = task[r].e))
<1>1. PICK todo : Then(r, task[r].e, todo)
  BY DEF applyEvent, executeAction, skipDeadline, recordDeadline
<1>2. task[r].step \in Engine /\ UNCHANGED <<now, event, deadline, log, escalations, notices, reminder>>
  BY DEF applyEvent, executeAction, skipDeadline, recordDeadline, At, Engine
<1>3. PICK w : Moves(r, w) /\ Sound(w) /\ (w = Idle \/ (w.step = "action" /\ w.e = task[r].e))
  BY <1>1, <1>2, ThenWork
<1>4. w.step # "make"
  BY <1>3 DEF Idle
<1>5. DataInv'
  BY <1>2, <1>3, <1>4, DataKeep DEF DataInv
<1>6. QED BY <1>2, <1>3, <1>5

\* It finds the deadline there already, or is about to make it.
LEMMA CreateDeadline ==
  ASSUME DataInv, NEW r \in Requests, createDeadline(r)
  PROVE  /\ DataInv' /\ UNCHANGED <<event, deadline, log>> /\ task[r].step = "action"
         /\ \E w : /\ Moves(r, w)
                   /\ \/ w = Idle \/ (w.step = "action" /\ w.e = task[r].e)
                      \/ /\ w.step = "make" /\ w.e = task[r].e
                         /\ \A d \in DOMAIN deadline : deadline[d].key # Head(w.todo).key \/ deadline[d].event # w.e
<1>1. /\ task[r].step = "action" /\ task[r] # Idle /\ Sound(task[r])
      /\ task[r] = [step |-> task[r].step, e |-> task[r].e, todo |-> task[r].todo]
      /\ UNCHANGED <<now, event, deadline, log, escalations, notices, reminder>>
  BY WorkShape DEF createDeadline, At
<1>2. PICK a, e : a = Head(task[r].todo) /\ e = task[r].e
  OBVIOUS
<1>3. a.kind = "CREATE_DEADLINE" /\ a.key \in DOMAIN Definitions /\ e \in DOMAIN event
  BY <1>1, <1>2 DEF createDeadline, Sound, Engine
<1>4. CASE \E d \in DOMAIN deadline : deadline[d].key = a.key /\ deadline[d].event = e
  <2>1. Then(r, e, Tail(task[r].todo)) /\ task[r].step \in Engine
    BY <1>1, <1>2, <1>4 DEF createDeadline, Engine
  <2>2. PICK w : Moves(r, w) /\ Sound(w) /\ (w = Idle \/ (w.step = "action" /\ w.e = task[r].e))
    BY <1>2, <2>1, ThenWork
  <2>3. w.step # "make"
    BY <2>2 DEF Idle
  <2>4. DataInv'
    BY <1>1, <2>2, <2>3, DataKeep DEF DataInv
  <2>5. QED BY <1>1, <2>2, <2>4
<1>5. CASE ~\E d \in DOMAIN deadline : deadline[d].key = a.key /\ deadline[d].event = e
  <2>1. PICK w : w = [task[r] EXCEPT !.step = "make"]
    OBVIOUS
  <2>2. w = [step |-> "make", e |-> task[r].e, todo |-> task[r].todo]
    BY <1>1, <2>1
  <2>3. w.step = "make" /\ w.e = e /\ Head(w.todo) = a /\ w = [step |-> w.step, e |-> w.e, todo |-> w.todo]
    BY <1>2, <2>2
  <2>4. RowLeft /\ Moves(r, w)
    BY <1>1, <1>2, <1>5, <2>1 DEF createDeadline, Moves
  <2>5. Sound(w)' /\ r \notin Makers
    BY <1>1, <1>3, <2>3 DEF Sound, Shaped, Orders, Engine, Makers, At
  <2>6. Len(deadline') + Cardinality(Makers') <= MaxDeadlines
    <3>1. Len(deadline) + Cardinality(Makers) + 1 <= MaxDeadlines
      BY <2>4, RoomLeft
    <3>2. Cardinality(Makers) \in Nat /\ Cardinality(Makers') = Cardinality(Makers) + 1
      BY <2>3, <2>4, <2>5, Room
    <3>3. QED BY <1>1, <3>1, <3>2, Rows, DatesAssumption
  <2>7. /\ event' \in Seq(EventRow) /\ Len(event) <= Len(event') /\ deadline' \in Seq(Row) /\ Len(deadline) <= Len(deadline')
        /\ log' \in [Deadline -> Seq(Entry)] /\ UNCHANGED now
        /\ escalations' \in [Deadline -> Nat] /\ notices' \in [Deadline -> Nat] /\ reminder' \subseteq ReminderRow
        /\ \A d \in Deadline \ DOMAIN deadline : log'[d] = log[d] /\ notices'[d] = notices[d]
    BY <1>1, Rows DEF DataInv
  <2>8. DataInv'
    BY <2>4, <2>5, <2>6, <2>7, DataMove
  <2>9. QED BY <1>1, <1>2, <1>5, <2>3, <2>4, <2>8
<1>6. QED BY <1>4, <1>5

LEMMA MakeDeadline ==
  ASSUME DataInv, NEW r \in Requests, makeDeadline(r)
  PROVE  /\ DataInv' /\ task[r].step = "make" /\ UNCHANGED event
         /\ \E w, row : /\ Moves(r, w) /\ row \in Row /\ Added(row) /\ OnTime(row)
                        /\ row.key = Head(task[r].todo).key /\ row.event = task[r].e
                        /\ w.step = "made" /\ w.e = task[r].e /\ w.todo = task[r].todo /\ w.d = Len(deadline) + 1
<1>1. /\ task[r].step = "make" /\ task[r] # Idle /\ Sound(task[r])
      /\ UNCHANGED <<now, event, log, escalations, notices, reminder>>
  BY WorkShape DEF makeDeadline, At
<1>2. PICK key, e, todo : key = Head(task[r].todo).key /\ e = task[r].e /\ todo = task[r].todo
  OBVIOUS
<1>3. PICK row : row = FromDefinition(key, e, event[e].day)
  OBVIOUS
<1>4. key \in DOMAIN Definitions /\ e \in Nat /\ e \in DOMAIN event /\ event[e].day \in Nat /\ Head(todo).key = key
      /\ Head(todo).kind = "CREATE_DEADLINE"
  BY <1>1, <1>2, Rows DEF Sound, Engine
<1>5. row \in Row /\ OnTime(row) /\ row.key = key /\ row.event = e
  BY <1>3, <1>4, DefinedRow
<1>6. deadline' = Append(deadline, row)
  BY <1>2, <1>3 DEF makeDeadline
<1>7. r \in Makers /\ Len(deadline) < MaxDeadlines
  <2>1. r \in Makers
    BY <1>1 DEF Makers, At
  <2>2. IsFiniteSet(Makers) /\ Cardinality(Makers) \in Nat
    BY RequestsAssumption, FS_Subset, FS_CardinalityType DEF Makers
  <2>3. Cardinality(Makers) > 0
    BY <2>1, <2>2, FS_EmptySet
  <2>4. QED BY <2>1, <2>2, <2>3, Rows, DatesAssumption DEF DataInv
<1>8. Added(row)
  BY <1>1, <1>5, <1>6, <1>7, AddRow
<1>9. PICK w : w = [step |-> "made", e |-> e, todo |-> todo, d |-> Len(deadline) + 1]
  OBVIOUS
<1>10. /\ Moves(r, w) /\ w.step = "made" /\ w.e = e /\ w.todo = todo /\ w.d = Len(deadline) + 1
       /\ w = [step |-> "made", e |-> w.e, todo |-> w.todo, d |-> w.d]
  BY <1>1, <1>2, <1>9 DEF makeDeadline, Moves
<1>11. Sound(w)'
  BY <1>1, <1>4, <1>8, <1>10 DEF Sound, Shaped, Orders, Engine, Added
<1>12. Len(deadline') + Cardinality(Makers') <= MaxDeadlines
  <2>1. Cardinality(Makers) \in Nat /\ Cardinality(Makers') = Cardinality(Makers) - 1
    BY <1>7, <1>10, Room
  <2>2. Len(deadline') = Len(deadline) + 1
    BY <1>8 DEF Added
  <2>3. QED BY <2>1, <2>2, Rows, DatesAssumption DEF DataInv
<1>13. DataInv'
  <2>1. /\ event' \in Seq(EventRow) /\ Len(event) <= Len(event') /\ log' \in [Deadline -> Seq(Entry)]
        /\ escalations' \in [Deadline -> Nat] /\ notices' \in [Deadline -> Nat] /\ reminder' \subseteq ReminderRow
        /\ \A d \in Deadline \ DOMAIN deadline : log'[d] = log[d] /\ notices'[d] = notices[d]
    BY <1>1, Rows DEF DataInv
  <2>2. Len(deadline) <= Len(deadline') /\ deadline' \in Seq(Row) /\ UNCHANGED now
    BY <1>1, <1>8, Rows DEF Added
  <2>3. QED BY <1>10, <1>11, <1>12, <2>1, <2>2, DataMove
<1>14. QED BY <1>1, <1>2, <1>5, <1>8, <1>10, <1>13

\* A day passes, or the case is pinned: no request moves.
LEMMA Aside ==
  ASSUME DataInv, Elapse \/ assignToCase
  PROVE  DataInv' /\ UNCHANGED <<task, alone, event, deadline, log, reminder, escalations, notices, execution>>
<1>1. UNCHANGED <<task, alone, event, deadline, log, reminder, escalations, notices, execution>> /\ now' \in Nat
  BY DEF Elapse, assignToCase, DataInv
<1>2. Makers' = Makers
  BY <1>1 DEF Makers, At
<1>3. ASSUME NEW r \in Requests PROVE Sound(task[r])'
  <2>1. PICK w : w = task[r]
    OBVIOUS
  <2>2. Sound(w)' <=> Sound(w)
    BY <1>1 DEF Sound
  <2>3. QED BY <1>1, <2>1, <2>2 DEF DataInv
<1>4. QED BY <1>1, <1>2, <1>3 DEF DataInv
-----------------------------------------------------------------------------
(* The log accounts for the date, and its first entry for the computed one. *)

LEMMA RowsMove ==
  ASSUME DataInv, RowsInv, NEW r \in Requests, NEW w, Moves(r, w), w.step \in Orders => Untouched(w)',
         DOMAIN deadline \subseteq DOMAIN deadline',
         \A d \in DOMAIN deadline' : Accounted(d)' /\ Computed(d)',
         \A d \in DOMAIN deadline : log'[d] = <<>> => log[d] = <<>> /\ deadline'[d].dueAt = deadline[d].dueAt
  PROVE  RowsInv'
<1>1. ASSUME NEW s \in Requests PROVE Untouched(task[s])'
  <2>1. PICK t : t = task'[s]
    OBVIOUS
  <2>2. Untouched(t)'
    <3>1. CASE s = r
      <4>1. t = w
        BY <2>1, <3>1, Taken
      <4>2. QED BY <4>1 DEF Untouched
    <3>2. CASE s # r
      <4>1. t = task[s]
        BY <2>1, <3>2, Taken
      <4>2. Untouched(t)
        BY <4>1 DEF RowsInv
      <4>3. t.step \in Orders => t.d \in DOMAIN deadline
        BY <4>1 DEF DataInv, Sound
      <4>4. QED BY <4>2, <4>3 DEF Untouched
    <3>3. QED BY <3>1, <3>2
  <2>3. QED BY <2>1, <2>2 DEF Untouched
<1>2. QED BY <1>1 DEF RowsInv

LEMMA RowsKeep ==
  ASSUME DataInv, RowsInv, NEW r \in Requests, NEW w, Moves(r, w), w.step \in Orders => Untouched(w),
         UNCHANGED <<deadline, log>>
  PROVE  RowsInv'
<1>1. \A d \in DOMAIN deadline' : Accounted(d)' /\ Computed(d)'
  BY DEF RowsInv, Accounted, Computed, LastMove
<1>2. w.step \in Orders => Untouched(w)'
  BY DEF Untouched
<1>3. QED BY <1>1, <1>2, RowsMove

\* A row whose date and log stay as they were, up to its status.
LEMMA SameAccount ==
  ASSUME NEW d, d \in DOMAIN deadline, Accounted(d), Computed(d), log'[d] = log[d],
         deadline'[d].dueAt = deadline[d].dueAt, deadline'[d].key = deadline[d].key,
         deadline'[d].trigger = deadline[d].trigger
  PROVE  Accounted(d)' /\ Computed(d)'
BY DEF Accounted, Computed, LastMove

LEMMA RowsAdd ==
  ASSUME DataInv, RowsInv, NEW r \in Requests, NEW w, Moves(r, w), w.step \notin Orders,
         NEW row \in Row, Added(row), OnTime(row)
  PROVE  RowsInv'
<1>1. PICK n : n = Len(deadline) + 1
  OBVIOUS
<1>2. /\ n \in Deadline \ DOMAIN deadline /\ DOMAIN deadline' = DOMAIN deadline \cup {n}
      /\ deadline'[n] = row /\ log' = log /\ \A d \in DOMAIN deadline : deadline'[d] = deadline[d]
  BY <1>1 DEF Added
<1>3. log[n] = <<>>
  BY <1>2 DEF DataInv
<1>4. Accounted(n)' /\ Computed(n)'
  BY <1>2, <1>3 DEF Accounted, Computed, OnTime
<1>5. ASSUME NEW d \in DOMAIN deadline PROVE Accounted(d)' /\ Computed(d)'
  BY <1>2, SameAccount DEF RowsInv
<1>6. \A d \in DOMAIN deadline' : Accounted(d)' /\ Computed(d)'
  BY <1>2, <1>4, <1>5
<1>7. QED BY <1>2, <1>6, RowsMove

LEMMA RowsRestate ==
  ASSUME DataInv, RowsInv, NEW r \in Requests, NEW w, Moves(r, w), w.step \notin Orders, NEW d, Restated(d)
  PROVE  RowsInv'
<1>1. ASSUME NEW c \in DOMAIN deadline
      PROVE  /\ deadline'[c].dueAt = deadline[c].dueAt /\ deadline'[c].key = deadline[c].key
             /\ deadline'[c].trigger = deadline[c].trigger
  <2>1. deadline[c] \in Row
    BY Rows
  <2>2. QED BY <2>1 DEF Restated, Row
<1>2. log' = log /\ DOMAIN deadline' = DOMAIN deadline
  BY DEF Restated
<1>3. ASSUME NEW c \in DOMAIN deadline PROVE Accounted(c)' /\ Computed(c)'
  BY <1>1, <1>2, SameAccount DEF RowsInv
<1>4. QED BY <1>1, <1>2, <1>3, RowsMove

\* An entry after the last one: it is the last move, or the last move is the one it was.
LEMMA Lasts ==
  \A entries \in Seq(Entry), entry \in Entry : LET longer == Append(entries, entry) IN
    /\ Len(longer) = Len(entries) + 1 /\ Len(entries) \in Nat /\ DOMAIN entries = 1..Len(entries)
    /\ DOMAIN longer = 1..(Len(entries) + 1) /\ longer # <<>>
    /\ longer[Len(entries) + 1] = entry /\ \A i \in DOMAIN entries : longer[i] = entries[i]
    /\ \A i, k \in DOMAIN entries : LastMove(longer, i, k) <=> LastMove(entries, i, k)
    /\ \A i \in DOMAIN entries : LastMove(longer, i, Len(entries) + 1) <=> LastMove(entries, i, Len(entries) + 1)
    /\ \A i \in DOMAIN longer : LastMove(longer, i, Len(longer) + 1) <=>
         IF i = Len(entries) + 1 THEN entry.newDueAt # Never
         ELSE entry.newDueAt = Never /\ LastMove(entries, i, Len(entries) + 1)
<1> SUFFICES ASSUME NEW entries \in Seq(Entry), NEW entry \in Entry
             PROVE  LET longer == Append(entries, entry) IN
    /\ Len(longer) = Len(entries) + 1 /\ Len(entries) \in Nat /\ DOMAIN entries = 1..Len(entries)
    /\ DOMAIN longer = 1..(Len(entries) + 1) /\ longer # <<>>
    /\ longer[Len(entries) + 1] = entry /\ \A i \in DOMAIN entries : longer[i] = entries[i]
    /\ \A i, k \in DOMAIN entries : LastMove(longer, i, k) <=> LastMove(entries, i, k)
    /\ \A i \in DOMAIN entries : LastMove(longer, i, Len(entries) + 1) <=> LastMove(entries, i, Len(entries) + 1)
    /\ \A i \in DOMAIN longer : LastMove(longer, i, Len(longer) + 1) <=>
         IF i = Len(entries) + 1 THEN entry.newDueAt # Never
         ELSE entry.newDueAt = Never /\ LastMove(entries, i, Len(entries) + 1)
  OBVIOUS
<1>1. PICK n : n = Len(entries)
  OBVIOUS
<1>2. PICK longer : longer = Append(entries, entry)
  OBVIOUS
<1>3. /\ Len(longer) = n + 1 /\ n \in Nat /\ DOMAIN entries = 1..n /\ DOMAIN longer = 1..(n + 1)
      /\ longer[n + 1] = entry /\ longer # <<>> /\ \A i \in 1..n : longer[i] = entries[i]
  BY <1>1, <1>2
<1>4. ASSUME NEW i \in 1..n, NEW k \in 1..(n + 1) PROVE LastMove(longer, i, k) <=> LastMove(entries, i, k)
  <2>1. \A j \in 1..(k - 1) : longer[j] = entries[j]
    BY <1>3
  <2>2. \A j \in (i + 1)..(k - 1) : longer[j] = entries[j]
    BY <2>1, <1>3
  <2>3. QED BY <1>3, <2>1, <2>2 DEF LastMove
<1>5. ASSUME NEW i \in 1..(n + 1)
      PROVE  LastMove(longer, i, n + 2) <=>
               IF i = n + 1 THEN entry.newDueAt # Never ELSE entry.newDueAt = Never /\ LastMove(entries, i, n + 1)
  <2>1. CASE i = n + 1
    BY <1>3, <2>1 DEF LastMove
  <2>2. CASE i # n + 1
    <3>1. i \in 1..n /\ (i + 1)..(n + 2 - 1) = ((i + 1)..(n + 1 - 1)) \cup {n + 1} /\ i \in 1..(n + 2 - 1) /\ i \in 1..(n + 1 - 1)
      BY <1>3, <2>2
    <3>2. \A j \in (i + 1)..(n + 1 - 1) : longer[j] = entries[j]
      BY <1>3, <3>1
    <3>3. QED BY <1>3, <2>2, <3>1, <3>2 DEF LastMove
  <2>3. QED BY <2>1, <2>2
<1>6. Len(longer) + 1 = n + 2
  BY <1>3
<1>7. QED BY <1>1, <1>2, <1>3, <1>4, <1>5, <1>6

LEMMA RowsOrder ==
  ASSUME DataInv, RowsInv, NEW r \in Requests, task[r].step \in Orders,
         NEW to \in Nat \cup {Never}, NEW row \in Row, Ordered(r, to, row), Moves(r, Followed(r, to))
  PROVE  RowsInv'
<1>1. PICK d, entry : /\ d = task[r].d
                      /\ entry = [kind |-> task[r].step, previousDueAt |-> task[r].seen.dueAt, newDueAt |-> to]
  OBVIOUS
<1>2. /\ d \in DOMAIN deadline /\ d \in Deadline /\ entry \in Entry /\ DOMAIN deadline' = DOMAIN deadline
      /\ deadline'[d] = row /\ row.key = deadline[d].key /\ row.trigger = deadline[d].trigger
      /\ row.dueAt = (IF to = Never THEN deadline[d].dueAt ELSE to)
      /\ \A c \in DOMAIN deadline \ {d} : deadline'[c] = deadline[c]
      /\ log'[d] = Append(log[d], entry) /\ \A c \in Deadline \ {d} : log'[c] = log[c]
  BY <1>1 DEF Ordered
<1>3. PICK entries, longer : entries = log[d] /\ longer = log'[d]
  OBVIOUS
<1>4. entries \in Seq(Entry) /\ longer = Append(entries, entry)
  BY <1>2, <1>3 DEF DataInv
<1>5. entry.newDueAt = to /\ entry.previousDueAt = task[r].seen.dueAt
  BY <1>1
<1>6. PICK n : n = Len(entries)
  OBVIOUS
<1>7. /\ Len(longer) = n + 1 /\ n \in Nat /\ DOMAIN entries = 1..n /\ DOMAIN longer = 1..(n + 1) /\ longer # <<>>
      /\ longer[n + 1] = entry /\ \A i \in DOMAIN entries : longer[i] = entries[i]
      /\ \A i \in DOMAIN longer : LastMove(longer, i, Len(longer) + 1) <=>
           IF i = n + 1 THEN to # Never ELSE to = Never /\ LastMove(entries, i, n + 1)
  <2>1. PICK L : L = Append(entries, entry)
    OBVIOUS
  <2>2. /\ Len(L) = Len(entries) + 1 /\ Len(entries) \in Nat /\ DOMAIN entries = 1..Len(entries)
        /\ DOMAIN L = 1..(Len(entries) + 1) /\ L # <<>>
        /\ L[Len(entries) + 1] = entry /\ \A i \in DOMAIN entries : L[i] = entries[i]
        /\ \A i \in DOMAIN L : LastMove(L, i, Len(L) + 1) <=>
             IF i = Len(entries) + 1 THEN entry.newDueAt # Never
             ELSE entry.newDueAt = Never /\ LastMove(entries, i, Len(entries) + 1)
    BY <1>2, <1>4, <2>1, Lasts
  <2>3. longer = L
    BY <1>4, <2>1
  <2>4. QED BY <1>5, <1>6, <2>2, <2>3
<1>8. Accounted(d) /\ Computed(d)
  BY <1>2 DEF RowsInv
<1>9. Accounted(d)'
  <2>1. ASSUME NEW i \in DOMAIN longer, LastMove(longer, i, Len(longer) + 1) PROVE row.dueAt = longer[i].newDueAt
    <3>1. CASE i = n + 1
      BY <1>2, <1>5, <1>7, <2>1, <3>1
    <3>2. CASE i # n + 1
      <4>1. to = Never /\ LastMove(entries, i, n + 1) /\ i \in DOMAIN entries
        BY <1>7, <2>1, <3>2
      <4>2. deadline[d].dueAt = entries[i].newDueAt
        BY <1>3, <1>6, <1>8, <4>1 DEF Accounted
      <4>3. QED BY <1>2, <1>7, <4>1, <4>2
    <3>3. QED BY <3>1, <3>2
  <2>2. QED BY <1>2, <1>3, <2>1 DEF Accounted, LastMove
<1>10. Computed(d)'
  <2>1. longer[1].previousDueAt = IF entries = <<>> THEN deadline[d].dueAt ELSE entries[1].previousDueAt
    <3>1. CASE entries = <<>>
      <4>1. n = 0 /\ longer[1] = entry
        BY <1>6, <1>7, <3>1
      <4>2. task[r].seen.dueAt = deadline[d].dueAt
        BY <1>1, <1>3, <3>1 DEF RowsInv, Untouched
      <4>3. QED BY <1>5, <3>1, <4>1, <4>2
    <3>2. CASE entries # <<>>
      <4>1. 1 \in DOMAIN entries
        BY <1>4, <1>6, <1>7, <3>2
      <4>2. QED BY <1>7, <3>2, <4>1
    <3>3. QED BY <3>1, <3>2
  <2>2. QED BY <1>2, <1>3, <1>7, <1>8, <2>1 DEF Computed
<1>11. ASSUME NEW c \in DOMAIN deadline, c # d PROVE Accounted(c)' /\ Computed(c)'
  <2>1. deadline'[c] = deadline[c] /\ log'[c] = log[c] /\ Accounted(c) /\ Computed(c)
    BY <1>2, <1>11, Rows DEF RowsInv
  <2>2. QED BY <2>1, SameAccount
<1>12. Followed(r, to).step \notin Orders
  BY DEF Followed, Orders, Idle
<1>13. ASSUME NEW c \in DOMAIN deadline, log'[c] = <<>>
       PROVE  log[c] = <<>> /\ deadline'[c].dueAt = deadline[c].dueAt
  BY <1>2, <1>3, <1>7, <1>13, Rows
<1>14. QED BY <1>2, <1>9, <1>10, <1>11, <1>12, <1>13, RowsMove
-----------------------------------------------------------------------------
(* One request handles an event, and records what it made once.             *)


SameBasis ==
  \A d \in DOMAIN deadline : /\ d \in DOMAIN deadline'
                             /\ deadline'[d].key = deadline[d].key /\ deadline'[d].event = deadline[d].event

LEMMA OfOneEvent ==
  ASSUME DataInv, EngineInv, NEW r \in Requests, NEW w, Moves(r, w),
         w.step \in Engine => w.e \notin DOMAIN event \/ (task[r].step \in Engine /\ w.e = task[r].e)
  PROVE  \A s, t \in Requests :
           s # t /\ task'[s].step \in Engine /\ task'[t].step \in Engine => task'[s].e # task'[t].e
<1>1. ASSUME NEW t \in Requests, t # r, w.step \in Engine, task[t].step \in Engine PROVE w.e # task[t].e
  <2>1. task[t].e \in DOMAIN event
    BY <1>1 DEF DataInv, Sound
  <2>2. task[r].step \in Engine => task[r].e # task[t].e
    BY <1>1 DEF EngineInv
  <2>3. QED BY <1>1, <2>1, <2>2
<1>2. QED BY <1>1, Taken DEF EngineInv

LEMMA EngineMove ==
  ASSUME DataInv, EngineInv, NEW r \in Requests, NEW w, Moves(r, w), SameBasis, UNCHANGED execution,
         DOMAIN event \subseteq DOMAIN event',
         w.step \in Engine => w.e \notin DOMAIN event \/ (task[r].step \in Engine /\ w.e = task[r].e),
         Ahead(w)'
  PROVE  EngineInv'
<1>1. ASSUME NEW s \in Requests PROVE Ahead(task[s])'
  <2>1. PICK t : t = task'[s]
    OBVIOUS
  <2>2. Ahead(t)'
    <3>1. CASE s = r
      BY <2>1, <3>1, Taken DEF Ahead
    <3>2. CASE s # r
      <4>1. t = task[s]
        BY <2>1, <3>2, Taken
      <4>2. Ahead(t) /\ (t.step = "made" => t.d \in DOMAIN deadline)
        BY <4>1 DEF EngineInv, DataInv, Sound
      <4>3. QED BY <4>2 DEF Ahead, SameBasis
    <3>3. QED BY <3>1, <3>2
  <2>3. QED BY <2>1, <2>2 DEF Ahead
<1>2. ExecutedOnce'
  BY DEF EngineInv, ExecutedOnce, SameBasis
<1>3. \A s, t \in Requests : s # t /\ task'[s].step \in Engine /\ task'[t].step \in Engine => task'[s].e # task'[t].e
  BY OfOneEvent
<1>4. execution' \in Seq({execution'[i] : i \in DOMAIN execution'})
      /\ \A i \in DOMAIN execution' : execution'[i].event \in DOMAIN event'
  BY DEF EngineInv
<1>5. QED BY <1>1, <1>2, <1>3, <1>4 DEF EngineInv

\* A step that neither starts the engine nor is one of its own.
LEMMA EngineAside ==
  ASSUME DataInv, EngineInv, NEW r \in Requests, NEW w, Moves(r, w), SameBasis, UNCHANGED <<execution, event>>,
         w.step \notin Engine
  PROVE  EngineInv'
<1>1. Ahead(w)'
  BY DEF Ahead, Engine
<1>2. QED BY <1>1, EngineMove

LEMMA Lengthened ==
  \A s, x : s \in Seq({s[i] : i \in DOMAIN s}) =>
    LET t == Append(s, x) IN
      /\ t \in Seq({t[i] : i \in DOMAIN t}) /\ DOMAIN t = DOMAIN s \cup {Len(s) + 1} /\ Len(s) + 1 \notin DOMAIN s
      /\ t[Len(s) + 1] = x /\ \A i \in DOMAIN s : t[i] = s[i]
<1> SUFFICES ASSUME NEW s, NEW x, s \in Seq({s[i] : i \in DOMAIN s})
             PROVE  LET t == Append(s, x) IN
      /\ t \in Seq({t[i] : i \in DOMAIN t}) /\ DOMAIN t = DOMAIN s \cup {Len(s) + 1} /\ Len(s) + 1 \notin DOMAIN s
      /\ t[Len(s) + 1] = x /\ \A i \in DOMAIN s : t[i] = s[i]
  OBVIOUS
<1>1. PICK S : S = {s[i] : i \in DOMAIN s} \cup {x}
  OBVIOUS
<1>2. s \in Seq(S)
  <2>1. Len(s) \in Nat /\ s \in [1..Len(s) -> S]
    BY <1>1
  <2>2. QED BY <2>1, SeqDef
<1>3. PICK t : t = Append(s, x)
  OBVIOUS
<1>4. /\ t \in Seq(S) /\ Len(s) \in Nat /\ DOMAIN s = 1..Len(s) /\ Len(t) = Len(s) + 1 /\ DOMAIN t = 1..Len(t)
      /\ t[Len(s) + 1] = x /\ \A i \in DOMAIN s : t[i] = s[i]
  BY <1>1, <1>2, <1>3
<1>5. DOMAIN t = DOMAIN s \cup {Len(s) + 1} /\ Len(s) + 1 \notin DOMAIN s
  BY <1>4
<1>6. t \in Seq({t[i] : i \in DOMAIN t})
  <2>1. t \in [1..Len(t) -> {t[i] : i \in DOMAIN t}] /\ Len(t) \in Nat
    BY <1>4
  <2>2. QED BY <2>1, SeqDef
<1>7. QED BY <1>3, <1>4, <1>5, <1>6

\* A row is recorded; of a deadline made, it is the first.
LEMMA EngineRecord ==
  ASSUME DataInv, EngineInv, NEW r \in Requests, task[r].step \in Engine, NEW w, Moves(r, w),
         w = Idle \/ (w.step = "action" /\ w.e = task[r].e), UNCHANGED <<event, deadline>>,
         NEW x, execution' = Append(execution, x), x.event = task[r].e,
         Made(x) => /\ x.deadline \in DOMAIN deadline /\ deadline[x.deadline].key = x.key
                    /\ deadline[x.deadline].event = x.event
                    /\ \A i \in DOMAIN execution : Made(execution[i]) => execution[i].event # x.event \/ execution[i].key # x.key
  PROVE  EngineInv'
<1>1. PICK n : n = Len(execution) + 1
  OBVIOUS
<1>2. /\ execution' \in Seq({execution'[i] : i \in DOMAIN execution'})
      /\ DOMAIN execution' = DOMAIN execution \cup {n} /\ n \notin DOMAIN execution
      /\ execution'[n] = x /\ \A i \in DOMAIN execution : execution'[i] = execution[i]
  BY <1>1, Lengthened DEF EngineInv
<1>3. task[r].e \in DOMAIN event
  BY DEF DataInv, Sound
<1>4. \A i \in DOMAIN execution' : execution'[i].event \in DOMAIN event'
  BY <1>2, <1>3 DEF EngineInv
<1>5. ASSUME NEW s \in Requests PROVE Ahead(task[s])'
  <2>1. PICK t : t = task'[s]
    OBVIOUS
  <2>2. Ahead(t)'
    <3>1. CASE s = r
      <4>1. t = w /\ t.step \notin {"make", "made"}
        BY <2>1, <3>1, Taken DEF Idle
      <4>2. QED BY <4>1 DEF Ahead
    <3>2. CASE s # r
      <4>1. t = task[s]
        BY <2>1, <3>2, Taken
      <4>2. Ahead(t) /\ (t.step = "made" => t.d \in DOMAIN deadline)
        BY <4>1 DEF EngineInv, DataInv, Sound
      <4>3. t.step \in Engine => t.e # x.event
        BY <3>2, <4>1 DEF EngineInv
      <4>4. QED BY <1>2, <4>2, <4>3 DEF Ahead, Engine
    <3>3. QED BY <3>1, <3>2
  <2>3. QED BY <2>1, <2>2 DEF Ahead
<1>6. ExecutedOnce'
  <2>1. ASSUME NEW i \in DOMAIN execution', Made(execution'[i])
        PROVE  /\ execution'[i].deadline \in DOMAIN deadline
               /\ deadline[execution'[i].deadline].key = execution'[i].key
               /\ deadline[execution'[i].deadline].event = execution'[i].event
               /\ \A j \in DOMAIN execution' :
                    execution'[j].event = execution'[i].event /\ execution'[j].kind = execution'[i].kind
                      /\ execution'[j].key = execution'[i].key /\ execution'[j].status = "EXECUTED" => i = j
    <3>1. CASE i = n
      BY <1>2, <2>1, <3>1 DEF Made
    <3>2. CASE i # n
      <4>1. i \in DOMAIN execution /\ execution'[i] = execution[i]
        BY <1>2, <2>1, <3>2
      <4>2. /\ execution[i].deadline \in DOMAIN deadline
            /\ deadline[execution[i].deadline].key = execution[i].key
            /\ deadline[execution[i].deadline].event = execution[i].event
            /\ \A j \in DOMAIN execution :
                 execution[j].event = execution[i].event /\ execution[j].kind = execution[i].kind
                   /\ execution[j].key = execution[i].key /\ execution[j].status = "EXECUTED" => i = j
        BY <2>1, <4>1 DEF EngineInv, ExecutedOnce, Made
      <4>3. ~(x.event = execution[i].event /\ x.kind = execution[i].kind /\ x.key = execution[i].key
                /\ x.status = "EXECUTED")
        BY <2>1, <4>1 DEF Made
      <4>4. QED BY <1>2, <4>1, <4>2, <4>3
    <3>3. QED BY <3>1, <3>2
  <2>2. QED BY <2>1 DEF ExecutedOnce, Made
<1>7. \A s, t \in Requests : s # t /\ task'[s].step \in Engine /\ task'[t].step \in Engine => task'[s].e # task'[t].e
  <2>1. w.step \in Engine => w.e = task[r].e
    BY DEF Engine, Idle
  <2>2. QED BY <2>1, OfOneEvent
<1>8. QED BY <1>2, <1>4, <1>5, <1>6, <1>7 DEF EngineInv
-----------------------------------------------------------------------------
(* Requests one at a time.                                                  *)

LEMMA SerialMove ==
  ASSUME DataInv, SerialInv, NEW r \in Requests, NEW w, Moves(r, w),
         Serial /\ Steady(task[r]) => Steady(w)'
  PROVE  SerialInv'
<1> SUFFICES ASSUME Serial'
             PROVE  Alone' /\ (Quiet' => Steady(Idle)') /\ \A s \in Requests : Only(s)' => Steady(task[s])'
  BY DEF SerialInv
<1>1. task' = [s \in Requests |-> IF s = r THEN w ELSE task[s]] /\ task'[r] = w
  BY Taken DEF DataInv
<1>2. Serial /\ Only(r)
  BY DEF Moves, Begin, AtOnce, Continue, Serial, Only, Alone, Quiet, SerialInv
<1>3. \A s \in Requests \ {r} : task'[s] = Idle
  BY <1>1, <1>2 DEF Only
<1>4. Alone'
  BY <1>3 DEF Alone
<1>5. Steady(w)'
  BY <1>2 DEF SerialInv
<1>6. Quiet' => w = Idle
  BY <1>1 DEF Quiet
<1>7. Quiet' => Steady(Idle)'
  BY <1>5, <1>6 DEF Steady, Fresh, Reminded
<1>8. ASSUME NEW s \in Requests, Only(s)' PROVE Steady(task[s])'
  <2>1. PICK t : t = task'[s]
    OBVIOUS
  <2>2. t = w
    BY <1>1, <1>3, <1>8, <2>1 DEF Only
  <2>3. Steady(t)'
    BY <1>5, <2>2 DEF Steady, Fresh, Reminded
  <2>4. QED BY <2>1, <2>3 DEF Steady, Fresh, Reminded
<1>9. QED BY <1>4, <1>7, <1>8

LEMMA StillNotified ==
  ASSUME NEW v, Steady(v), UNCHANGED <<deadline, log, escalations, notices>>
  PROVE  \A d \in DOMAIN deadline' : Chained(log[d])' /\ Notified(d)'
<1>1. ASSUME NEW d \in DOMAIN deadline PROVE Chained(log[d])' /\ Notified(d)'
  <2>1. Chained(log[d]) /\ Notified(d)
    BY DEF Steady
  <2>2. QED BY <2>1 DEF Chained, Notified, Waives, LastMove
<1>2. QED BY <1>1

\* The rows and the counts stay, and no unsent reminder is added.
LEMMA SteadyKeep ==
  ASSUME NEW v, NEW w, Steady(v), v.step # "clear", Fresh(w), UNCHANGED <<deadline, log, escalations, notices>>,
         \A m \in reminder' : m.sent \/ m \in reminder
  PROVE  Steady(w)'
<1>1. Fresh(w)'
  BY DEF Fresh
<1>2. Reminded(w)'
  BY DEF Steady, Reminded, Matches
<1>3. QED BY <1>1, <1>2, StillNotified DEF Steady

LEMMA WaivesCounted ==
  \A entries \in Seq(Entry) :
    /\ Waives(entries) \in Nat
    /\ \A entry \in Entry :
         Waives(Append(entries, entry)) = Waives(entries) + (IF entry.kind = "waive" THEN 1 ELSE 0)
<1> SUFFICES ASSUME NEW entries \in Seq(Entry)
             PROVE  /\ Waives(entries) \in Nat
                    /\ \A entry \in Entry :
                         Waives(Append(entries, entry)) = Waives(entries) + (IF entry.kind = "waive" THEN 1 ELSE 0)
  OBVIOUS
<1>1. PICK n \in Nat : n = Len(entries) /\ DOMAIN entries = 1..n
  OBVIOUS
<1>2. PICK W : W = {i \in DOMAIN entries : entries[i].kind = "waive"}
  OBVIOUS
<1>3. IsFiniteSet(1..n)
  BY FS_Interval
<1>4. IsFiniteSet(W) /\ Cardinality(W) \in Nat /\ Waives(entries) = Cardinality(W)
  BY <1>1, <1>2, <1>3, FS_Subset, FS_CardinalityType DEF Waives
<1>5. ASSUME NEW entry \in Entry
      PROVE  Waives(Append(entries, entry)) = Waives(entries) + (IF entry.kind = "waive" THEN 1 ELSE 0)
  <2>1. PICK longer : longer = Append(entries, entry)
    OBVIOUS
  <2>2. DOMAIN longer = 1..(n + 1) /\ longer[n + 1] = entry /\ \A i \in 1..n : longer[i] = entries[i]
    BY <1>1, <2>1
  <2>3. {i \in DOMAIN longer : longer[i].kind = "waive"} = IF entry.kind = "waive" THEN W \cup {n + 1} ELSE W
    <3>1. 1..(n + 1) = (1..n) \cup {n + 1} /\ n + 1 \notin 1..n
      OBVIOUS
    <3>2. QED BY <1>1, <1>2, <2>2, <3>1
  <2>4. n + 1 \notin W
    BY <1>1, <1>2
  <2>5. Cardinality(W \cup {n + 1}) = Cardinality(W) + 1
    BY <1>4, <2>4, FS_AddElement
  <2>6. Waives(longer) = Cardinality({i \in DOMAIN longer : longer[i].kind = "waive"})
    BY DEF Waives
  <2>7. CASE entry.kind = "waive"
    BY <1>4, <2>1, <2>3, <2>5, <2>6, <2>7
  <2>8. CASE entry.kind # "waive"
    <3>1. {i \in DOMAIN longer : longer[i].kind = "waive"} = W
      BY <2>3, <2>8
    <3>2. Waives(longer) = Waives(entries)
      BY <1>4, <2>6, <3>1
    <3>3. QED BY <1>4, <2>1, <2>8, <3>2
  <2>9. QED BY <2>7, <2>8
<1>6. QED BY <1>4, <1>5

\* Rows may be added or restated: their dates, their rules and their counts stay.
LEMMA SteadyRows ==
  ASSUME DataInv, NEW v, NEW w, Steady(v), v.step # "clear", Fresh(w)',
         UNCHANGED <<log, escalations, notices, reminder>>,
         DOMAIN deadline \subseteq DOMAIN deadline', DOMAIN deadline' \subseteq Deadline,
         \A d \in DOMAIN deadline : /\ deadline'[d].dueAt = deadline[d].dueAt
                                    /\ deadline'[d].reminderRule = deadline[d].reminderRule
  PROVE  Steady(w)'
<1>1. Reminded(w)'
  BY DEF Steady, Reminded, Matches
<1>2. ASSUME NEW d \in DOMAIN deadline' PROVE Chained(log[d])' /\ Notified(d)'
  <2>1. CASE d \in DOMAIN deadline
    <3>1. Chained(log[d]) /\ Notified(d)
      BY <2>1 DEF Steady
    <3>2. QED BY <3>1 DEF Chained, Notified, Waives, LastMove
  <2>2. CASE d \notin DOMAIN deadline
    <3>1. log[d] = <<>> /\ notices[d] = 0 /\ escalations[d] \in Nat
      BY <2>2 DEF DataInv
    <3>2. {i \in DOMAIN log[d] : log[d][i].kind = "waive"} = {}
      BY <3>1
    <3>3. Waives(log[d]) = 0
      BY <3>2, FS_EmptySet DEF Waives
    <3>4. Chained(log[d])
      BY <3>1 DEF Chained
    <3>5. QED BY <3>1, <3>3, <3>4 DEF Chained, Notified, Waives, LastMove
  <2>3. QED BY <2>1, <2>2
<1>3. QED BY <1>1, <1>2 DEF Steady

LEMMA Together ==
  ASSUME IInv, NEW r \in Requests, NEW w, Moves(r, w), DataInv', w.step \notin Engine,
         w.step \in Orders => Untouched(w), UNCHANGED <<deadline, log, event, execution>>,
         Serial /\ Steady(task[r]) => Steady(w)'
  PROVE  IInv'
<1>1. RowsInv'
  BY RowsKeep DEF IInv
<1>2. SameBasis
  BY DEF SameBasis
<1>3. EngineInv'
  BY <1>2, EngineAside DEF IInv
<1>4. SerialInv'
  BY SerialMove DEF IInv
<1>5. QED BY <1>1, <1>3, <1>4 DEF IInv

\* A step that changes no row, no count, and no reminder but for sending it.
LEMMA Reading ==
  ASSUME IInv, NEW r \in Requests, NEW w, Moves(r, w), DataInv', w.step \notin Engine,
         w.step \in Orders => Untouched(w), task[r].step # "clear", Steady(task[r]) => Fresh(w),
         UNCHANGED <<deadline, log, event, execution, escalations, notices>>,
         \A m \in reminder' : m.sent \/ m \in reminder
  PROVE  IInv'
<1>1. Steady(task[r]) => Steady(w)'
  BY SteadyKeep
<1>2. QED BY <1>1, Together

LEMMA RemindingInv ==
  ASSUME IInv, NEW r \in Requests, clearReminders(r) \/ scheduleReminders(r)
  PROVE  IInv'
<1>1. task[r] \in [step : {"clear", "fill"}, d : Nat, dueAt : Nat] /\ task[r] # Idle /\ Sound(task[r])
  BY WorkShape DEF clearReminders, scheduleReminders, At, IInv
<1>2. DataInv /\ DataInv'
  BY Reminding DEF IInv
<1>3. UNCHANGED <<deadline, log, event, execution, escalations, notices>>
  BY DEF clearReminders, scheduleReminders
<1>4. PICK d, dueAt : d = task[r].d /\ dueAt = task[r].dueAt
  OBVIOUS
<1>5. d \in DOMAIN deadline
  BY <1>1, <1>4 DEF Sound
<1>6. CASE clearReminders(r)
  <2>1. PICK w : w = [task[r] EXCEPT !.step = "fill"]
    OBVIOUS
  <2>2. w.step = "fill" /\ w.d = d /\ w.dueAt = dueAt /\ Moves(r, w)
    BY <1>1, <1>4, <1>6, <2>1 DEF clearReminders, Moves
  <2>3. ASSUME Steady(task[r]) PROVE Steady(w)'
    <3>1. Fresh(w)'
      <4>1. dueAt = deadline[d].dueAt
        BY <1>1, <1>4, <1>6, <2>3 DEF Steady, Fresh, clearReminders, At
      <4>2. QED BY <1>3, <2>2, <4>1 DEF Fresh, Orders
    <3>2. Reminded(w)'
      <4>1. reminder' = {m \in reminder : m.d # d \/ m.sent}
        BY <1>4, <1>6 DEF clearReminders
      <4>2. \A m \in reminder : ~m.sent => m.d \in DOMAIN deadline /\ (Matches(m) \/ d = m.d)
        BY <1>4, <2>3 DEF Steady, Reminded
      <4>3. QED BY <1>3, <4>1, <4>2 DEF Reminded, Matches
    <3>3. \A c \in DOMAIN deadline' : Chained(log[c])' /\ Notified(c)'
      BY <1>3, <2>3, StillNotified
    <3>4. QED BY <3>1, <3>2, <3>3 DEF Steady
  <2>4. w.step \notin Engine /\ w.step \notin Orders
    BY <2>2 DEF Engine, Orders
  <2>5. QED BY <1>2, <1>3, <2>2, <2>3, <2>4, Together
<1>7. CASE scheduleReminders(r)
  <2>1. Moves(r, Idle) /\ Idle.step \notin Engine /\ Idle.step \notin Orders
    BY <1>1, <1>7 DEF scheduleReminders, Moves, Finish, Idle, Engine, Orders
  <2>2. ASSUME Steady(task[r]) PROVE Steady(Idle)'
    <3>1. Fresh(Idle)'
      BY DEF Fresh, Idle, Orders
    <3>2. Reminded(Idle)'
      <4>1. PICK S : S = computeReminderSchedule(dueAt, deadline[d].reminderRule, now)
        OBVIOUS
      <4>2. reminder' = reminder \cup {[d |-> d, at |-> at, sent |-> FALSE] : at \in S}
        BY <1>4, <1>7, <4>1 DEF scheduleReminders
      <4>3. dueAt = deadline[d].dueAt /\ dueAt \in Nat /\ deadline[d].reminderRule \subseteq Nat
        <5>1. dueAt = deadline[d].dueAt /\ dueAt \in Nat
          BY <1>1, <1>4, <2>2 DEF Steady, Fresh
        <5>2. deadline[d] \in Row
          BY <1>2, <1>5, Rows
        <5>3. QED BY <5>1, <5>2 DEF Row
      <4>4. \A at \in S : deadline[d].dueAt - at \in deadline[d].reminderRule
        BY <4>1, <4>3 DEF computeReminderSchedule
      <4>5. ASSUME NEW m \in reminder, ~m.sent PROVE m.d \in DOMAIN deadline /\ Matches(m)
        BY <1>7, <2>2, <4>5 DEF Steady, Reminded, scheduleReminders, At
      <4>6. ASSUME NEW at \in S, NEW m, m = [d |-> d, at |-> at, sent |-> FALSE]
            PROVE  m.d \in DOMAIN deadline /\ Matches(m)
        BY <1>5, <4>4, <4>6 DEF Matches
      <4>7. \A m \in reminder' : ~m.sent => m.d \in DOMAIN deadline /\ Matches(m)
        BY <4>2, <4>5, <4>6
      <4>8. QED BY <1>3, <4>7 DEF Reminded, Matches
    <3>3. \A c \in DOMAIN deadline' : Chained(log[c])' /\ Notified(c)'
      BY <1>3, <2>2, StillNotified
    <3>4. QED BY <3>1, <3>2, <3>3 DEF Steady
  <2>3. QED BY <1>2, <1>3, <2>1, <2>2, Together
<1>8. QED BY <1>6, <1>7

LEMMA OrderInv ==
  ASSUME IInv, NEW r \in Requests,
         NEW step \in Orders, NEW d \in Deadline, NEW to \in Nat \cup {Never}, order(r, step, d, to),
         step = "extend" => to # Never
  PROVE  IInv'
<1>1. PICK w : w = [step |-> step, d |-> d, seen |-> deadline[d], at |-> now, to |-> to]
  OBVIOUS
<1>2. /\ Begin(r, w) /\ w.step = step /\ w.d = d /\ w.seen = deadline[d]
      /\ UNCHANGED <<deadline, log, event, execution, escalations, notices, reminder>>
  BY <1>1 DEF order
<1>3. Moves(r, w) /\ task[r].step # "clear" /\ w.step \notin Engine /\ Untouched(w) /\ Fresh(w)
  BY <1>2 DEF Moves, Begin, Idle, Orders, Engine, Untouched, Fresh
<1>4. DataInv'
  BY Order DEF IInv
<1>5. QED BY <1>2, <1>3, <1>4, Reading

LEMMA SweepInv ==
  ASSUME IInv, NEW r \in Requests, escalateOverdue(r) \/ findExisting(r)
  PROVE  IInv'
<1>1. UNCHANGED <<deadline, log, event, execution, escalations, notices, reminder>> /\ DataInv'
  BY EscalateOverdue, FindExisting DEF IInv, escalateOverdue, findExisting
<1>2. CASE escalateOverdue(r)
  <2>1. PICK todo : Begin(r, [step |-> "escalate", todo |-> todo])
    BY <1>2 DEF escalateOverdue
  <2>2. PICK w : w = [step |-> "escalate", todo |-> todo]
    OBVIOUS
  <2>3. Moves(r, w) /\ task[r].step # "clear" /\ w.step \notin Engine /\ w.step \notin Orders /\ Fresh(w)
    BY <2>1, <2>2 DEF Moves, Begin, Idle, Orders, Engine, Fresh
  <2>4. QED BY <1>1, <2>3, Reading
<1>3. CASE findExisting(r)
  <2>1. PICK d : Continue(r, [step |-> "overdue", d |-> d, todo |-> task[r].todo \ {d}, existing |-> escalations[d] > 0])
    BY <1>3 DEF findExisting
  <2>2. PICK w : w = [step |-> "overdue", d |-> d, todo |-> task[r].todo \ {d}, existing |-> escalations[d] > 0]
    OBVIOUS
  <2>3. task[r].step = "escalate" /\ task[r] # Idle
    BY <1>3, WorkShape DEF findExisting, At, IInv
  <2>4. w.step = "overdue" /\ w.d = d /\ w.existing = (escalations[d] > 0)
    BY <2>2
  <2>5. Moves(r, w) /\ w.step \notin Engine /\ w.step \notin Orders /\ Fresh(w)
    BY <2>1, <2>2, <2>3, <2>4 DEF Moves, Orders, Engine, Fresh
  <2>6. QED BY <1>1, <2>3, <2>5, Reading
<1>4. QED BY <1>2, <1>3

LEMMA SendingInv ==
  ASSUME IInv, NEW r \in Requests, runDueReminders(r) \/ markSent(r)
  PROVE  IInv'
<1>1. DataInv' /\ UNCHANGED <<deadline, log, event, execution, escalations, notices>>
  BY RunDueReminders DEF IInv, runDueReminders, markSent
<1>2. PICK w : Moves(r, w) /\ w.step \in {"idle", "remind"}
  BY RunDueReminders DEF IInv
<1>3. w.step \notin Engine /\ w.step \notin Orders /\ Fresh(w)
  BY <1>2 DEF Orders, Engine, Fresh
<1>4. task[r].step # "clear" /\ \A m \in reminder' : m.sent \/ m \in reminder
  <2>1. CASE runDueReminders(r)
    BY <2>1 DEF runDueReminders, Begin, Idle
  <2>2. CASE markSent(r)
    <3>1. PICK m \in task[r].todo :
            \/ reminder' = (reminder \ {m}) \cup {[m EXCEPT !.sent = TRUE]}
            \/ reminder' = reminder
      BY <2>2 DEF markSent
    <3>2. task[r].step = "remind" /\ m \in ReminderRow
      BY <2>2, <3>1, WorkShape DEF markSent, At, IInv
    <3>3. [m EXCEPT !.sent = TRUE].sent
      BY <3>2 DEF ReminderRow
    <3>4. QED BY <3>1, <3>2, <3>3
  <2>3. QED BY <2>1, <2>2
<1>5. QED BY <1>1, <1>2, <1>3, <1>4, Reading

LEMMA RaiseInv ==
  ASSUME IInv, NEW r \in Requests, raiseOverdue(r)
  PROVE  IInv'
<1>1. DataInv /\ DataInv' /\ UNCHANGED <<deadline, log, event, execution, reminder>> /\ task[r].step = "raise"
  BY RaiseOverdue DEF IInv, raiseOverdue, At
<1>2. PICK w : Moves(r, w) /\ w.step \in {"idle", "escalate"}
  BY OverdueNext DEF IInv, raiseOverdue, At
<1>3. PICK d : d = task[r].d
  OBVIOUS
<1>4. d \in DOMAIN deadline /\ d \in Deadline
  BY <1>1, <1>3, WorkShape, Rows DEF Sound
<1>5. ASSUME Steady(task[r]) PROVE Steady(w)'
  <2>1. Fresh(w)'
    BY <1>2 DEF Fresh, Orders
  <2>2. Reminded(w)'
    BY <1>1, <1>5 DEF Steady, Reminded, Matches
  <2>3. escalations \in [Deadline -> Nat] /\ notices \in [Deadline -> Nat] /\ escalations[d] = 0
    BY <1>1, <1>3, <1>5 DEF DataInv, Steady, Fresh
  <2>4. /\ escalations' = [escalations EXCEPT ![d] = @ + 1]
        /\ notices' = [notices EXCEPT ![d] = @ + 1]
    BY <1>3 DEF raiseOverdue
  <2>5. ASSUME NEW c \in DOMAIN deadline PROVE Chained(log[c])' /\ Notified(c)'
    <3>1. Chained(log[c]) /\ Notified(c) /\ c \in Deadline
      BY <1>1, <1>5, Rows DEF Steady
    <3>2. Chained(log[c])'
      BY <1>1, <3>1 DEF Chained, LastMove
    <3>3. Notified(c)'
      <4>1. Waives(log[c]) \in Nat
        <5>1. log[c] \in Seq(Entry)
          BY <1>1, <3>1 DEF DataInv
        <5>2. QED BY <5>1, WaivesCounted
      <4>2. Waives(log[c])' = Waives(log[c])
        BY <1>1 DEF Waives
      <4>3. CASE c = d
        <5>1. notices[d] <= Waives(log[d])
          BY <2>3, <3>1, <4>1, <4>3 DEF Notified
        <5>2. notices'[d] = notices[d] + 1 /\ escalations'[d] = 1 /\ notices[d] \in Nat
          BY <1>4, <2>3, <2>4
        <5>3. QED BY <4>1, <4>2, <4>3, <5>1, <5>2 DEF Notified
      <4>4. CASE c # d
        <5>1. notices'[c] = notices[c] /\ escalations'[c] = escalations[c]
          BY <2>3, <2>4, <3>1, <4>4
        <5>2. QED BY <3>1, <4>2, <5>1 DEF Notified
      <4>5. QED BY <4>3, <4>4
    <3>4. QED BY <3>2, <3>3
  <2>6. QED BY <1>1, <2>1, <2>2, <2>5 DEF Steady
<1>6. w.step \notin Engine /\ w.step \notin Orders
  BY <1>2 DEF Engine, Orders
<1>7. QED BY <1>1, <1>2, <1>5, <1>6, Together

LEMMA RestateInv ==
  ASSUME IInv, NEW r \in Requests, setOverdue(r) \/ \E d \in Deadline : markComplete(r, d)
  PROVE  IInv'
<1>1. UNCHANGED <<log, event, execution, escalations, notices, reminder>> /\ DataInv
  BY DEF setOverdue, markComplete, IInv
<1>2. PICK w, d : /\ Moves(r, w) /\ Restated(d) /\ DataInv' /\ task[r].step # "clear"
                  /\ \/ w.step \in {"idle", "escalate"}
                     \/ /\ task[r].step = "overdue" /\ ~task[r].existing /\ d = task[r].d
                        /\ w.step = "raise" /\ w.d = d
  <2>1. CASE setOverdue(r)
    BY <1>1, <2>1, SetOverdue DEF setOverdue, At
  <2>2. CASE \E d \in Deadline : markComplete(r, d)
    <3>1. PICK d \in Deadline : markComplete(r, d)
      BY <2>2
    <3>2. task[r] = Idle
      BY <3>1 DEF markComplete, AtOnce
    <3>3. QED BY <1>1, <3>1, <3>2, MarkComplete DEF Idle
  <2>3. QED BY <2>1, <2>2
<1>3. w.step \notin Engine /\ w.step \notin Orders /\ w.step \notin {"clear", "fill", "overdue"}
  BY <1>2 DEF Engine, Orders
<1>4. ASSUME NEW c \in DOMAIN deadline
      PROVE  /\ deadline'[c].dueAt = deadline[c].dueAt /\ deadline'[c].reminderRule = deadline[c].reminderRule
             /\ deadline'[c].key = deadline[c].key /\ deadline'[c].event = deadline[c].event
  <2>1. deadline[c] \in Row
    BY <1>1, Rows
  <2>2. QED BY <1>2, <2>1 DEF Restated, Row
<1>5. DOMAIN deadline' = DOMAIN deadline /\ DOMAIN deadline \subseteq Deadline
  BY <1>1, <1>2, Rows DEF Restated
<1>6. RowsInv'
  BY <1>1, <1>2, <1>3, RowsRestate DEF IInv
<1>7. EngineInv'
  <2>1. SameBasis
    BY <1>4, <1>5 DEF SameBasis
  <2>2. QED BY <1>1, <1>2, <1>3, <2>1, EngineAside DEF IInv
<1>8. ASSUME Steady(task[r]) PROVE Steady(w)'
  <2>1. w.step = "raise" => escalations[w.d] = 0
    <3>1. SUFFICES ASSUME w.step = "raise" PROVE escalations[w.d] = 0
      OBVIOUS
    <3>2. w.d \in DOMAIN deadline /\ ~(escalations[w.d] > 0)
      BY <1>2, <1>8, <3>1 DEF Steady, Fresh, Restated
    <3>3. escalations[w.d] \in Nat
      BY <1>1, <1>5, <3>2 DEF DataInv
    <3>4. QED BY <3>2, <3>3
  <2>2. Fresh(w)'
    BY <1>1, <1>3, <2>1 DEF Fresh
  <2>3. QED BY <1>1, <1>2, <1>4, <1>5, <1>8, <2>2, SteadyRows
<1>9. SerialInv'
  BY <1>1, <1>2, <1>8, SerialMove DEF IInv
<1>10. QED BY <1>2, <1>6, <1>7, <1>9 DEF IInv

LEMMA CarryOutInv ==
  ASSUME IInv, NEW r \in Requests, extend(r) \/ suspend(r) \/ resume(r) \/ waive(r)
  PROVE  IInv'
<1>1. DataInv /\ DataInv' /\ task[r].step \in Orders /\ UNCHANGED <<event, execution, notices>>
  BY CarryingOut DEF IInv, extend, suspend, resume, waive
<1>2. PICK to \in Nat \cup {Never}, row \in Row : Ordered(r, to, row) /\ Moves(r, Followed(r, to))
  BY CarryingOut DEF IInv
<1>3. PICK d, w : d = task[r].d /\ w = Followed(r, to)
  OBVIOUS
<1>4. PICK entry : entry = [kind |-> task[r].step, previousDueAt |-> task[r].seen.dueAt, newDueAt |-> to]
  OBVIOUS
<1>5. /\ d \in DOMAIN deadline /\ d \in Deadline /\ entry \in Entry
      /\ DOMAIN deadline' = DOMAIN deadline /\ deadline'[d] = row
      /\ row.key = deadline[d].key /\ row.event = deadline[d].event /\ row.reminderRule = deadline[d].reminderRule
      /\ row.dueAt = (IF to = Never THEN deadline[d].dueAt ELSE to)
      /\ \A c \in DOMAIN deadline \ {d} : deadline'[c] = deadline[c]
      /\ log'[d] = Append(log[d], entry) /\ \A c \in Deadline \ {d} : log'[c] = log[c]
  BY <1>2, <1>3, <1>4 DEF Ordered
<1>6. \/ to = Never /\ w = Idle
      \/ to # Never /\ w.step = "clear" /\ w.d = d /\ w.dueAt = to
  BY <1>3 DEF Followed
<1>7. w.step \in {"idle", "clear"} /\ w.step \notin Engine /\ w.step \notin Orders /\ Moves(r, w)
  BY <1>2, <1>3, <1>6 DEF Engine, Orders, Idle
<1>8. RowsInv'
  BY <1>1, <1>2, RowsOrder DEF IInv
<1>9. EngineInv'
  <2>1. SameBasis
    BY <1>5 DEF SameBasis
  <2>2. QED BY <1>1, <1>7, <2>1, EngineAside DEF IInv
<1>10. /\ \A m \in reminder' : m \in reminder
       /\ \A c \in Deadline \ {d} : escalations'[c] = escalations[c]
       /\ escalations'[d] = IF entry.kind = "waive" THEN 0 ELSE escalations[d]
  <2>1. escalations \in [Deadline -> Nat] /\ entry.kind = task[r].step
    BY <1>1, <1>4 DEF DataInv
  <2>2. CASE waive(r)
    BY <1>3, <1>5, <2>1, <2>2 DEF waive, At
  <2>3. CASE extend(r) \/ suspend(r) \/ resume(r)
    BY <2>1, <2>3 DEF extend, suspend, resume, At
  <2>4. QED BY <2>2, <2>3
<1>11. ASSUME Steady(task[r]) PROVE Steady(w)'
  <2>1. Fresh(w)'
    <3>1. w.step = "clear" => w.dueAt = deadline'[w.d].dueAt
      BY <1>5, <1>6 DEF Idle
    <3>2. QED BY <1>7, <3>1 DEF Fresh
  <2>2. Reminded(w)'
    <3>1. ASSUME NEW m \in reminder', ~m.sent
          PROVE  m.d \in DOMAIN deadline' /\ (Matches(m)' \/ (w.step = "clear" /\ w.d = m.d))
      <4>1. m.d \in DOMAIN deadline /\ Matches(m)
        BY <1>1, <1>10, <1>11, <3>1 DEF Steady, Reminded, Orders
      <4>2. CASE m.d # d
        BY <1>5, <4>1, <4>2 DEF Matches
      <4>3. CASE m.d = d
        BY <1>5, <1>6, <4>1, <4>3 DEF Matches
      <4>4. QED BY <4>2, <4>3
    <3>2. QED BY <3>1 DEF Reminded
  <2>3. ASSUME NEW c \in DOMAIN deadline PROVE Chained(log[c])' /\ Notified(c)'
    <3>1. Chained(log[c]) /\ Notified(c) /\ c \in Deadline
      BY <1>1, <1>11, Rows DEF Steady
    <3>2. CASE c # d
      <4>1. log'[c] = log[c] /\ escalations'[c] = escalations[c] /\ notices'[c] = notices[c]
        BY <1>1, <1>5, <1>10, <3>1, <3>2
      <4>2. QED BY <3>1, <4>1 DEF Chained, Notified, Waives, LastMove
    <3>3. CASE c = d
      <4>1. PICK entries, n, longer : entries = log[d] /\ n = Len(entries) /\ longer = log'[d]
        OBVIOUS
      <4>2. entries \in Seq(Entry) /\ longer = Append(entries, entry)
        BY <1>1, <1>5, <4>1 DEF DataInv
      <4>3. Chained(longer)
        <5>1. PICK L : L = Append(entries, entry)
          OBVIOUS
        <5>2. /\ Len(entries) \in Nat /\ DOMAIN entries = 1..Len(entries) /\ DOMAIN L = 1..(Len(entries) + 1)
              /\ L[Len(entries) + 1] = entry /\ \A i \in DOMAIN entries : L[i] = entries[i]
              /\ \A i, k \in DOMAIN entries : LastMove(L, i, k) <=> LastMove(entries, i, k)
              /\ \A i \in DOMAIN entries : LastMove(L, i, Len(entries) + 1) <=> LastMove(entries, i, Len(entries) + 1)
          BY <1>5, <4>2, <5>1, Lasts
        <5>3. entry.previousDueAt = deadline[d].dueAt
          BY <1>1, <1>3, <1>4, <1>11 DEF Steady, Fresh
        <5>4. \A i \in DOMAIN entries : LastMove(entries, i, n + 1) => deadline[d].dueAt = entries[i].newDueAt
          BY <1>5, <4>1 DEF IInv, RowsInv, Accounted
        <5>5. ASSUME NEW i \in DOMAIN L, NEW k \in DOMAIN L, LastMove(L, i, k)
              PROVE  L[k].previousDueAt = L[i].newDueAt
          <6>1. i \in 1..(k - 1)
            BY <5>5 DEF LastMove
          <6>2. i \in DOMAIN entries
            BY <5>2, <6>1
          <6>3. CASE k = n + 1
            BY <4>1, <5>2, <5>3, <5>4, <5>5, <6>2, <6>3
          <6>4. CASE k # n + 1
            <7>1. k \in DOMAIN entries
              BY <4>1, <5>2, <6>4
            <7>2. Chained(entries)
              BY <3>1, <3>3, <4>1
            <7>3. QED BY <5>2, <5>5, <6>2, <7>1, <7>2 DEF Chained
          <6>5. QED BY <6>3, <6>4
        <5>6. QED BY <4>2, <5>1, <5>5 DEF Chained
      <4>4. Notified(d)'
        <5>1. Waives(longer) = Waives(entries) + (IF entry.kind = "waive" THEN 1 ELSE 0) /\ Waives(entries) \in Nat
          BY <1>5, <4>2, WaivesCounted
        <5>2. notices[d] <= Waives(entries) + (IF escalations[d] > 0 THEN 1 ELSE 0)
          BY <3>1, <3>3, <4>1 DEF Notified
        <5>3. notices'[d] = notices[d] /\ notices[d] \in Nat /\ escalations[d] \in Nat
          BY <1>1, <1>5 DEF DataInv
        <5>4. notices'[d] <= Waives(longer) + (IF escalations'[d] > 0 THEN 1 ELSE 0)
          BY <1>10, <5>1, <5>2, <5>3
        <5>5. Waives(log[d])' = Waives(longer)
          BY <4>1 DEF Waives
        <5>6. QED BY <5>4, <5>5 DEF Notified
      <4>5. Chained(log[d])'
        BY <4>1, <4>3 DEF Chained, LastMove
      <4>6. QED BY <3>3, <4>4, <4>5
    <3>4. QED BY <3>2, <3>3
  <2>4. QED BY <1>5, <2>1, <2>2, <2>3 DEF Steady
<1>12. SerialInv'
  BY <1>1, <1>7, <1>11, SerialMove DEF IInv
<1>13. QED BY <1>1, <1>8, <1>9, <1>12 DEF IInv

\* A new deadline follows its definition, and no request has worked on it.
LEMMA AddInv ==
  ASSUME IInv, DataInv', NEW r \in Requests, NEW w, Moves(r, w), w.step \notin Orders,
         NEW row \in Row, Added(row), OnTime(row), UNCHANGED <<event, execution, escalations, notices, reminder>>,
         task[r].step # "clear", w.step \in Engine => task[r].step \in Engine /\ w.e = task[r].e, Ahead(w)', Fresh(w)'
  PROVE  IInv'
<1>1. RowsInv'
  BY RowsAdd DEF IInv
<1>2. EngineInv'
  <2>1. SameBasis
    BY DEF SameBasis, Added
  <2>2. QED BY <2>1, EngineMove DEF IInv
<1>3. Steady(task[r]) => Steady(w)'
  <2>1. log' = log /\ DOMAIN deadline \subseteq DOMAIN deadline' /\ DOMAIN deadline' \subseteq Deadline
        /\ \A d \in DOMAIN deadline : deadline'[d] = deadline[d]
    BY Rows DEF Added, IInv
  <2>2. QED BY <2>1, SteadyRows DEF IInv
<1>4. SerialInv'
  BY <1>3, SerialMove DEF IInv
<1>5. QED BY <1>1, <1>2, <1>4 DEF IInv

LEMMA InsertInv ==
  ASSUME IInv, NEW r \in Requests,
         \/ \E dueAt \in DueDates, key \in DOMAIN Definitions : create(r, dueAt, Definitions[key].reminderRule)
         \/ \E key \in DOMAIN Definitions, e \in DOMAIN event : generateFromDefinition(r, e, key)
         \/ \E key \in DOMAIN Definitions : materialiseRuleDeadline(r, key)
  PROVE  IInv'
<1>1. PICK row \in Row : Insert(r, row) /\ OnTime(row)
  BY Inserts DEF IInv
<1>2. PICK w : w = [step |-> "clear", d |-> Len(deadline) + 1, dueAt |-> row.dueAt]
  OBVIOUS
<1>3. DataInv' /\ Added(row) /\ task[r] = Idle /\ Moves(r, w)
  BY <1>1, <1>2, Inserted DEF IInv
<1>4. w.step = "clear" /\ w.d = Len(deadline) + 1 /\ w.dueAt = row.dueAt
  BY <1>2
<1>5. Ahead(w)' /\ Fresh(w)' /\ w.step \notin Orders /\ w.step \notin Engine
  BY <1>3, <1>4 DEF Ahead, Fresh, Added, Orders, Engine
<1>6. UNCHANGED <<event, execution, escalations, notices, reminder>> /\ task[r].step # "clear"
  BY <1>1, <1>3 DEF Insert, Idle
<1>7. QED BY <1>1, <1>3, <1>5, <1>6, AddInv

LEMMA MakeInv ==
  ASSUME IInv, NEW r \in Requests, makeDeadline(r)
  PROVE  IInv'
<1>1. PICK w, row : /\ Moves(r, w) /\ row \in Row /\ Added(row) /\ OnTime(row)
                    /\ row.key = Head(task[r].todo).key /\ row.event = task[r].e
                    /\ w.step = "made" /\ w.e = task[r].e /\ w.todo = task[r].todo /\ w.d = Len(deadline) + 1
  BY MakeDeadline DEF IInv
<1>2. DataInv' /\ task[r].step = "make" /\ UNCHANGED <<event, execution, escalations, notices, reminder>>
  BY MakeDeadline DEF IInv, makeDeadline
<1>3. Ahead(w)'
  <2>1. Ahead(task[r])
    BY DEF IInv, EngineInv
  <2>2. deadline'[w.d] = row
    BY <1>1 DEF Added
  <2>3. QED BY <1>1, <1>2, <2>1, <2>2 DEF Ahead
<1>4. Fresh(w)' /\ w.step \notin Orders /\ task[r].step \in Engine /\ task[r].step # "clear"
  BY <1>1, <1>2 DEF Fresh, Orders, Engine
<1>5. QED BY <1>1, <1>2, <1>3, <1>4, AddInv

\* The engine's other steps leave the rows alone.
LEMMA EngineSteady ==
  ASSUME IInv, DataInv', NEW r \in Requests, NEW w, Moves(r, w), EngineInv',
         UNCHANGED <<deadline, log, escalations, notices, reminder>>,
         task[r].step \in Engine \cup {"idle"}, w.step \in Engine \cup {"idle"}
  PROVE  IInv'
<1>1. w.step \notin Orders /\ task[r].step # "clear" /\ Fresh(w)
  BY DEF Engine, Orders, Fresh
<1>2. RowsInv'
  BY <1>1, RowsKeep DEF IInv
<1>3. Steady(task[r]) => Steady(w)'
  BY <1>1, SteadyKeep
<1>4. SerialInv'
  BY <1>3, SerialMove DEF IInv
<1>5. QED BY <1>2, <1>4 DEF IInv

LEMMA RecordEventInv ==
  ASSUME IInv, NEW r \in Requests, NEW day \in 1..now, NEW matches \in BOOLEAN, recordEvent(r, day, matches)
  PROVE  IInv'
<1>1. PICK w : w = [step |-> "engine", e |-> Len(event) + 1]
  OBVIOUS
<1>2. /\ DataInv' /\ DOMAIN event' = DOMAIN event \cup {Len(event) + 1} /\ Len(event) + 1 \notin DOMAIN event
      /\ Moves(r, w)
  BY <1>1, RecordEvent DEF IInv
<1>3. UNCHANGED <<deadline, log, execution, escalations, notices, reminder>> /\ task[r] = Idle
  BY DEF recordEvent, Begin
<1>4. w.step = "engine" /\ w.e = Len(event) + 1
  BY <1>1
<1>5. EngineInv'
  <2>1. SameBasis /\ Ahead(w)'
    BY <1>3, <1>4 DEF SameBasis, Ahead
  <2>2. QED BY <1>2, <1>3, <1>4, <2>1, EngineMove DEF IInv
<1>6. w.step \in Engine /\ task[r].step \in Engine \cup {"idle"}
  BY <1>3, <1>4 DEF Engine, Idle
<1>7. QED BY <1>2, <1>3, <1>5, <1>6, EngineSteady

LEMMA EngineStepsInv ==
  ASSUME IInv, NEW r \in Requests,
         applyEvent(r) \/ executeAction(r) \/ skipDeadline(r) \/ createDeadline(r) \/ recordDeadline(r)
  PROVE  IInv'
<1>1. UNCHANGED <<event, deadline, log, escalations, notices, reminder>>
  BY DEF applyEvent, executeAction, skipDeadline, createDeadline, recordDeadline
<1>2. SameBasis
  BY <1>1 DEF SameBasis
<1>3. CASE createDeadline(r)
  <2>1. DataInv' /\ task[r].step = "action" /\ UNCHANGED execution
    BY <1>3, CreateDeadline DEF IInv, createDeadline
  <2>2. PICK w : /\ Moves(r, w)
                 /\ \/ w = Idle \/ (w.step = "action" /\ w.e = task[r].e)
                    \/ /\ w.step = "make" /\ w.e = task[r].e
                       /\ \A d \in DOMAIN deadline : deadline[d].key # Head(w.todo).key \/ deadline[d].event # w.e
    BY <1>3, CreateDeadline DEF IInv
  <2>3. Ahead(w)
    <3>1. CASE w.step = "make"
      <4>1. \A i \in DOMAIN execution :
              Made(execution[i]) => execution[i].event # w.e \/ execution[i].key # Head(w.todo).key
        BY <2>2, <3>1 DEF Idle, IInv, EngineInv, ExecutedOnce, Made
      <4>2. QED BY <3>1, <4>1 DEF Ahead
    <3>2. CASE w.step # "make"
      BY <2>2, <3>2 DEF Ahead, Idle
    <3>3. QED BY <3>1, <3>2
  <2>4. Ahead(w)'
    BY <1>1, <2>1, <2>3 DEF Ahead
  <2>5. task[r].step \in Engine /\ w.step \in Engine \cup {"idle"} /\ (w.step \in Engine => w.e = task[r].e)
    BY <2>1, <2>2 DEF Engine, Idle
  <2>6. EngineInv'
    BY <1>1, <1>2, <2>1, <2>2, <2>4, <2>5, EngineMove DEF IInv
  <2>7. QED BY <1>1, <2>1, <2>2, <2>5, <2>6, EngineSteady
<1>4. CASE applyEvent(r) \/ executeAction(r) \/ skipDeadline(r) \/ recordDeadline(r)
  <2>1. DataInv' /\ task[r].step \in Engine
    BY <1>4, EngineReads DEF IInv
  <2>2. PICK w : Moves(r, w) /\ (w = Idle \/ (w.step = "action" /\ w.e = task[r].e))
    BY <1>4, EngineReads DEF IInv
  <2>3. w.step \in Engine \cup {"idle"} /\ (w.step \in Engine => w.e = task[r].e) /\ Ahead(w)'
    BY <2>2 DEF Engine, Idle, Ahead
  <2>4. CASE UNCHANGED execution
    <3>1. EngineInv'
      BY <1>1, <1>2, <2>1, <2>2, <2>3, <2>4, EngineMove DEF IInv
    <3>2. QED BY <1>1, <2>1, <2>2, <2>3, <3>1, EngineSteady
  <2>5. CASE \E x : /\ execution' = Append(execution, x) /\ x.event = task[r].e
                    /\ Made(x) => task[r].step = "made" /\ x.deadline = task[r].d /\ x.key = Head(task[r].todo).key
    <3>1. PICK x : /\ execution' = Append(execution, x) /\ x.event = task[r].e
                   /\ Made(x) => task[r].step = "made" /\ x.deadline = task[r].d /\ x.key = Head(task[r].todo).key
      BY <2>5
    <3>2. Made(x) => /\ x.deadline \in DOMAIN deadline /\ deadline[x.deadline].key = x.key
                     /\ deadline[x.deadline].event = x.event
                     /\ \A i \in DOMAIN execution :
                          Made(execution[i]) => execution[i].event # x.event \/ execution[i].key # x.key
      BY <3>1 DEF IInv, EngineInv, Ahead, DataInv, Sound
    <3>3. EngineInv'
      BY <1>1, <2>1, <2>2, <3>1, <3>2, EngineRecord DEF IInv
    <3>4. QED BY <1>1, <2>1, <2>2, <2>3, <3>3, EngineSteady
  <2>6. QED
    <3>1. CASE applyEvent(r)
      BY <2>4, <3>1 DEF applyEvent
    <3>2. CASE executeAction(r)
      <4>1. PICK a, x : /\ a = Head(task[r].todo)
                        /\ x = [event |-> task[r].e, kind |-> a.kind, key |-> a.key, status |-> "EXECUTED", deadline |-> 0]
        OBVIOUS
      <4>2. a.kind # "CREATE_DEADLINE" /\ (UNCHANGED execution \/ execution' = Append(execution, x))
        BY <3>2, <4>1 DEF executeAction, record
      <4>3. x.event = task[r].e /\ ~Made(x)
        BY <4>1, <4>2 DEF Made
      <4>4. QED BY <2>4, <2>5, <4>2, <4>3
    <3>3. CASE skipDeadline(r)
      <4>1. PICK a, x : /\ a = Head(task[r].todo)
                        /\ x = [event |-> task[r].e, kind |-> a.kind, key |-> a.key, status |-> "SKIPPED", deadline |-> 0]
        OBVIOUS
      <4>2. execution' = Append(execution, x)
        BY <3>3, <4>1 DEF skipDeadline, record
      <4>3. x.event = task[r].e /\ ~Made(x)
        BY <4>1 DEF Made
      <4>4. QED BY <2>5, <4>2, <4>3
    <3>4. CASE recordDeadline(r)
      <4>1. PICK a, x : /\ a = Head(task[r].todo)
                        /\ x = [event |-> task[r].e, kind |-> a.kind, key |-> a.key, status |-> "EXECUTED", deadline |-> task[r].d]
        OBVIOUS
      <4>2. execution' = Append(execution, x) /\ task[r].step = "made"
        BY <3>4, <4>1 DEF recordDeadline, record, At
      <4>3. x.event = task[r].e /\ x.deadline = task[r].d /\ x.key = Head(task[r].todo).key
        BY <4>1
      <4>4. QED BY <2>5, <4>2, <4>3
    <3>5. QED BY <1>4, <3>1, <3>2, <3>3, <3>4
<1>5. QED BY <1>3, <1>4
-----------------------------------------------------------------------------
LEMMA InitInvariant == Init => IInv
<1> SUFFICES ASSUME Init PROVE IInv
  OBVIOUS
<1>1. /\ task = [r \in Requests |-> Idle] /\ now = 1 /\ event = <<>> /\ deadline = <<>> /\ execution = <<>>
      /\ log = [d \in Deadline |-> <<>>] /\ reminder = {} /\ escalations = [d \in Deadline |-> 0]
      /\ notices = [d \in Deadline |-> 0]
  BY DEF Init, HandlersInit
<1>2. \A r \in Requests : task[r] = Idle
  BY <1>1
<1>3. Makers = {} /\ Cardinality({}) = 0
  BY <1>2, FS_EmptySet DEF Makers, At, Idle
<1>4. DataInv
  <2>1. \A r \in Requests : Sound(task[r])
    BY <1>2 DEF Sound, Shaped, Works, Orders, Engine, Idle
  <2>2. event \in Seq(EventRow) /\ deadline \in Seq(Row) /\ Len(deadline) = 0 /\ log \in [Deadline -> Seq(Entry)]
    BY <1>1
  <2>3. task = [r \in Requests |-> task[r]]
    BY <1>1
  <2>4. escalations \in [Deadline -> Nat] /\ notices \in [Deadline -> Nat]
    BY <1>1
  <2>5. \A d \in Deadline \ DOMAIN deadline : log[d] = <<>> /\ notices[d] = 0
    BY <1>1
  <2>6. QED BY <1>1, <1>3, <2>1, <2>2, <2>3, <2>4, <2>5, DatesAssumption DEF DataInv
<1>5. RowsInv
  BY <1>1, <1>2 DEF RowsInv, Untouched, Orders, Idle
<1>6. EngineInv
  <2>1. execution \in Seq({execution[i] : i \in DOMAIN execution}) /\ DOMAIN execution = {}
    BY <1>1
  <2>2. \A r \in Requests : Ahead(task[r]) /\ task[r].step \notin Engine
    BY <1>2 DEF Ahead, Engine, Idle
  <2>3. ExecutedOnce
    BY <2>1 DEF ExecutedOnce
  <2>4. QED BY <2>1, <2>2, <2>3 DEF EngineInv
<1>7. SerialInv
  <2>1. \A w : w = Idle => Steady(w)
    BY <1>1 DEF Steady, Fresh, Reminded, Orders, Idle
  <2>2. QED BY <1>2, <2>1 DEF SerialInv, Alone
<1>8. QED BY <1>4, <1>5, <1>6, <1>7 DEF IInv

\* Nothing that the invariant speaks of changes but the day or the pin.
LEMMA StillThere ==
  ASSUME IInv, DataInv',
         UNCHANGED <<task, alone, event, deadline, log, reminder, escalations, notices, execution>>
  PROVE  IInv'
<1>1. ASSUME NEW w PROVE /\ Untouched(w)' <=> Untouched(w)
                         /\ Ahead(w)' <=> Ahead(w)
                         /\ Steady(w)' <=> Steady(w)
  BY DEF Untouched, Ahead, Steady, Fresh, Reminded, Matches, Notified, Waives, Chained, LastMove
<1>2. RowsInv'
  <2>1. \A d \in DOMAIN deadline' : Accounted(d)' /\ Computed(d)'
    BY DEF IInv, RowsInv, Accounted, Computed, LastMove
  <2>2. ASSUME NEW r \in Requests PROVE Untouched(task[r])'
    BY <1>1 DEF IInv, RowsInv, Untouched
  <2>3. QED BY <2>1, <2>2 DEF RowsInv
<1>3. EngineInv'
  <2>1. ASSUME NEW r \in Requests PROVE Ahead(task[r])'
    BY DEF IInv, EngineInv, Ahead
  <2>2. ExecutedOnce'
    BY DEF IInv, EngineInv, ExecutedOnce
  <2>3. QED BY <2>1, <2>2 DEF IInv, EngineInv
<1>4. SerialInv'
  <2>1. SUFFICES ASSUME Serial'
                 PROVE  Alone' /\ (Quiet' => Steady(Idle)') /\ \A r \in Requests : Only(r)' => Steady(task[r])'
    BY DEF SerialInv
  <2>2. Alone /\ (Quiet => Steady(Idle)) /\ \A r \in Requests : Only(r) => Steady(task[r])
    BY <2>1 DEF IInv, SerialInv, Serial
  <2>3. Alone' /\ (Quiet' => Quiet) /\ \A r \in Requests : Only(r)' => Only(r)
    BY <2>2 DEF Alone, Quiet, Only
  <2>4. Quiet' => Steady(Idle)'
    BY <1>1, <2>2, <2>3 DEF Idle
  <2>5. ASSUME NEW r \in Requests, Only(r)' PROVE Steady(task[r])'
    <3>1. PICK w : w = task[r]
      OBVIOUS
    <3>2. Steady(w)' /\ task'[r] = w
      BY <1>1, <2>2, <2>3, <2>5, <3>1
    <3>3. QED BY <3>1, <3>2 DEF Steady, Fresh, Reminded
  <2>6. QED BY <2>3, <2>4, <2>5
<1>5. QED BY <1>2, <1>3, <1>4 DEF IInv

LEMMA NextInvariant == IInv /\ [Next]_vars => IInv'
<1> SUFFICES ASSUME IInv, [Next]_vars PROVE IInv'
  OBVIOUS
<1>1. CASE UNCHANGED vars
  <2>1. UNCHANGED <<task, alone, event, deadline, log, reminder, escalations, notices, execution>> /\ now' = now
    BY <1>1 DEF vars
  <2>2. DataInv'
    <3>1. ASSUME NEW r \in Requests PROVE Sound(task[r])'
      <4>1. PICK w : w = task[r]
        OBVIOUS
      <4>2. Sound(w)' <=> Sound(w)
        BY <2>1 DEF Sound
      <4>3. QED BY <2>1, <4>1, <4>2 DEF DataInv, IInv
    <3>2. Makers' = Makers
      BY <2>1 DEF Makers, At
    <3>3. QED BY <2>1, <3>1, <3>2 DEF DataInv, IInv
  <2>3. QED BY <2>1, <2>2, StillThere
<1>2. CASE Elapse \/ assignToCase
  <2>1. DataInv' /\ UNCHANGED <<task, alone, event, deadline, log, reminder, escalations, notices, execution>>
    BY <1>2, Aside DEF IInv
  <2>2. QED BY <2>1, StillThere
<1>3. ASSUME NEW r \in Requests, DeadlinesController(r) PROVE IInv'
  <2>1. CASE \/ \E dueAt \in DueDates, key \in DOMAIN Definitions : create(r, dueAt, Definitions[key].reminderRule)
             \/ \E key \in DOMAIN Definitions, e \in DOMAIN event : generateFromDefinition(r, e, key)
    BY <2>1, InsertInv
  <2>2. ASSUME NEW d \in Deadline, NEW to \in DueDates, order(r, "extend", d, to) PROVE IInv'
    <3>1. to \in Nat \cup {Never} /\ to # Never /\ "extend" \in Orders
      BY DatesAssumption DEF Never, Orders
    <3>2. QED BY <2>2, <3>1, OrderInv
  <2>3. ASSUME NEW d \in Deadline, NEW step \in {"suspend", "resume", "waive"}, order(r, step, d, Never) PROVE IInv'
    <3>1. Never \in Nat \cup {Never} /\ step \in Orders /\ step # "extend"
      BY DEF Orders
    <3>2. QED BY <2>3, <3>1, OrderInv
  <2>4. CASE \E d \in Deadline : markComplete(r, d)
    BY <2>4, RestateInv
  <2>5. CASE escalateOverdue(r)
    BY <2>5, SweepInv
  <2>6. CASE runDueReminders(r)
    BY <2>6, SendingInv
  <2>7. QED BY <1>3, <2>1, <2>2, <2>3, <2>4, <2>5, <2>6 DEF DeadlinesController
<1>4. ASSUME NEW r \in Requests, Work(r) PROVE IInv'
  BY <1>4, RemindingInv, CarryOutInv, SweepInv, RestateInv, RaiseInv, SendingInv, EngineStepsInv, MakeInv DEF Work
<1>5. ASSUME NEW r \in Requests, NEW key \in DOMAIN Definitions, materialiseRuleDeadline(r, key) PROVE IInv'
  BY <1>5, InsertInv
<1>6. ASSUME NEW r \in Requests, NEW day \in 1..now, NEW matches \in BOOLEAN, recordEvent(r, day, matches) PROVE IInv'
  BY <1>6, RecordEventInv
<1>7. QED BY <1>1, <1>2, <1>3, <1>4, <1>5, <1>6 DEF Next

LEMMA Invariance == Spec => []IInv
BY InitInvariant, NextInvariant, PTL DEF Spec

LEMMA SomeoneSteady ==
  ASSUME IInv, Serial
  PROVE  \E w : Steady(w)
<1>1. CASE Quiet
  BY <1>1 DEF IInv, SerialInv
<1>2. CASE ~Quiet
  <2>1. PICK r \in Requests : task[r] # Idle
    BY <1>2 DEF Quiet
  <2>2. Only(r)
    BY <2>1 DEF IInv, SerialInv, Alone, Only
  <2>3. QED BY <2>2 DEF IInv, SerialInv
<1>3. QED BY <1>1, <1>2

(* A date that moved is the one the log gives last, whatever runs with      *)
(* what; of orders one at a time, each starts from the date the one before  *)
(* left.                                                                    *)
THEOREM DatesAreAccountedFor == Spec => []DueAccountedFor
<1>1. IInv => DueAccountedFor
  <2> SUFFICES ASSUME IInv PROVE DueAccountedFor
    OBVIOUS
  <2>1. \A d \in DOMAIN deadline : Accounted(d)
    BY DEF IInv, RowsInv
  <2>2. Serial => \A d \in DOMAIN deadline : Chained(log[d])
    BY SomeoneSteady DEF Steady
  <2>3. QED BY <2>1, <2>2 DEF DueAccountedFor, Accounted, Chained
<1>2. QED BY <1>1, Invariance, PTL

(* A deadline that rests on a definition first fell due on the day that the *)
(* rules ask for, whatever its period, and the row or the log still says    *)
(* so: the loops of the engine end on that day for every period, and the    *)
(* first order on a deadline logs the day the engine found.                 *)
THEOREM DatesAreAsComputed == Spec => []DueAsComputed
<1>1. IInv => DueAsComputed
  BY DEF IInv, RowsInv, Computed, DueAsComputed
<1>2. QED BY <1>1, Invariance, PTL

(* Between requests one at a time, every reminder still to be sent counts   *)
(* back from the date the deadline has now.                                 *)
THEOREM RemindersFollow == Spec => []RemindersMatchDue
<1>1. IInv => RemindersMatchDue
  <2>1. IInv /\ Serial /\ Quiet => Reminded(Idle)
    BY DEF IInv, SerialInv, Steady
  <2>2. QED BY <2>1 DEF RemindersMatchDue, Reminded, Matches, Idle
<1>2. QED BY <1>1, Invariance, PTL

(* Sweeps one at a time notify a case of an overdue deadline once, and once *)
(* more after each waiver.                                                  *)
THEOREM OverdueNotifiedOnce == Spec => []EscalatedOnce
<1>1. IInv => EscalatedOnce
  <2> SUFFICES ASSUME IInv, Serial, NEW d \in DOMAIN deadline PROVE notices[d] <= 1 + Waives(log[d])
    BY DEF EscalatedOnce, Waives
  <2>1. Notified(d)
    BY SomeoneSteady DEF Steady
  <2>2. d \in Deadline /\ log[d] \in Seq(Entry)
    BY Rows DEF IInv
  <2>3. Waives(log[d]) \in Nat /\ notices[d] \in Nat
    BY <2>2, WaivesCounted DEF IInv, DataInv
  <2>4. QED BY <2>1, <2>3 DEF Notified
<1>2. QED BY <1>1, Invariance, PTL

(* The deadline an execution names is there, with its definition and event, *)
(* and is the only one recorded for them: whatever runs with what, and      *)
(* wherever a request stops.                                                *)
THEOREM RulesExecutedOnce == Spec => []ExecutedOnce
<1>1. IInv => ExecutedOnce
  BY DEF IInv, EngineInv
<1>2. QED BY <1>1, Invariance, PTL
=============================================================================
