-------------------------------- MODULE Seed --------------------------------
(***************************************************************************)
(* How a database is first filled: the base seed, the top-up that a deploy *)
(* runs after it, and the loader of the showcase case.  A script writes    *)
(* its rows one by one with no transaction around them, so it may stop     *)
(* after any row.  Every deploy runs the scripts again; each looks for     *)
(* rows of an earlier run to know what it need not write.  One script runs *)
(* at a time.                                                              *)
(*                                                                         *)
(* The base seed writes everything; the other scripts call parts of it.    *)
(* Base, the rows it writes in their order, is a parameter.  A row is a    *)
(* tuple whose first member says which part it belongs to.                 *)
(***************************************************************************)
EXTENDS Integers, Sequences

CONSTANTS
  Base,         \* the rows of the base seed, in the order they are written
  MaxCrashes    \* bound: scripts that stopped half way

VARIABLES
  db,       \* the rows there are
  script,   \* the script that runs, or "none"
  done,     \* how many of its sections it has entered
  rows,     \* the rows left of the section it is in
  crashes

seedVars == <<db, script, done, rows, crashes>>

createUser(name) == <<"user", name>>
ruleSet == <<"ruleSet">>
Version(v) == <<"version", v>>
calendar == <<"calendar">>
seedCase(c) == <<"case", c>>   \* with its parties, team, history and claims
seedPin(c) == <<"pin", c>>
feeSchedule == <<"feeSchedule">>
depositRequest == <<"deposit", "request">>
showcaseCase == <<"showcase", "case">>
arbitratorProfiles == <<"arbitratorProfiles">>
-----------------------------------------------------------------------------
(* The parts of the base seed *)

BaseRows == {Base[i] : i \in DOMAIN Base}
Place == [row \in BaseRows |-> CHOOSE i \in DOMAIN Base : Base[i] = row]
PartsOf(names) == {row \in BaseRows : row[1] \in names}

buildVersion(v) == {row \in PartsOf({"version", "rule", "definition"}) : row[2] = v}
seedRules == PartsOf({"ruleSet", "version", "rule", "definition", "calendar"})
seedNotice == PartsOf({"notice"})
seedFeeSchedule == PartsOf({"feeSchedule"})
seedDepositWorkflow == PartsOf({"deposit"})
seedShowcase == PartsOf({"showcase"})
pinCase1 == {seedPin("case1")} \cup seedNotice
pinCase2 == {seedPin("case2")} \cup PartsOf({"acceptance", "event", "deadline"})

(* What a script looks for is the row that is written before the rest of    *)
(* what it stands for.                                                     *)
Marks ==
  {<<createUser("superadmin"), BaseRows>>, <<createUser("registrar"), {seedCase("case2")}>>,
   <<ruleSet, seedRules>>, <<Version("3.0-draft"), buildVersion("3.0-draft")>>,
   <<seedPin("case1"), pinCase1>>, <<seedPin("case2"), pinCase2>>, <<feeSchedule, seedFeeSchedule>>,
   <<depositRequest, seedDepositWorkflow>>, <<showcaseCase, seedShowcase>>}

ASSUME BaseAssumption ==
  /\ Base \in Seq(BaseRows)
  /\ \A i, j \in DOMAIN Base : Base[i] = Base[j] => i = j
  /\ \A row \in BaseRows : row[1] \notin {"trigger", "action"}
  /\ \A m \in Marks : /\ {m[1]} \cup m[2] \subseteq BaseRows
                      /\ \A row \in m[2] : Place[m[1]] <= Place[row]
-----------------------------------------------------------------------------
(* Trigger and action rows of the rules there are: a deadline to create, or *)
(* the commencement that a rule without a deadline records.                *)

RulesInDb == {row \in db : row[1] = "rule"}
upsertTrigger(rule) == <<"trigger", rule[2], rule[3]>>
ensureAction(rule) == <<"action", rule[2], rule[3]>>
Definition(rule) == <<"definition", rule[2], rule[3]>>
Acts(rule) == Definition(rule) \in BaseRows => Definition(rule) \in db
Graph == {upsertTrigger(rule) : rule \in RulesInDb} \cup {ensureAction(rule) : rule \in {x \in RulesInDb : Acts(x)}}

\* Mutant: a rule that has its trigger is passed over.
backfillUntriggered == {row \in Graph \ db : <<"trigger", row[2], row[3]>> \notin db}

backfillEngineGraph == Graph \ db
-----------------------------------------------------------------------------
(* The scripts.  A section is left out unless the rows it needs are there,  *)
(* or, where the script insists on them, the script throws; it is left out *)
(* where a row says that it was written before.                            *)

Section(set) == [needs |-> {}, insists |-> FALSE, unless |-> {}, rows |-> set]
When(needed, section) == [section EXCEPT !.needs = needed]
Unless(row, section) == [section EXCEPT !.unless = {row}]
Insist(needed) == [Section({}) EXCEPT !.needs = needed, !.insists = TRUE]

main == <<Section(BaseRows)>>

topUpRules ==
  IF ruleSet \in db THEN Insist({Version("1.0"), Version("2.0"), calendar}) ELSE Section(seedRules)

\* Mutant: whether case 1 is pinned already is not asked.
topUpCase1Again == When({seedCase("case1")}, Section(pinCase1))

topUpCase1 == Unless(seedPin("case1"), When({seedCase("case1")}, Section(pinCase1)))
topUpCase2 == Unless(seedPin("case2"), When({seedCase("case2")}, Section(pinCase2)))

topUp ==
  <<topUpRules, topUpCase1, topUpCase2, Section(backfillEngineGraph),
    Unless(feeSchedule, Section(seedFeeSchedule)),
    Unless(depositRequest, When({seedCase("case2"), createUser("registrar")}, Section(seedDepositWorkflow)))>>

Accounts == {createUser(u) : u \in {"registrar", "council", "lawyers", "clients", "arbitrators"}}
showcaseStandalone ==
  <<Insist(Accounts \cup {arbitratorProfiles, Version("2.0")}),
    Unless(Version("3.0-draft"), Section(buildVersion("3.0-draft"))),
    Section(seedShowcase)>>

Sections == CASE script = "seed" -> main
              [] script = "topUp" -> topUp
              [] script = "showcase" -> showcaseStandalone
              [] OTHER -> <<>>
-----------------------------------------------------------------------------
SeedInit == db = {} /\ script = "none" /\ done = 0 /\ rows = {} /\ crashes = 0

begin(name) == script = "none" /\ script' = name /\ UNCHANGED <<db, done, rows, crashes>>

\* A script whose work was begun before returns at once.  The top-up is run
\* after the base seed, so on a database where that was begun.
runSeed == createUser("superadmin") \notin db /\ begin("seed")
runTopUp == createUser("superadmin") \in db /\ begin("topUp")
runShowcase == showcaseCase \notin db /\ begin("showcase")

Stop == script' = "none" /\ done' = 0 /\ rows' = {}

nextSection ==
  /\ rows = {} /\ done < Len(Sections)
  /\ LET section == Sections[done + 1]
         skipped == ~(section.needs \subseteq db) \/ section.unless \cap db # {} IN
     IF section.insists /\ skipped THEN Stop
     ELSE /\ rows' = IF skipped THEN {} ELSE section.rows
          /\ done' = done + 1 /\ UNCHANGED script
  /\ UNCHANGED <<db, crashes>>

\* The rows of the base seed come in its order; the rules whose triggers are
\* filled in come in any, each with the trigger before its action.
Before(x, y) ==
  IF {x, y} \subseteq BaseRows THEN Place[x] < Place[y]
  ELSE x[1] = "trigger" /\ y = <<"action", x[2], x[3]>>

writeRow ==
  \E row \in rows :
    /\ \A other \in rows : ~Before(other, row)
    /\ db' = db \cup {row} /\ rows' = rows \ {row} /\ UNCHANGED <<script, done, crashes>>

return == script # "none" /\ rows = {} /\ done = Len(Sections) /\ Stop /\ UNCHANGED <<db, crashes>>

\* The process exits, or a query fails.
crash == script # "none" /\ crashes < MaxCrashes /\ crashes' = crashes + 1 /\ Stop /\ UNCHANGED db

\* In the running application a registrar pins a case that is not pinned.
assignToCase(c) ==
  /\ script = "none" /\ seedCase(c) \in db /\ seedPin(c) \notin db /\ Version("2.0") \in db
  /\ db' = db \cup {seedPin(c)} /\ UNCHANGED <<script, done, rows, crashes>>

SeedNext ==
  \/ runSeed \/ runTopUp \/ runShowcase \/ nextSection \/ writeRow \/ return \/ crash
  \/ \E c \in {"case1", "case2"} : assignToCase(c)
-----------------------------------------------------------------------------
(* The scripts may be run on every deploy: wherever earlier runs stopped    *)
(* and whatever was pinned meanwhile, no script comes to a row that is      *)
(* there, so none is duplicated and none fails on a unique key.            *)
SeededOnce == rows \cap db = {}

(* A top-up that runs to its end has mended what it looks for, wherever     *)
(* the runs before it stopped: the rules that were written are operational, *)
(* the sample cases that were written are pinned, there is a fee schedule,  *)
(* and the second case has its deposit.                                     *)
MendedByTopUp ==
  (script = "topUp" /\ done = Len(topUp) /\ rows = {}) =>
    /\ Graph \subseteq db
    /\ \A c \in {"case1", "case2"} : seedCase(c) \in db => seedPin(c) \in db
    /\ feeSchedule \in db
    /\ seedCase("case2") \in db => depositRequest \in db
=============================================================================
