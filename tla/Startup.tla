------------------------------- MODULE Startup -------------------------------
(***************************************************************************)
(* How a database comes to the schema the code expects: lumo/db/migrate.py *)
(* and its scripts, run by `lumo init' (lumo/cli.py) and by every          *)
(* LumoClient that is constructed (lumo/sdk.py), then lumo/db/seed.py.     *)
(*                                                                         *)
(* executescript commits first and runs outside any transaction: each      *)
(* statement of a script is committed by itself, other connections may     *)
(* read and write between two of them, and an opener that dies or fails    *)
(* leaves the script where it was.  Only the row of schema_migrations is   *)
(* written in a transaction, after the script.                             *)
(***************************************************************************)
EXTENDS Integers, Sequences, FiniteSets, FiniteSetsExt, Functions

CONSTANTS Openers,   \* whoever opens the database: threads and processes
          Rows,      \* proposals: each a row of intents and one of decisions
          Old,       \* those that an older database already has
          Fixture    \* the rows of seed.py; those of a table count as one

ASSUME StartupAssumption ==
  /\ Old \subseteq Rows
  /\ Fixture \notin Rows

VARIABLES tables,   \* the tables that exist, each with its rows
          applied,  \* table schema_migrations
          opener,   \* where each opener is
          stored    \* history: every row committed, as <<table, row, was its
                    \* table copied and about to be dropped?>>

startupVars == <<tables, applied, opener, stored>>

-----------------------------------------------------------------------------
(* The statements of the scripts.                                          *)
Create(table) == [op |-> "create", table |-> table, to |-> table]
Copy(table, to) == [op |-> "copy", table |-> table, to |-> to]
Drop(table) == [op |-> "drop", table |-> table, to |-> table]
Rename(table, to) == [op |-> "rename", table |-> table, to |-> to]

(* Broken: the table is dropped before its rows are copied.                *)
Rebuild_dropping_first(table, new) ==
  <<Create(new), Drop(table), Rename(new, table)>>

(* A changed CHECK needs a new table: create, copy, drop, rename.          *)
Rebuild(table, new) ==
  <<Create(new), Copy(table, new), Drop(table), Rename(new, table)>>

(* lumo/db/migrations, in the order of available().                        *)
Script ==
  << <<Create("suppliers"), Create("policy_rules")>>,
     <<Create("intents"), Create("decisions")>>,
     <<Create("chain_txs"), Create("anchor_payouts")>>,
     <<Create("attestations")>> \o Rebuild("intents", "intents_new")
       \o Rebuild("decisions", "decisions_new"),
     <<Create("events")>> >>

Migrations == DOMAIN Script

Operands(m, op) == {s.table : s \in {s \in Range(Script[m]) : s.op = op}}

(* The tables there are once the scripts ms have run.                      *)
Schema(ms) == UNION {Operands(m, "create") \ Operands(m, "rename") : m \in ms}

(* The tables record_decision writes, and what rebuilding calls the copy.  *)
Proposal == {"intents", "decisions"}
New(table) == IF table = "intents" THEN "intents_new" ELSE "decisions_new"

(* Broken: CREATE TABLE IF NOT EXISTS.                                     *)
Succeeds_if_not_exists(s) ==
  \/ s.op = "create"
  \/ s.op = "copy" /\ {s.table, s.to} \subseteq DOMAIN tables
  \/ s.op = "drop" /\ s.table \in DOMAIN tables
  \/ s.op = "rename" /\ s.table \in DOMAIN tables /\ s.to \notin DOMAIN tables

(* What SQLite asks of a statement; copied rows keep their PRIMARY KEY.    *)
Succeeds(s) ==
  \/ s.op = "create" /\ s.table \notin DOMAIN tables
  \/ /\ s.op = "copy" /\ {s.table, s.to} \subseteq DOMAIN tables
     /\ tables[s.table] \cap tables[s.to] = {}
  \/ s.op = "drop" /\ s.table \in DOMAIN tables
  \/ s.op = "rename" /\ s.table \in DOMAIN tables /\ s.to \notin DOMAIN tables

(* The tables after a statement that succeeds.                             *)
After(s) ==
  LET before == DOMAIN tables
      names == CASE s.op = "drop" -> before \ {s.table}
                 [] s.op = "rename" -> (before \ {s.table}) \cup {s.to}
                 [] OTHER -> before \cup {s.to}
      rows(t) == IF t \in before THEN tables[t] ELSE {} IN
  [t \in names |->
     IF s.op \in {"copy", "rename"} /\ t = s.to
     THEN rows(t) \cup rows(s.table)
     ELSE rows(t)]

-----------------------------------------------------------------------------
(* An opener: the migrations it still has to run, the next statement of    *)
(* the first of them, and whether it seeds unasked, as `lumo init' does.   *)
Closed == [pc |-> "closed", todo |-> {}, next |-> 1, init |-> FALSE]

StartupTypeOK ==
  /\ DOMAIN tables \subseteq Schema(Migrations) \cup {New(t) : t \in Proposal}
  /\ \A t \in DOMAIN tables : tables[t] \subseteq Rows \cup {Fixture}
  /\ applied \subseteq Migrations
  /\ opener \in [Openers ->
       [pc : {"absent", "closed", "applied", "up", "count", "seed", "open"},
        todo : SUBSET Migrations, next : 1..10, init : BOOLEAN]]
  /\ stored \subseteq Proposal \X Rows \X BOOLEAN

(* A database of the given version, with what was recorded in it: none (0),*)
(* one that an older release left, or one that is up to date (5).  Openers *)
(* that are not present take no step.                                      *)
StartupInit(version, present) ==
  /\ applied = 1..version
  /\ tables = [t \in Schema(1..version) |->
       CASE t \in Proposal -> Old
         [] t \in {"suppliers", "policy_rules"} -> {Fixture}
         [] OTHER -> {}]
  /\ stored = (Proposal \cap Schema(1..version)) \X Old \X {FALSE}
  /\ opener = [o \in Openers |->
       IF o \in present THEN Closed ELSE [Closed EXCEPT !.pc = "absent"]]

At(o, pc) == opener[o].pc = pc
Goto(o, pc) == opener' = [opener EXCEPT ![o].pc = pc]
Close(o) == opener' = [opener EXCEPT ![o] = Closed]

connect(o, init) ==
  /\ At(o, "closed")
  /\ opener' = [opener EXCEPT ![o] = [Closed EXCEPT !.pc = "applied", !.init = init]]
  /\ UNCHANGED <<tables, applied, stored>>

(* The migrations left to an opener: run them, or go on to the seed.       *)
Left(o, todo) ==
  opener' = [opener EXCEPT ![o].pc = IF todo = {} THEN "count" ELSE "up",
                           ![o].todo = todo, ![o].next = 1]

(* migrate.applied, read once, before the first script.                    *)
ReadApplied(o) ==
  /\ At(o, "applied")
  /\ Left(o, Migrations \ applied)
  /\ UNCHANGED <<tables, applied, stored>>

Current(o) == Min(opener[o].todo)
More(o) == At(o, "up") /\ opener[o].next <= Len(Script[Current(o)])
Upcoming(o) == Script[Current(o)][opener[o].next]

(* The next statement of the script; one that raises ends the opener.      *)
Statement(o) ==
  /\ More(o)
  /\ IF Succeeds(Upcoming(o))
     THEN /\ tables' = After(Upcoming(o))
          /\ opener' = [opener EXCEPT ![o].next = @ + 1]
     ELSE Close(o) /\ UNCHANGED tables
  /\ UNCHANGED <<applied, stored>>

(* INSERT INTO schema_migrations, whose id is its PRIMARY KEY.             *)
Record(o) ==
  /\ At(o, "up") /\ ~More(o)
  /\ IF Current(o) \in applied
     THEN Close(o) /\ UNCHANGED applied
     ELSE /\ applied' = applied \cup {Current(o)}
          /\ Left(o, opener[o].todo \ {Current(o)})
  /\ UNCHANGED <<tables, stored>>

(* The SDK seeds a database without rules, `lumo init' any.                *)
CountRules(o) ==
  /\ At(o, "count")
  /\ Goto(o, IF opener[o].init \/ tables["policy_rules"] = {} THEN "seed" ELSE "open")
  /\ UNCHANGED <<tables, applied, stored>>

(* One transaction, which writes the fixtures over what is there; what the *)
(* constructor still does, building the webhooks, may fail.                *)
seed(o) ==
  /\ At(o, "seed")
  /\ tables' = [t \in DOMAIN tables |->
       IF t \in {"suppliers", "policy_rules"}
       THEN tables[t] \cup {Fixture}
       ELSE tables[t]]
  /\ Goto(o, "open") \/ Close(o)
  /\ UNCHANGED <<applied, stored>>

(* A lock that outlasts busy_timeout, a full disk, a configured webhook    *)
(* URL that does not resolve, or the end of the process.                   *)
OpenFails(o) ==
  /\ opener[o].pc \in {"applied", "up", "count", "seed"}
  /\ Close(o)
  /\ UNCHANGED <<tables, applied, stored>>

Opening(o) ==
  \/ ReadApplied(o) \/ Statement(o) \/ Record(o)
  \/ CountRules(o) \/ seed(o) \/ OpenFails(o)

(* Is an opener about to drop the table whose rows it has just copied?     *)
Dropping(table) == \E o \in Openers : More(o) /\ Upcoming(o) = Drop(table)

(* Repo.record_decision by a command of the CLI, which does not migrate:   *)
(* one transaction, under an id that is never drawn twice.                 *)
Write(o, r) ==
  /\ At(o, "closed")
  /\ Proposal \cup {"policy_rules"} \subseteq DOMAIN tables
  /\ tables["policy_rules"] # {}
  /\ \A w \in stored : w[2] # r
  /\ tables' = [t \in DOMAIN tables |->
                  IF t \in Proposal THEN tables[t] \cup {r} ELSE tables[t]]
  /\ stored' = stored \cup {<<t, r, Dropping(t)>> : t \in Proposal}
  /\ UNCHANGED <<applied, opener>>

-----------------------------------------------------------------------------
Holds(table, r) == table \in DOMAIN tables /\ r \in tables[table]

(* 0004_trust_pipeline rebuilds the two tables that hold the money's       *)
(* records, statement by statement.  Wherever it stops, and whoever runs   *)
(* it at the same time, a row that was committed is in the table or in its *)
(* copy, with one exception: those that are committed to a table between   *)
(* its copy and its drop, which nothing keeps other connections from, go   *)
(* with the old table.                                                     *)
RowsKept ==
  \A w \in stored : ~w[3] => Holds(w[1], w[2]) \/ Holds(New(w[1]), w[2])

(* A client whose constructor returned has a complete schema, nothing of a *)
(* half-run script, and rules to judge by; scripts are recorded in order.  *)
(* Two that start together, or after a crash, fail rather than open less.  *)
OpenIsUpToDate ==
  /\ applied = 1..Cardinality(applied)
  /\ \A o \in Openers : At(o, "open") =>
       /\ applied = Migrations
       /\ DOMAIN tables = Schema(Migrations)
       /\ tables["policy_rules"] # {}

=============================================================================
