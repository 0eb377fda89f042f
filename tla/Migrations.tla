------------------------------ MODULE Migrations ------------------------------
(***************************************************************************)
(* The migration script, run before the server by every instance that       *)
(* starts, against a database that an older runner may have migrated in     *)
(* part.  Several of the files are not idempotent: 004 renames the unit     *)
(* 'sat', which a later version gave another meaning.                       *)
(***************************************************************************)
EXTENDS Naturals, FiniteSets

CONSTANTS
  Files,     \* number of migration files, 001_... to <Files>_...
  Instances  \* that start the server

ASSUME MigrationsAssumption == Files \in Nat \ {0}

VARIABLES
  recorded,  \* table schema_migrations
  legacy,    \* table migrations: ids
  applied,   \* history: how often each file's SQL was committed
  phase,     \* of each instance
  todo       \* files an instance still has to backfill or to apply

migrationVars == <<recorded, legacy, applied, phase, todo>>

AllFiles == 1 .. Files

MigrationsInit ==
  /\ \E k \in 0 .. Files : /\ legacy = 1 .. k
                           /\ applied = [f \in AllFiles |-> IF f <= k THEN 1 ELSE 0]
  /\ recorded = {}
  /\ phase = [i \in Instances |-> "down"]
  /\ todo = [i \in Instances |-> {}]

(* The least file in todo is next. *)
LeastTodo(i, f) == f \in todo[i] /\ \A g \in todo[i] : f <= g

(* Mutant: only the table of this script is looked at. *)
BackfillNothing(i) ==
  /\ phase[i] = "down"
  /\ phase' = [phase EXCEPT ![i] = "backfill"]
  /\ todo' = [todo EXCEPT ![i] = {}]
  /\ UNCHANGED <<recorded, legacy, applied>>

(* backfillSchemaMigrationsFromLegacyTable reads both tables ...            *)
StartBackfill(i) ==
  /\ phase[i] = "down"
  /\ phase' = [phase EXCEPT ![i] = "backfill"]
  /\ todo' = [todo EXCEPT ![i] = (legacy \cap AllFiles) \ recorded]
  /\ UNCHANGED <<recorded, legacy, applied>>

(* ... and inserts row by row, ON CONFLICT DO NOTHING.                      *)
Backfill(i, f) ==
  /\ phase[i] = "backfill" /\ LeastTodo(i, f)
  /\ recorded' = recorded \cup {f}
  /\ todo' = [todo EXCEPT ![i] = @ \ {f}]
  /\ UNCHANGED <<legacy, applied, phase>>

(* The applied files are read once, before the first is run.                *)
ListFiles(i) ==
  /\ phase[i] = "backfill" /\ todo[i] = {}
  /\ phase' = [phase EXCEPT ![i] = "apply"]
  /\ todo' = [todo EXCEPT ![i] = AllFiles \ recorded]
  /\ UNCHANGED <<recorded, legacy, applied>>

(* One transaction: the SQL, which also inserts the id into the legacy      *)
(* table if it is not there, and the row of schema_migrations, whose name   *)
(* is unique: a file that another instance ran meanwhile rolls this back.   *)
Apply(i, f) ==
  /\ phase[i] = "apply" /\ LeastTodo(i, f)
  /\ f \notin recorded
  /\ recorded' = recorded \cup {f}
  /\ legacy' = legacy \cup {f}
  /\ applied' = [applied EXCEPT ![f] = @ + 1]
  /\ todo' = [todo EXCEPT ![i] = @ \ {f}]
  /\ UNCHANGED phase

(* set -e: the server is started when the script exits with 0.              *)
Serving(i) ==
  /\ phase[i] = "apply" /\ todo[i] = {}
  /\ phase' = [phase EXCEPT ![i] = "serving"]
  /\ UNCHANGED <<recorded, legacy, applied, todo>>

(* A statement fails, the one above for one, the script exits with 1, or    *)
(* the instance ends: what was not committed is gone.                       *)
Down(i) ==
  /\ phase[i] # "down"
  /\ phase' = [phase EXCEPT ![i] = "down"]
  /\ todo' = [todo EXCEPT ![i] = {}]
  /\ UNCHANGED <<recorded, legacy, applied>>

MigrationsNext ==
  \E i \in Instances :
    \/ StartBackfill(i) \/ ListFiles(i) \/ Serving(i) \/ Down(i)
    \/ \E f \in AllFiles : Backfill(i, f) \/ Apply(i, f)

MigrationsSpec == MigrationsInit /\ [][MigrationsNext]_migrationVars

-----------------------------------------------------------------------------

(* Instances that start together, stop anywhere and take over the older     *)
(* runner's database apply each file at most once and none before its       *)
(* predecessors, and none serves before all are applied.                    *)
AppliedOnceInOrder ==
  /\ \A f \in AllFiles : applied[f] <= 1 /\ (applied[f] = 1 => \A g \in 1 .. f : applied[g] = 1)
  /\ \A i \in Instances : phase[i] = "serving" => \A f \in AllFiles : applied[f] = 1
=============================================================================
