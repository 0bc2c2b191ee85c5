-------------------------------- MODULE Schema --------------------------------
(***************************************************************************)
(* Opening the memory database (MemoryStore._migrate): the migrations v1 to   *)
(* v9, each of them applied and then stamped, and a crash between any two     *)
(* statements.                                                               *)
(*                                                                         *)
(* The driver commits each DDL statement on its own, while the stamp and the  *)
(* UPDATE of v2 wait for one commit.  So the schema may be ahead of its       *)
(* stamp, and the migration runs again on the next start: which is fine for   *)
(* CREATE ... IF NOT EXISTS, and not for ALTER TABLE ADD COLUMN.              *)
(***************************************************************************)
EXTENDS Naturals

CONSTANTS
    HasFts,       \* this SQLite has FTS5
    MaxCrashes    \* bound: crashes of the process

ASSUME SchemaAssumption == HasFts \in BOOLEAN /\ MaxCrashes \in Nat

VARIABLES
    has,      \* of each migration: what of it is in the database
    stamped,  \* MAX(version) of amber_schema_version
    store,    \* the MemoryStore of this process
    crashes

schema == <<has, stamped, store, crashes>>

Latest == 9
Versions == 1 .. Latest

\* _m2_fact_metadata and _m8_reminder_fired add columns, which fails if they are there.
Alters == {2, 8}

\* Migrations of more than one statement: a crash may leave a part behind.
Compound == Versions \ {6, 8}

\* _OPTIONAL_MIGRATIONS: _m5_fts
Optional == {5}

SchemaTypeOK ==
    /\ has \in [Versions -> {"none", "part", "all"}]
    /\ stamped \in 0 .. Latest
    /\ store \in {"closed", "opening", "migrating", "open", "broken"}
    /\ crashes \in 0 .. MaxCrashes

\* A new database, or one of the first release, which kept no versions
SchemaInit ==
    /\ \/ has = [v \in Versions |-> "none"]
       \/ has = [v \in Versions |-> IF v = 1 THEN "all" ELSE "none"]
    /\ stamped = 0
    /\ store = "closed"
    /\ crashes = 0

Version == stamped + 1

\* get_store: the first caller opens the database.
Open ==
    /\ store = "closed"
    /\ store' = "opening"
    /\ UNCHANGED <<has, stamped, crashes>>

\* The next migration's first statement.  A column that is there already cannot be
\* added: the constructor raises, and so it will on every start.
Begin ==
    /\ store = "opening" /\ Version \in Versions
    /\ IF Version \in Alters /\ has[Version] # "none"
       THEN store' = "broken" /\ UNCHANGED has
       ELSE /\ ~(Version \in Optional /\ ~HasFts)
            /\ store' = "migrating"
            /\ has' = [has EXCEPT ![Version] =
                           IF Version \in Compound /\ @ # "all" THEN "part" ELSE "all"]
    /\ UNCHANGED <<stamped, crashes>>

\* ... and the rest of its DDL
Complete ==
    /\ store = "migrating" /\ has[Version] = "part"
    /\ has' = [has EXCEPT ![Version] = "all"]
    /\ UNCHANGED <<stamped, store, crashes>>

Applied(v) == has[v] = "all"

\* The stamp, and with v2's the tiers it has given the rows
Stamp ==
    /\ store = "migrating" /\ Applied(Version)
    /\ stamped' = Version
    /\ store' = "opening"
    /\ UNCHANGED <<has, crashes>>

\* An optional migration that fails is stamped all the same.
Skip ==
    /\ store = "opening" /\ Version \in Optional /\ ~HasFts
    /\ stamped' = Version
    /\ UNCHANGED <<has, store, crashes>>

Opened ==
    /\ store = "opening" /\ stamped = Latest
    /\ store' = "open"
    /\ UNCHANGED <<has, stamped, crashes>>

\* The process dies: what was committed stays.
Crash ==
    /\ store # "closed" /\ crashes < MaxCrashes
    /\ store' = "closed"
    /\ crashes' = crashes + 1
    /\ UNCHANGED <<has, stamped>>

Migrate == Open \/ Begin \/ Complete \/ Skip \/ Opened
=============================================================================
