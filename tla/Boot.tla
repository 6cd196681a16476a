-------------------------------- MODULE Boot --------------------------------
(***************************************************************************)
(* Programs that open the database: the server and the scripts migrate and *)
(* init-db.  Each one runs initSchema: umzug reads the migrations table    *)
(* once, then runs each migration missing from it and records it, in two   *)
(* separate writes.  A program may crash between any two commits and is    *)
(* started again; several may run over one database.                       *)
(***************************************************************************)
EXTENDS Migrations

CONSTANTS
    Programs,    \* the processes that may open the database
    Servers,     \* those that listen when initSchema is done; the others exit
    Build,       \* for each: "ts" run from source, "js" compiled
    Backends,
    Begun,       \* how many migrations a deployment may have behind it
    Together,    \* bound: migrations that two programs may be running at once
    MaxCrashes,  \* bound: crashes
    MaxMoves,    \* bound: promotions, labels and spans of serving servers
    Versions, NoVersion

ASSUME BootAssumption ==
    /\ Servers \subseteq Programs /\ Build \in [Programs -> {"ts", "js"}]
    /\ Backends \subseteq {"sqlite", "postgres"}
    /\ Begun \subseteq 0..25 /\ Together \in Nat
    /\ MaxCrashes \in Nat /\ MaxMoves \in Nat
    /\ NoVersion \notin Versions

VARIABLES
    backend,
    begun,       \* history: the migrations the database had at first
    db,          \* the schema, as Migrations describes it
    ledger,      \* rows of the migrations table: migration and name suffix
    prog,        \* each program: where it is, what it still has to run, the next unit
    cut,         \* history: migrations a crash interrupted
    overlapped,  \* history: a program migrated while another one ran
    crashes, moves

bootVars == <<backend, begun, db, ledger, prog, cut, overlapped, crashes, moves>>

\* Mutant: the suffix is replaced in every build.
SuffixAlwaysSql(p) == "sql"

\* resolve() replaces the suffix .ts of a migration's file by .sql and leaves .js.
Suffix(p) == IF Build[p] = "ts" THEN "sql" ELSE "js"

Off(where) == [at |-> where, todo |-> {}, unit |-> 1]
Running(p) == prog[p].at \in {"migrating", "serving"}

BootTypeOK ==
    /\ backend \in Backends /\ begun \in Begun
    /\ DOMAIN db.table \subseteq Tables /\ DOMAIN db.aside \subseteq Rebuilt
    /\ ledger \subseteq (1..25) \X {"sql", "js"}
    /\ \A p \in Programs : /\ prog[p].at \in {"down", "migrating", "serving", "done", "failed"}
                           /\ prog[p].todo \subseteq 1..25 /\ prog[p].unit \in Nat
    /\ cut \subseteq 1..25 /\ overlapped \in BOOLEAN
    /\ crashes \in 0..MaxCrashes /\ moves \in 0..MaxMoves

\* Rows of a deployment in use.  Migration 17 deletes the orphans of eval_runs, which migration
\* 12, with its foreign keys of now, does not let in: a table it made before it had them may.
Legacy(t, k) == {"kept"} \union (IF t = "eval_runs" /\ k < 17 THEN {"orphan"} ELSE {})

BootInit ==
    /\ backend \in Backends
    /\ begun \in Begun
    /\ \E label \in Versions \union {NoVersion} :
         LET tables == Migrated(backend, begun) IN
         db = [table |-> [t \in DOMAIN tables |->
                            IF t \in Rebuilt THEN [tables[t] EXCEPT !.rows = Legacy(t, begun)]
                            ELSE tables[t]],
               aside |-> [t \in {} |-> t],
               label |-> IF begun = 0 THEN NoVersion ELSE label,
               pointer |-> IF begun < 21 THEN NoVersion ELSE label]
    /\ ledger = (1..begun) \X {"js"}
    /\ prog = [p \in Programs |-> Off("down")]
    /\ cut = {}
    /\ overlapped = FALSE
    /\ crashes = 0 /\ moves = 0

-----------------------------------------------------------------------------
(* initSchema.                                                              *)

\* Mutant: the backfill is run on every boot.
PendingBackfill(p) == {m \in 1..25 : m = 21 \/ <<m, Suffix(p)>> \notin ledger}

\* executed(): the table is created if it is missing and read once.
Pending(p) == {m \in 1..25 : <<m, Suffix(p)>> \notin ledger}

\* A program starts, for the first time or after it failed or crashed.
Start(p) ==
    /\ prog[p].at \in {"down", "failed"}
    /\ LET busy == \E q \in Programs \ {p} :
                       \/ prog[q].at = "migrating"
                       \/ prog[q].at = "serving" /\ Pending(p) # {}
       IN  /\ busy => Cardinality(Pending(p)) <= Together
           /\ overlapped' = (overlapped \/ busy)
    /\ prog' = [prog EXCEPT ![p] = [at |-> "migrating", todo |-> Pending(p), unit |-> 1]]
    /\ UNCHANGED <<backend, begun, db, ledger, cut, crashes, moves>>

Now(p) == Min(prog[p].todo)
Left(p) == Scripts[backend][Now(p)]
Migrating(p) == prog[p].at = "migrating" /\ prog[p].todo # {}

\* up(): the next unit commits, or fails, which ends the program with exit code 1.
Up(p) ==
    /\ Migrating(p) /\ prog[p].unit <= Len(Left(p))
    /\ LET outcomes == Outcomes(Left(p)[prog[p].unit], db) IN
       \/ /\ db' \in outcomes
          /\ prog' = [prog EXCEPT ![p].unit = @ + 1]
       \/ /\ outcomes = {}
          /\ prog' = [prog EXCEPT ![p] = Off("failed")]
          /\ UNCHANGED db
    /\ UNCHANGED <<backend, begun, ledger, cut, overlapped, crashes, moves>>

\* Mutant: a migration is recorded before it is run.
LogMigrationFirst(p) ==
    /\ Migrating(p) /\ prog[p].unit = 1
    /\ <<Now(p), Suffix(p)>> \notin ledger
    /\ ledger' = ledger \union {<<Now(p), Suffix(p)>>}
    /\ prog' = [prog EXCEPT ![p].todo = @ \ {Now(p)}]
    /\ UNCHANGED <<backend, begun, db, cut, overlapped, crashes, moves>>

\* logMigration(): the name is the primary key.
LogMigration(p) ==
    /\ Migrating(p) /\ prog[p].unit > Len(Left(p))
    /\ IF <<Now(p), Suffix(p)>> \in ledger
       THEN /\ prog' = [prog EXCEPT ![p] = Off("failed")]
            /\ UNCHANGED ledger
       ELSE /\ ledger' = ledger \union {<<Now(p), Suffix(p)>>}
            /\ prog' = [prog EXCEPT ![p].todo = @ \ {Now(p)}, ![p].unit = 1]
    /\ UNCHANGED <<backend, begun, db, cut, overlapped, crashes, moves>>

\* initSchema returns, and the server starts its jobs and listens.
Listen(p) ==
    /\ p \in Servers /\ prog[p].at = "migrating" /\ prog[p].todo = {}
    /\ prog' = [prog EXCEPT ![p] = Off("serving")]
    /\ UNCHANGED <<backend, begun, db, ledger, cut, overlapped, crashes, moves>>

\* A script closes the database and exits.
Exit(p) ==
    /\ p \notin Servers /\ prog[p].at = "migrating" /\ prog[p].todo = {}
    /\ prog' = [prog EXCEPT ![p] = Off("done")]
    /\ UNCHANGED <<backend, begun, db, ledger, cut, overlapped, crashes, moves>>

\* The process dies; what it committed stays.
Crash(p) ==
    /\ Running(p) /\ crashes < MaxCrashes
    /\ crashes' = crashes + 1
    /\ cut' = IF prog[p].unit > 1 THEN cut \union {Now(p)} ELSE cut
    /\ prog' = [prog EXCEPT ![p] = Off("down")]
    /\ UNCHANGED <<backend, begun, db, ledger, overlapped, moves>>

-----------------------------------------------------------------------------
(* A serving server writes the rows a late migration may meet.              *)

Serves(p) == prog[p].at = "serving" /\ moves < MaxMoves

Promote(p, v) ==
    /\ Serves(p) /\ db' = [db EXCEPT !.pointer = v]
    /\ moves' = moves + 1
    /\ UNCHANGED <<backend, begun, ledger, prog, cut, overlapped, crashes>>

Relabel(p, v) ==
    /\ Serves(p) /\ db' = [db EXCEPT !.label = v]
    /\ moves' = moves + 1
    /\ UNCHANGED <<backend, begun, ledger, prog, cut, overlapped, crashes>>

WriteSpan(p) ==
    /\ Serves(p) /\ "spans" \in DOMAIN db.table /\ Admits(db.table["spans"], "running")
    /\ db' = [db EXCEPT !.table["spans"].rows = @ \union {"running"}]
    /\ moves' = moves + 1
    /\ UNCHANGED <<backend, begun, ledger, prog, cut, overlapped, crashes>>

\* Nothing is left to do: each server listens, each script ended or its program failed for good.
Rests ==
    /\ \A p \in Programs : prog[p].at \in {"serving", "done"}
    /\ UNCHANGED bootVars

BootNext ==
    \/ \E p \in Programs : Start(p) \/ Up(p) \/ LogMigration(p) \/ Listen(p) \/ Exit(p) \/ Crash(p)
    \/ \E p \in Servers : WriteSpan(p) \/ \E v \in Versions : Promote(p, v) \/ Relabel(p, v)
    \/ Rests

BootSpec == BootInit /\ [][BootNext]_bootVars

\* A stopped program is started again, by hand or by its container, and runs on.
FairBoot ==
    /\ BootSpec
    /\ \A p \in Programs :
          /\ WF_bootVars(Start(p))
          /\ WF_bootVars(Up(p) \/ LogMigration(p) \/ Listen(p) \/ Exit(p))

-----------------------------------------------------------------------------
(* Properties.                                                              *)

\* The migrations that cannot run again on what they left: each contains a plain ADD
\* COLUMN or, on SQLite, the rebuild of a table.
Once ==
    IF backend = "sqlite" THEN {2, 3, 5, 8} \union 14..25 ELSE {2, 3, 8, 14, 15, 18}

\* No crash and no second program loses a row: what a rebuilt table held before a boot is
\* in the table or in the one it was moved to, although no transaction covers the four
\* statements of a rebuild.
NoRowLost ==
    LET held == {t \in Rebuilt : begun >= CASE t \in {"spans", "runs"} -> 1
                                            [] t = "ab_test_results" -> 11
                                            [] OTHER -> 12} IN
    \A t \in held :
        \/ t \in DOMAIN db.table /\ "kept" \in db.table[t].rows
        \/ t \in DOMAIN db.aside /\ "kept" \in db.aside[t].rows

\* What the migrations table records is in the schema: a recorded migration's columns and
\* constraints are there, whatever crashed.  On SQLite this is claimed for programs that
\* start one after the other: a late rebuild takes a later one's constraints back.
RecordedIsApplied ==
    (backend = "postgres" \/ ~overlapped) =>
        \A m \in 1..25 : (\E x \in {"sql", "js"} : <<m, x>> \in ledger) =>
            \A s \in Statements[backend][m] : InEffect(s, db)

\* A promoted version stays promoted through every later boot: the backfill of migration
\* 21, which sets all pointers from the labels, does not run again once a server may have
\* promoted something, unless two programs boot together.
BackfillSparesPromotions ==
    [][db'.pointer # db.pointer =>
         \/ \E p \in Servers : prog[p].at = "serving" /\ moves' # moves
         \/ overlapped \/ <<21, "js">> \notin ledger]_bootVars

\* Every server listens in the end, also when several boot together on PostgreSQL and trip
\* over each other, unless a crash cut a migration that cannot be repeated.
BootsInTheEnd ==
    \/ \A p \in Servers : <>[](prog[p].at = "serving")
    \/ <>(cut \intersect Once # {} \/ (overlapped /\ backend = "sqlite"))

\* The installation from source (README.md, Option C) creates the database with the
\* source build and then starts the compiled server, which finds it initialised.
SourceInstallServes ==
    \A p \in Servers : prog[p].at = "failed" => crashes > 0 \/ overlapped
=============================================================================
