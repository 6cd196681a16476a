--------------------------- MODULE PromptRegistry ---------------------------
(***************************************************************************)
(* The write path of the prompt registry: PromptService.createPrompt and   *)
(* the driver call inside it, over the database adapter, together with the *)
(* reconciliation job and process crashes.                                 *)
(*                                                                         *)
(* Two facts of the runtime decide every interleaving.                     *)
(*   - Node runs a chain of promise callbacks to completion unless the     *)
(*     chain awaits real I/O.  better-sqlite3 and the filesystem driver    *)
(*     are synchronous, so their awaits do not let anyone else in; a       *)
(*     PostgreSQL query and an S3 request do.  `turn' is the chain that    *)
(*     is still running.                                                   *)
(*   - SqliteAdapter.transaction puts BEGIN .. COMMIT on the one           *)
(*     connection that every handler shares; PostgresAdapter.transaction   *)
(*     opens a transaction on a client of its own, but createPrompt        *)
(*     prepares its statements on the pool, outside that transaction.      *)
(*                                                                         *)
(* The prompt content of a create call is the call itself.                 *)
(***************************************************************************)
EXTENDS Naturals, FiniteSets

CONSTANTS
    Creates,      \* POST /v1/prompts calls
    Keys,         \* (name, version_tag) pairs
    Workspaces,   \* X-Workspace-Id values
    DefaultWs,    \* the column default of prompts.workspace_id
    Jobs,         \* reconciliation runs that may overlap: setInterval has no guard
    Backend,      \* "sqlite" | "postgres"
    Driver,       \* "filesystem" | "s3"
    MaxMishaps,   \* bound: process crashes and failed reconciliation steps
    Free,         \* `turn' when no chain is running
    NoRow, NoContent, NoTx, NoTarget

ASSUME ConfigAssumption ==
    /\ Backend \in {"sqlite", "postgres"}
    /\ Driver \in {"filesystem", "s3"}
    /\ DefaultWs \in Workspaces
    /\ MaxMishaps \in Nat

VARIABLES
    rows,     \* prompts table as the connection sees it: key -> row
    store,    \* what driver.getPrompt(name, version) reads: key -> content
    tx,       \* SQLite: the table at the open BEGIN, or NoTx
    turn,     \* the chain that has not awaited I/O yet
    pc,       \* createPrompt: where each call stands
    target,   \* createPrompt: name@version and workspace of each call
    reply,    \* the HTTP status each call was answered with
    faulty,   \* calls that met a database or storage failure
    job,      \* reconciliation runs
    mishaps   \* crashes and failed reconciliation steps so far

vars == <<rows, store, tx, turn, pc, target, reply, faulty, job, mishaps>>

Status == {"pending", "active"}
Row(ws, status, old) == [ws |-> ws, status |-> status, old |-> old]
RowSet == [ws : Workspaces, status : Status, old : BOOLEAN]
TargetSet == [key : Keys, ws : Workspaces]

ASSUME DistinctAssumption ==
    /\ Creates \intersect Jobs = {}
    /\ Free \notin Creates \union Jobs
    /\ NoContent \notin Creates
    /\ NoRow \notin RowSet
    /\ NoTx \notin [Keys -> RowSet \union {NoRow}]

ItemSet == Keys \X Workspaces
JobSet == [pc : {"idle", "look", "apply"}, todo : SUBSET ItemSet,
           item : ItemSet \union {NoTarget}, found : BOOLEAN]
IdleJob == [pc |-> "idle", todo |-> {}, item |-> NoTarget, found |-> FALSE]
LookJob(items) == [pc |-> "look", todo |-> items, item |-> NoTarget, found |-> FALSE]

InFlight == {"select", "upsert", "write", "index", "activate", "commit"}

TypeOK ==
    /\ rows \in [Keys -> RowSet \union {NoRow}]
    /\ store \in [Keys -> Creates \union {NoContent}]
    /\ tx \in [Keys -> RowSet \union {NoRow}] \union {NoTx}
    /\ turn \in Creates \union Jobs \union {Free}
    /\ pc \in [Creates -> InFlight \union {"idle", "done"}]
    /\ target \in [Creates -> TargetSet \union {NoTarget}]
    /\ \A c \in Creates : pc[c] # "idle" => target[c] \in TargetSet
    /\ reply \in [Creates -> {"none", "201", "400", "500", "lost"}]
    /\ faulty \in SUBSET Creates
    /\ job \in [Jobs -> JobSet]
    /\ \A j \in Jobs : job[j].pc = "apply" => job[j].item \in ItemSet
    /\ mishaps \in 0..MaxMishaps

Init ==
    /\ rows = [k \in Keys |-> NoRow]
    /\ store = [k \in Keys |-> NoContent]
    /\ tx = NoTx
    /\ turn = Free
    /\ pc = [c \in Creates |-> "idle"]
    /\ target = [c \in Creates |-> NoTarget]
    /\ reply = [c \in Creates |-> "none"]
    /\ faulty = {}
    /\ job = [j \in Jobs |-> IdleJob]
    /\ mishaps = 0

-----------------------------------------------------------------------------
(* Scheduling and transactions.                                            *)

MayRun(p) == turn \in {Free, p}

\* Mutant: an asynchronous SQLite binding.
AfterStatementYields(p) == Free

\* Awaiting a statement lets other chains run only if it crosses the network;
\* so does awaiting the driver.
AfterStatement(p) == IF Backend = "postgres" THEN Free ELSE p
AfterDriver(p)    == IF Driver = "s3" THEN Free ELSE p

\* What a rollback, a crash or another connection sees of the table.
CommittedRows == IF tx = NoTx THEN rows ELSE tx

IsActive(k)  == rows[k] # NoRow /\ rows[k].status = "active"
Activated(k) == Row(rows[k].ws, "active", rows[k].old)
IsPending(k) == rows[k] # NoRow /\ rows[k].status = "pending"

At(c, label) == pc[c] = label /\ MayRun(c)
Goto(c, label) == pc' = [pc EXCEPT ![c] = label]
Answer(c, code) == reply' = [reply EXCEPT ![c] = code]

\* transaction(): the callback threw.  On SQLite the whole connection goes back
\* to the state at BEGIN; on PostgreSQL, where tx stays NoTx, the ROLLBACK of the
\* transaction's idle client undoes nothing.
Rollback(c, code) ==
    /\ rows' = CommittedRows
    /\ tx' = NoTx
    /\ Goto(c, "done")
    /\ Answer(c, code)
    /\ turn' = Free

-----------------------------------------------------------------------------
(* createPrompt                                                            *)

\* db.transaction(...): exec('BEGIN') on SQLite raises inside an open
\* transaction, before the try block that would roll back.
Begin(c, k, ws) ==
    /\ At(c, "idle")
    /\ target' = [target EXCEPT ![c] = [key |-> k, ws |-> ws]]
    /\ \/ /\ Backend = "sqlite" /\ tx # NoTx
          /\ Goto(c, "done") /\ Answer(c, "500")
          /\ UNCHANGED <<tx, turn>>
       \/ /\ ~(Backend = "sqlite" /\ tx # NoTx)
          /\ tx' = IF Backend = "sqlite" THEN rows ELSE NoTx
          /\ Goto(c, "select")
          /\ turn' = AfterStatement(c)
          /\ UNCHANGED reply
    /\ UNCHANGED <<rows, store, faulty, job, mishaps>>

\* Mutant: no duplicate check.
SelectExistingUnchecked(c) ==
    /\ At(c, "select")
    /\ Goto(c, "upsert") /\ turn' = AfterStatement(c)
    /\ UNCHANGED <<rows, tx, reply, store, target, faulty, job, mishaps>>

\* The duplicate check: an active row of this workspace answers 400.
SelectExisting(c) ==
    LET t == target[c] IN
    /\ At(c, "select")
    /\ IF IsActive(t.key) /\ rows[t.key].ws = t.ws
       THEN Rollback(c, "400")
       ELSE /\ Goto(c, "upsert")
            /\ turn' = AfterStatement(c)
            /\ UNCHANGED <<rows, tx, reply>>
    /\ UNCHANGED <<store, target, faulty, job, mishaps>>

\* Step 1: INSERT .. ON CONFLICT(name, version_tag) DO UPDATE.  The conflict
\* target has no workspace: the row of another workspace is taken over.
UpsertPending(c) ==
    LET t == target[c] IN
    /\ At(c, "upsert")
    /\ rows' = [rows EXCEPT ![t.key] = Row(t.ws, "pending", FALSE)]
    /\ Goto(c, "write")
    /\ turn' = AfterStatement(c)
    /\ UNCHANGED <<store, tx, target, reply, faulty, job, mishaps>>

\* Step 2, the content: writeFileSync, or an S3 PUT that succeeded.
DriverWrites(c) ==
    /\ At(c, "write")
    /\ store' = [store EXCEPT ![target[c].key] = c]
    /\ Goto(c, IF Driver = "s3" THEN "index" ELSE "activate")
    /\ turn' = AfterDriver(c)
    /\ UNCHANGED <<rows, tx, target, reply, faulty, job, mishaps>>

\* What an interrupted content write leaves under its key: the object may have
\* been stored although the call reported an error; a file may be truncated,
\* which getPrompt reads as no prompt.
Leftovers(c) == {store[target[c].key], c}
                  \union (IF Driver = "s3" THEN {} ELSE {NoContent})

\* The calls whose content write for key k is under way.
Writing(k) == {c \in Creates : pc[c] = "write" /\ target[c].key = k}

\* Step 2 fails.
DriverFails(c) ==
    /\ At(c, "write")
    /\ \E left \in Leftovers(c) : store' = [store EXCEPT ![target[c].key] = left]
    /\ Rollback(c, "500")
    /\ faulty' = faulty \union {c}
    /\ UNCHANGED <<target, job, mishaps>>

\* Step 2, the driver's own index write, in a transaction of its own
\* (withTransaction).  On SQLite that BEGIN is nested and raises; on PostgreSQL
\* the upsert keeps status and workspace of an existing row and takes the column
\* defaults when the row is gone.
DriverIndexes(c) ==
    LET k == target[c].key IN
    /\ At(c, "index")
    /\ IF Backend = "sqlite"
       THEN Rollback(c, "500")
       ELSE /\ rows' = [rows EXCEPT ![k] =
                  IF rows[k] = NoRow THEN Row(DefaultWs, "active", FALSE)
                                     ELSE Row(rows[k].ws, rows[k].status, FALSE)]
            /\ Goto(c, "activate")
            /\ turn' = Free
            /\ UNCHANGED <<tx, reply>>
    /\ UNCHANGED <<store, target, faulty, job, mishaps>>

\* Step 3: UPDATE .. SET status = 'active' WHERE name, version_tag.
Activate(c) ==
    LET k == target[c].key IN
    /\ At(c, "activate")
    /\ rows' = IF rows[k] = NoRow THEN rows
               ELSE [rows EXCEPT ![k] = Activated(k)]
    /\ Goto(c, "commit")
    /\ turn' = AfterStatement(c)
    /\ UNCHANGED <<store, tx, target, reply, faulty, job, mishaps>>

Commit(c) ==
    /\ At(c, "commit")
    /\ tx' = NoTx
    /\ Goto(c, "done")
    /\ Answer(c, "201")
    /\ turn' = Free
    /\ UNCHANGED <<rows, store, target, faulty, job, mishaps>>

\* Any statement of the transaction may fail (disk full, connection lost).
StatementFails(c) ==
    /\ MayRun(c)
    /\ pc[c] \in {"select", "upsert", "index", "activate", "commit"}
    /\ Rollback(c, "500")
    /\ faulty' = faulty \union {c}
    /\ UNCHANGED <<store, target, job, mishaps>>

-----------------------------------------------------------------------------
(* PromptReconciliationJob.runReconcile                                    *)

\* More than 120 seconds pass since created_at.
RowAges(k) ==
    /\ turn = Free
    /\ IsPending(k) /\ ~rows[k].old
    /\ rows' = [rows EXCEPT ![k] = Row(rows[k].ws, "pending", TRUE)]
    /\ UNCHANGED <<store, tx, turn, pc, target, reply, faulty, job, mishaps>>

\* Mutant: the run looks at the default workspace only.
StalePendingDefaultWs == {i \in Keys \X {DefaultWs} :
    IsPending(i[1]) /\ rows[i[1]].old /\ rows[i[1]].ws = i[2]}

StalePending == {i \in ItemSet : /\ IsPending(i[1])
                                 /\ rows[i[1]].old /\ rows[i[1]].ws = i[2]}

\* SELECT .. WHERE status = 'pending' AND created_at < cutoff.
JobReads(j) ==
    /\ MayRun(j) /\ job[j].pc = "idle"
    /\ StalePending # {}
    /\ job' = [job EXCEPT ![j] = LookJob(StalePending)]
    /\ turn' = AfterStatement(j)
    /\ UNCHANGED <<rows, store, tx, pc, target, reply, faulty, mishaps>>

\* driver.getPrompt for the next row.  The S3 driver answers undefined on any
\* error, so a stored object may look missing.
JobLooks(j) ==
    /\ MayRun(j) /\ job[j].pc = "look"
    /\ \E i \in job[j].todo :
         \E found \in {store[i[1]] # NoContent}
                      \union (IF Driver = "s3" THEN {FALSE} ELSE {}) :
            job' = [job EXCEPT ![j] = [pc |-> "apply", todo |-> @.todo \ {i},
                                       item |-> i, found |-> found]]
    /\ turn' = AfterDriver(j)
    /\ UNCHANGED <<rows, store, tx, pc, target, reply, faulty, mishaps>>

NextItem(j) == IF job[j].todo = {} THEN IdleJob ELSE LookJob(job[j].todo)

\* Mutant: the answer of getPrompt is not looked at.
JobAppliesBlindly(j) ==
    LET k == job[j].item[1] IN
    /\ MayRun(j) /\ job[j].pc = "apply"
    /\ rows' = IF rows[k] = NoRow \/ rows[k].ws # job[j].item[2] THEN rows
               ELSE [rows EXCEPT ![k] = Activated(k)]
    /\ job' = [job EXCEPT ![j] = NextItem(j)]
    /\ turn' = IF job[j].todo = {} THEN Free ELSE AfterStatement(j)
    /\ UNCHANGED <<store, tx, pc, target, reply, faulty, mishaps>>

\* UPDATE to active, or DELETE: both WHERE name, version_tag and workspace_id,
\* neither looks at the status again.
JobApplies(j) ==
    LET k == job[j].item[1] IN
    /\ MayRun(j) /\ job[j].pc = "apply"
    /\ rows' = IF rows[k] = NoRow \/ rows[k].ws # job[j].item[2] THEN rows
               ELSE IF job[j].found THEN [rows EXCEPT ![k] = Activated(k)]
               ELSE [rows EXCEPT ![k] = NoRow]
    /\ job' = [job EXCEPT ![j] = NextItem(j)]
    /\ turn' = IF job[j].todo = {} THEN Free ELSE AfterStatement(j)
    /\ UNCHANGED <<store, tx, pc, target, reply, faulty, mishaps>>

\* A look-up or a statement of the run throws: the row is left for the next run.
JobSkips(j) ==
    /\ MayRun(j) /\ job[j].pc = "apply"
    /\ mishaps < MaxMishaps
    /\ mishaps' = mishaps + 1
    /\ job' = [job EXCEPT ![j] = NextItem(j)]
    /\ turn' = IF job[j].todo = {} THEN Free ELSE AfterStatement(j)
    /\ UNCHANGED <<rows, store, tx, pc, target, reply, faulty>>

-----------------------------------------------------------------------------
\* The process dies and starts again: SQLite discards the open transaction, every
\* call in flight is cut off, and a content write under way leaves what it leaves.
Crash ==
    /\ mishaps < MaxMishaps
    /\ mishaps' = mishaps + 1
    /\ rows' = CommittedRows
    /\ tx' = NoTx
    /\ \E left \in [Keys -> Creates \union {NoContent}] :
          /\ \A k \in Keys : left[k] \in {store[k]} \union UNION {Leftovers(c) : c \in Writing(k)}
          /\ store' = left
    /\ turn' = Free
    /\ pc' = [c \in Creates |-> IF pc[c] \in InFlight THEN "done" ELSE pc[c]]
    /\ reply' = [c \in Creates |-> IF pc[c] \in InFlight THEN "lost" ELSE reply[c]]
    /\ job' = [j \in Jobs |-> IdleJob]
    /\ UNCHANGED <<target, faulty>>

\* A create call after its arrival: it proceeds on its own.
Proceed(c) ==
    \/ SelectExisting(c) \/ UpsertPending(c)
    \/ DriverWrites(c) \/ DriverFails(c) \/ DriverIndexes(c)
    \/ Activate(c) \/ Commit(c) \/ StatementFails(c)

Reconcile(j) == JobReads(j) \/ JobLooks(j) \/ JobApplies(j) \/ JobSkips(j)

AllAnswered == /\ turn = Free
               /\ \A c \in Creates : pc[c] = "done"
               /\ UNCHANGED vars

Next ==
    \/ \E c \in Creates, k \in Keys, ws \in Workspaces : Begin(c, k, ws)
    \/ \E c \in Creates : Proceed(c)
    \/ \E j \in Jobs : Reconcile(j)
    \/ \E k \in Keys : RowAges(k)
    \/ Crash
    \/ AllAnswered

Spec == Init /\ [][Next]_vars

\* A chain that has started is resumed when its I/O answers; setInterval starts
\* the reconciliation run again and again; time passes.
FairSpec == /\ Spec
            /\ \A c \in Creates : WF_vars(Proceed(c))
            /\ \A j \in Jobs : WF_vars(Reconcile(j))
            /\ \A k \in Keys : WF_vars(RowAges(k))

-----------------------------------------------------------------------------
(* Properties.                                                             *)

\* A version that clients can see has content in the driver's store: a row is
\* never active without what it names (createPrompt activates after the driver
\* wrote; reconciliation promotes only what getPrompt found).
ActiveHasContent == \A k \in Keys : IsActive(k) => store[k] # NoContent

\* A pending row belongs to a create call that is still running: a failed or
\* interrupted write is rolled back, not orphaned (prompt.service.ts:169-170).
PendingIsOwned ==
    \A k \in Keys : IsPending(k) =>
        \E c \in Creates : pc[c] \in InFlight /\ target[c].key = k

Writers == {c \in Creates : pc[c] \in {"write", "index", "activate", "commit"}}

\* "only one request can own a given name+version at a time": between the pending
\* row and the answer no two calls work on one key
\* (promptmetrics-filesystem-driver.ts:88-91).
OneOwner == \A c, d \in Writers : target[c].key = target[d].key => c = d

\* A call answered 201 is served for good: its row stays active in its workspace
\* and its content is never replaced, whatever the other calls, the job and
\* crashes do.
AckedIsServed ==
    \A c \in Creates : reply[c] = "201" =>
        LET t == target[c] IN
        IsActive(t.key) /\ rows[t.key].ws = t.ws /\ store[t.key] = c

\* A create call is answered 500 only when its storage or its database failed;
\* two calls that overlap do not make each other fail.
FailsOnlyOnFault == \A c \in Creates : reply[c] = "500" => c \in faulty

\* Every pending row is healed: activated or removed.
PendingHeals == \A k \in Keys : IsPending(k) ~> ~IsPending(k)

\* What clients see: the content of the committed active rows.
Published == [k \in Keys |->
    IF CommittedRows[k] # NoRow /\ CommittedRows[k].status = "active"
    THEN store[k] ELSE NoContent]

Abstract == INSTANCE VersionStore WITH published <- Published
RefinesVersionStore == Abstract!Spec
=============================================================================
