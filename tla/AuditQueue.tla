----------------------------- MODULE AuditQueue -----------------------------
(***************************************************************************)
(* AuditLogService and the graceful shutdown that drains it.               *)
(*                                                                         *)
(* Responses that finish with 2xx enqueue an entry in a memory buffer; a   *)
(* 5 s timer, a full buffer and the shutdown sequence each start a flush,  *)
(* which takes the whole buffer as its batch and inserts it entry by       *)
(* entry.  A failed insert puts the entry back at the head of the buffer,  *)
(* so flush() itself does not fail and the retry and drop branch of        *)
(* flushWithRetry is never taken while the database handle exists:         *)
(* droppedCount stays 0 and has no variable here.                          *)
(*                                                                         *)
(* On SQLite an insert is synchronous: a flush that has started, and the   *)
(* shutdown steps after it, run to completion before any other callback.   *)
(* On PostgreSQL every insert awaits the network.  `turn' is the flush     *)
(* whose chain is still running.                                           *)
(*                                                                         *)
(* SQLite has one connection for all: an insert joins the transaction that *)
(* another handler has open on it and is undone when that one rolls back.  *)
(* A flush meets two of them.  createPrompt, with a driver that waits for  *)
(* the network (the database is then "shared"), leaves its transaction     *)
(* open for other callbacks and always rolls it back, because the driver's *)
(* own BEGIN fails inside it; with the local driver it is one chain.       *)
(* promoteWinner enqueues inside its transaction, and when its entry fills *)
(* the buffer the flush starts there.  On PostgreSQL a flush has clients   *)
(* of its own.                                                             *)
(***************************************************************************)
EXTENDS Naturals, Sequences, FiniteSets

CONSTANTS
    Entries,      \* audit entries
    Flushes,      \* flush() calls of the timer or of a full buffer (bound on overlap)
    Shutdowns,    \* runs of shutdown(): SIGTERM and SIGINT each start one
    MaxBuffer,    \* maxBufferSize
    Backends,     \* the databases a deployment may have
    MaxFaults,    \* bound: failures of an insert or of a COMMIT
    Free

Runs == Flushes \union Shutdowns

ASSUME AuditAssumption ==
    /\ Backends \subseteq {"sqlite", "shared", "postgres"}
    /\ MaxBuffer \in Nat \ {0}
    /\ MaxFaults \in Nat
    /\ Flushes \intersect Shutdowns = {}
    /\ Free \notin Runs

VARIABLES
    backend,      \* the database of this deployment: chosen at start, never changed
    enqueued,     \* entries handed to enqueue() so far
    buffer,       \* AuditLogService.buffer
    batch,        \* what is left of each flush's batch, its head being inserted
    persisted,    \* rows in audit_logs for each entry
    turn,
    timerOn,      \* the flush timer is set
    phase,        \* each shutdown run
    dbOpen,       \* getDb() has a handle; it opens a new one after closeDb()
    stale,        \* flushes that hold a handle closeDb() has ended
    drain,        \* the inserts the pool.end() of each shutdown run waits for
    tx,           \* SQLite: the transaction another handler has open on the connection
    joined,       \* the entries inserted in it
    undone,       \* history: entries whose row went with such a transaction
    proc,         \* "up", "exited" after a graceful shutdown, "killed"
    faults

txVars == <<tx, joined, undone>>
vars == <<backend, enqueued, buffer, batch, persisted, turn, timerOn, phase, dbOpen,
          stale, drain, tx, joined, undone, proc, faults>>

Phase == {"none", "otel", "flush", "close"}

TypeOK ==
    /\ backend \in Backends
    /\ enqueued \in SUBSET Entries
    /\ buffer \in Seq(Entries)
    /\ batch \in [Runs -> Seq(Entries)]
    /\ persisted \in [Entries -> Nat]
    /\ turn \in Runs \union {Free}
    /\ timerOn \in BOOLEAN
    /\ phase \in [Shutdowns -> Phase]
    /\ dbOpen \in BOOLEAN
    /\ stale \in SUBSET Runs
    /\ drain \in [Shutdowns -> SUBSET Runs]
    /\ tx \in {"none", "create", "promote", "commit"}
    /\ joined \in SUBSET Entries
    /\ undone \in SUBSET Entries
    /\ proc \in {"up", "exited", "killed"}
    /\ faults \in 0..MaxFaults

Init ==
    /\ backend \in Backends
    /\ enqueued = {}
    /\ buffer = <<>>
    /\ batch = [r \in Runs |-> <<>>]
    /\ persisted = [e \in Entries |-> 0]
    /\ turn = Free
    /\ timerOn = TRUE
    /\ phase = [s \in Shutdowns |-> "none"]
    /\ dbOpen = TRUE
    /\ stale = {}
    /\ drain = [s \in Shutdowns |-> {}]
    /\ tx = "none"
    /\ joined = {}
    /\ undone = {}
    /\ proc = "up"
    /\ faults = 0

\* No chain is under way: the next callback may be any.  A promotion's transaction is
\* over before that, a creation's may be open.
Idle == proc = "up" /\ turn = Free /\ tx \in {"none", "create"}

MayRun(r) == proc = "up" /\ turn \in {Free, r}
AfterStatement(r) == IF backend = "postgres" THEN Free ELSE r

\* Mutant: slice() instead of splice(), the batch stays in the buffer.
TakeBatchCopies(r, entries) ==
    /\ batch' = [batch EXCEPT ![r] = entries]
    /\ buffer' = entries
    /\ turn' = AfterStatement(r)
    /\ dbOpen' = TRUE

\* flush(): splice(0, length), getDb(), and the first insert is under way.
TakeBatch(r, entries) ==
    /\ batch' = [batch EXCEPT ![r] = entries]
    /\ buffer' = <<>>
    /\ turn' = AfterStatement(r)
    /\ dbOpen' = TRUE

-----------------------------------------------------------------------------
(* The transactions of other handlers (SqliteAdapter.transaction).          *)

\* ROLLBACK, or the end of the connection that had the transaction open.
Undo ==
    /\ persisted' = [e \in Entries |-> IF e \in joined THEN 0 ELSE persisted[e]]
    /\ undone' = undone \union joined
    /\ joined' = {}
    /\ tx' = "none"

\* createPrompt: BEGIN, which fails while another transaction is open, and then the
\* driver's call to the network.
CreateBegins ==
    /\ backend = "shared"
    /\ Idle /\ tx = "none"
    /\ tx' = "create"
    /\ dbOpen' = TRUE
    /\ UNCHANGED <<backend, enqueued, buffer, batch, persisted, turn, timerOn, phase, stale,
                   drain, joined, undone, proc, faults>>

\* The call failed, or the driver's BEGIN did.
CreateRollsBack ==
    /\ Idle /\ tx = "create"
    /\ Undo
    /\ UNCHANGED <<backend, enqueued, buffer, batch, turn, timerOn, phase, dbOpen, stale,
                   drain, proc, faults>>

\* The COMMIT of a promotion, between the inserts of the flush it started.
PromotionCommits ==
    /\ proc = "up" /\ tx = "commit"
    /\ tx' = "none"
    /\ joined' = {}
    /\ UNCHANGED <<backend, enqueued, buffer, batch, persisted, turn, timerOn, phase, dbOpen,
                   stale, drain, undone, proc, faults>>

\* The COMMIT fails: ROLLBACK.
PromotionRollsBack ==
    /\ proc = "up" /\ tx = "commit"
    /\ faults < MaxFaults /\ faults' = faults + 1
    /\ Undo
    /\ UNCHANGED <<backend, enqueued, buffer, batch, turn, timerOn, phase, dbOpen, stale,
                   drain, proc>>

PromotionEnds == PromotionCommits \/ PromotionRollsBack

-----------------------------------------------------------------------------
\* logBuffer.length >= maxBufferSize
Full(q) == Len(q) >= MaxBuffer

\* A response finishes: push, and flush when the buffer is full.
Enqueue(e) ==
    LET pushed == Append(buffer, e) IN
    /\ Idle
    /\ e \notin enqueued
    /\ enqueued' = enqueued \union {e}
    /\ \/ /\ ~Full(pushed)
          /\ buffer' = pushed
          /\ UNCHANGED <<batch, turn, dbOpen>>
       \/ /\ Full(pushed)
          /\ \E f \in Flushes : batch[f] = <<>> /\ TakeBatch(f, pushed)
    /\ UNCHANGED <<backend, persisted, timerOn, phase, stale, drain, txVars, proc, faults>>

\* promoteWinner on SQLite: push inside its transaction, and the buffer is full.  Its
\* BEGIN has failed if another transaction was open; when the buffer does not fill, its
\* COMMIT or ROLLBACK touches no entry (Enqueue).
PromoteEnqueues(e) ==
    LET pushed == Append(buffer, e) IN
    /\ backend # "postgres"
    /\ Idle /\ tx = "none"
    /\ e \notin enqueued
    /\ enqueued' = enqueued \union {e}
    /\ Full(pushed)
    /\ \E f \in Flushes : batch[f] = <<>> /\ TakeBatch(f, pushed)
    /\ tx' = "promote"
    /\ UNCHANGED <<backend, persisted, timerOn, phase, stale, drain, joined, undone, proc,
                   faults>>

\* Mutant: the timer flushes a full buffer only.
TimerFlushWhenFull(f) ==
    /\ Idle /\ timerOn
    /\ batch[f] = <<>> /\ Full(buffer)
    /\ TakeBatch(f, buffer)
    /\ UNCHANGED <<backend, enqueued, persisted, timerOn, phase, stale, drain, txVars, proc,
                   faults>>

\* The interval timer fires.
TimerFlush(f) ==
    /\ Idle /\ timerOn
    /\ batch[f] = <<>> /\ buffer # <<>>
    /\ TakeBatch(f, buffer)
    /\ UNCHANGED <<backend, enqueued, persisted, timerOn, phase, stale, drain, txVars, proc,
                   faults>>

\* The loop goes on with the rest of the batch; after its last entry the chain of
\* a shutdown run continues past the flush.
Advance(r) ==
    /\ batch' = [batch EXCEPT ![r] = Tail(@)]
    /\ turn' = IF Tail(batch[r]) # <<>> THEN AfterStatement(r)
               ELSE IF r \in Flushes THEN Free ELSE r
    /\ stale' = IF Tail(batch[r]) = <<>> THEN stale \ {r} ELSE stale
    /\ drain' = [s \in Shutdowns |-> drain[s] \ {r}]

\* The insert was sent on a handle that accepts it: every query after pool.end()
\* is refused, those sent before are answered.
Accepted(r) == r \in stale => \E s \in Shutdowns : r \in drain[s]

\* The first insert of a promotion's flush is made in the call of enqueue(): its COMMIT
\* comes later.
PastFirstInsert == tx' = IF tx = "promote" THEN "commit" ELSE tx

\* On SQLite the row belongs to the transaction that is open, whoever began it.
Insert(r) ==
    /\ MayRun(r) /\ batch[r] # <<>>
    /\ Accepted(r)
    /\ persisted' = [persisted EXCEPT ![Head(batch[r])] = @ + 1]
    /\ joined' = IF tx = "none" THEN joined ELSE joined \union {Head(batch[r])}
    /\ PastFirstInsert
    /\ Advance(r)
    /\ UNCHANGED <<backend, enqueued, buffer, timerOn, phase, dbOpen, undone, proc, faults>>

\* Mutants: the whole batch is pushed as one entry; the buffer is replaced and what
\* was enqueued during the flush is lost.
RequeueBatch(r) == buffer' = <<batch[r]>> \o buffer
RequeueReplaces(r) == buffer' = <<Head(batch[r])>>

\* The catch branch: buffer.unshift(entry).
Requeue(r) == buffer' = <<Head(batch[r])>> \o buffer

\* The insert fails or is refused.
InsertFails(r) ==
    /\ MayRun(r) /\ batch[r] # <<>>
    /\ IF Accepted(r) THEN faults < MaxFaults /\ faults' = faults + 1
                      ELSE faults' = faults
    /\ Requeue(r)
    /\ PastFirstInsert
    /\ Advance(r)
    /\ UNCHANGED <<backend, enqueued, persisted, timerOn, phase, dbOpen, joined, undone, proc>>

\* PostgreSQL commits the insert but the connection breaks before the answer.
InsertUnconfirmed(r) ==
    /\ backend = "postgres"
    /\ MayRun(r) /\ batch[r] # <<>>
    /\ Accepted(r)
    /\ faults < MaxFaults /\ faults' = faults + 1
    /\ persisted' = [persisted EXCEPT ![Head(batch[r])] = @ + 1]
    /\ Requeue(r)
    /\ Advance(r)
    /\ UNCHANGED <<backend, enqueued, timerOn, phase, dbOpen, txVars, proc>>

-----------------------------------------------------------------------------
(* setupGracefulShutdown.  server.close() is not awaited: responses still   *)
(* finish, and enqueue, until the process exits.                            *)

\* A signal: the first cleanup job, shutdownOtel, awaits the exporter.
Signal(s) ==
    /\ Idle /\ phase[s] = "none"
    /\ phase' = [phase EXCEPT ![s] = "otel"]
    /\ UNCHANGED <<backend, enqueued, buffer, batch, persisted, turn, timerOn, dbOpen,
                   stale, drain, txVars, proc, faults>>

\* Mutant: the cleanup job does not flush.
ShutdownWithoutFlush(s) ==
    /\ Idle /\ phase[s] = "otel"
    /\ phase' = [phase EXCEPT ![s] = "flush"]
    /\ turn' = s
    /\ UNCHANGED <<backend, buffer, batch, dbOpen, enqueued, persisted, timerOn,
                   stale, drain, txVars, proc, faults>>

\* gitSyncJob.stop, reconciliationJob.stop, then await auditLogService.flush().
ShutdownFlush(s) ==
    /\ Idle /\ phase[s] = "otel"
    /\ phase' = [phase EXCEPT ![s] = "flush"]
    /\ IF buffer = <<>>
       THEN turn' = s /\ UNCHANGED <<buffer, batch, dbOpen>>
       ELSE TakeBatch(s, buffer)
    /\ UNCHANGED <<backend, enqueued, persisted, timerOn, stale, drain, txVars, proc, faults>>

\* Its own flush is over: auditLogService.stop(), then closeDb().  The pool that
\* ends waits for the inserts already sent; SQLite's close() rolls back what is open;
\* without a handle nothing is awaited.
CloseDb(s) ==
    /\ MayRun(s) /\ phase[s] = "flush" /\ batch[s] = <<>>
    /\ timerOn' = FALSE
    /\ dbOpen' = FALSE
    /\ phase' = [phase EXCEPT ![s] = "close"]
    /\ IF dbOpen
       THEN LET holders == {r \in Runs : batch[r] # <<>>} \ stale IN
            /\ stale' = stale \union holders
            /\ drain' = [drain EXCEPT ![s] = holders]
            /\ turn' = AfterStatement(s)
            /\ Undo
       ELSE turn' = s /\ UNCHANGED <<stale, drain, persisted, txVars>>
    /\ UNCHANGED <<backend, enqueued, buffer, batch, proc, faults>>

\* process.exit(0)
Exit(s) ==
    /\ MayRun(s) /\ phase[s] = "close" /\ drain[s] = {}
    /\ proc' = "exited"
    /\ turn' = Free
    /\ Undo
    /\ UNCHANGED <<backend, enqueued, buffer, batch, timerOn, phase, dbOpen, stale, drain,
                   faults>>

\* The 30 s timer of a shutdown run, or a crash: process.exit(1), SIGKILL.
Kill ==
    /\ proc = "up"
    /\ proc' = "killed"
    /\ turn' = Free
    /\ Undo
    /\ UNCHANGED <<backend, enqueued, buffer, batch, timerOn, phase, dbOpen, stale, drain,
                   faults>>

Down == proc # "up" /\ UNCHANGED vars

FlushStep(r) == Insert(r) \/ InsertFails(r) \/ InsertUnconfirmed(r)
ShutdownStep(s) == ShutdownFlush(s) \/ CloseDb(s) \/ Exit(s)

Next ==
    \/ \E e \in Entries : Enqueue(e) \/ PromoteEnqueues(e)
    \/ CreateBegins \/ CreateRollsBack \/ PromotionEnds
    \/ \E f \in Flushes : TimerFlush(f)
    \/ \E r \in Runs : FlushStep(r)
    \/ \E s \in Shutdowns : Signal(s) \/ ShutdownStep(s)
    \/ Kill
    \/ Down

Spec == Init /\ [][Next]_vars

\* The event loop keeps firing the timer, resumes a flush when its insert is answered
\* and runs a promotion's chain to its end.  Nothing forces a signal, a new entry, a
\* crash or the answer a creation waits for.
FairSpec == /\ Spec
            /\ WF_vars(\E f \in Flushes : TimerFlush(f))
            /\ \A r \in Runs : WF_vars(FlushStep(r))
            /\ WF_vars(PromotionEnds)
            /\ \A s \in Shutdowns : WF_vars(ShutdownStep(s))

-----------------------------------------------------------------------------
(* Properties.                                                             *)

Elements(q) == {q[i] : i \in 1..Len(q)}

Buffered(e) == e \in Elements(buffer)
InBatch(e)  == \E r \in Runs : e \in Elements(batch[r])

\* An entry is undone only with a transaction it joined on SQLite: the one of a creation
\* that waited for the network, or one that a failed COMMIT or the end of the process ended.
Explained ==
    undone # {} => \/ backend = "shared"
                   \/ backend = "sqlite" /\ (faults > 0 \/ proc = "killed")

\* While entries move between buffer, batches and table under overlapping flushes, failed
\* inserts and the transactions of other handlers, none vanishes, except with a rollback
\* as above (AuditLogService.flush, SqliteAdapter.transaction).
NothingVanishes ==
    /\ \A e \in enqueued : Buffered(e) \/ InBatch(e) \/ persisted[e] > 0 \/ e \in undone
    /\ Explained

\* Not so without the exception: on "shared" a timer's flush meets a creation.
NothingUndone == proc = "up" /\ faults = 0 => undone = {}

\* On SQLite no audit row is written twice and a written entry is not queued again,
\* whatever fails; a PostgreSQL insert may be repeated when its answer is lost.
ExactlyOnce ==
    backend # "postgres" => \A e \in Entries : persisted[e] > 0 =>
        persisted[e] = 1 /\ ~Buffered(e) /\ ~InBatch(e)

\* "flushes audit logs ... before exiting": after a graceful exit during which nothing
\* failed, every entry that was enqueued is in the table (docs/CODE_REVIEW.md).
Drained == proc = "exited" /\ faults = 0 => \A e \in enqueued : persisted[e] > 0

\* The shutdown keeps that promise on SQLite, where a flush is one chain; with a networked
\* driver it may lose the entries that went with a creation's transaction, those of
\* the shutdown's own flush included, and no others.
GracefulExitDrains ==
    /\ backend = "sqlite" => Drained
    /\ backend = "shared" /\ proc = "exited" /\ faults = 0 =>
          \A e \in enqueued : persisted[e] > 0 \/ e \in undone

\* An enqueued entry is written to the table unless the process goes down: failed
\* inserts are retried by later flushes.  What a rollback undoes is not retried.
EventuallyPersisted ==
    \A e \in Entries : e \in enqueued ~> persisted[e] > 0 \/ e \in undone \/ proc # "up"
=============================================================================
