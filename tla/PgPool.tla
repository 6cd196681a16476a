-------------------------------- MODULE PgPool --------------------------------
(***************************************************************************)
(* The PostgreSQL adapter's connection pool, as the service calls share it.*)
(*                                                                         *)
(* PostgresAdapter.transaction takes a client of the pool and keeps it     *)
(* until COMMIT or ROLLBACK, and hands its callback an adapter bound to    *)
(* that client.  The services ignore this adapter: createPrompt,           *)
(* createDataset, promoteWinner and the rate limiter prepare their         *)
(* statements with the outer adapter, whose statements (and a driver's     *)
(* withTransaction within createPrompt) each take a second client, for     *)
(* which they wait without a timeout while the first one is held.          *)
(*                                                                         *)
(* A statement and a driver's transaction look alike here: a client is     *)
(* taken and given back.  An INSERT repeated without RETURNING counts as   *)
(* two statements.                                                         *)
(***************************************************************************)
EXTENDS Naturals, Sequences, FiniteSets

CONSTANTS
    Calls,          \* calls of services and jobs that run concurrently
    Clients,        \* the pool's clients (10: Pool is given no max)
    MaxStatements,  \* bound: statements of a call
    None

ASSUME PoolAssumption ==
    /\ IsFiniteSet(Clients) /\ Clients # {}
    /\ MaxStatements \in Nat \ {0}
    /\ None \notin Clients

VARIABLES
    kind,    \* how a call uses the adapter
    pc,
    left,    \* statements the call has still to run
    tx,      \* the client its transaction holds
    lent,    \* the client the statement under way holds
    queue,   \* calls waiting for a client, first come first served
    ending   \* close() was called

vars == <<kind, pc, left, tx, lent, queue, ending>>

\* Statements without a transaction; a transaction whose statements go to the pool;
\* a transaction whose statements use the adapter they are given.
Kinds == {"plain", "service", "adapter"}

\* connect and wait: waiting for the client of the transaction, of a statement;
\* query: a statement is under way; run: between statements; end: COMMIT or ROLLBACK is.
Steps == {"idle", "connect", "wait", "query", "run", "end"}

TypeOK ==
    /\ kind \in [Calls -> Kinds]
    /\ pc \in [Calls -> Steps]
    /\ left \in [Calls -> 0..MaxStatements]
    /\ tx \in [Calls -> Clients \union {None}]
    /\ lent \in [Calls -> Clients \union {None}]
    /\ queue \in Seq(Calls)
    /\ ending \in BOOLEAN

Init ==
    /\ kind = [c \in Calls |-> "plain"]
    /\ pc = [c \in Calls |-> "idle"]
    /\ left = [c \in Calls |-> 0]
    /\ tx = [c \in Calls |-> None]
    /\ lent = [c \in Calls |-> None]
    /\ queue = <<>>
    /\ ending = FALSE

Held == {tx[c] : c \in Calls} \union {lent[c] : c \in Calls}
Free == Clients \ Held

Goto(c, step) == pc' = [pc EXCEPT ![c] = step]

-----------------------------------------------------------------------------
\* A service call begins: with pool.connect() for its transaction, or with its first
\* pool.query().  A pool that is ending rejects both.
Begin(c, k) ==
    /\ pc[c] = "idle" /\ ~ending
    /\ kind' = [kind EXCEPT ![c] = k]
    /\ \E n \in 1..MaxStatements : left' = [left EXCEPT ![c] = n]
    /\ Goto(c, IF k = "plain" THEN "wait" ELSE "connect")
    /\ queue' = Append(queue, c)
    /\ UNCHANGED <<tx, lent, ending>>

\* The pool gives a free client to the call that has waited longest.
Grant ==
    /\ queue # <<>> /\ ~ending
    /\ queue' = Tail(queue)
    /\ LET c == Head(queue) IN \E client \in Free :
          IF pc[c] = "connect"
          THEN tx' = [tx EXCEPT ![c] = client] /\ Goto(c, "run") /\ UNCHANGED lent
          ELSE lent' = [lent EXCEPT ![c] = client] /\ Goto(c, "query") /\ UNCHANGED tx
    /\ UNCHANGED <<kind, left, ending>>

\* Mutant: the transaction's adapter runs its statements on the pool.
QueryOnPool(c) ==
    /\ pc[c] = "run" /\ left[c] > 0 /\ ~ending
    /\ Goto(c, "wait") /\ queue' = Append(queue, c)
    /\ UNCHANGED <<kind, left, tx, lent, ending>>

\* The next statement: on the transaction's client through the adapter that was handed
\* over, on another client of the pool through the one from getDb().
Query(c) ==
    /\ pc[c] = "run" /\ left[c] > 0
    /\ IF kind[c] = "adapter"
       THEN Goto(c, "query") /\ UNCHANGED queue
       ELSE ~ending /\ Goto(c, "wait") /\ queue' = Append(queue, c)
    /\ UNCHANGED <<kind, left, tx, lent, ending>>

Answered(c) ==
    /\ pc[c] = "query"
    /\ lent' = [lent EXCEPT ![c] = None]
    /\ left' = [left EXCEPT ![c] = @ - 1]
    /\ Goto(c, "run")
    /\ UNCHANGED <<kind, tx, queue, ending>>

\* Mutant: an exception leaves the transaction without its ROLLBACK and release.
HandlerForgets(c) == "idle"

\* Where a call goes on from an exception: to its transaction's ROLLBACK, if it has one.
Handler(c) == IF tx[c] = None THEN "idle" ELSE "end"

\* A statement fails, the service refuses or the driver throws; a statement on a pool
\* that is ending throws at once.
Throws(c) ==
    /\ pc[c] \in {"run", "query"}
    /\ lent' = [lent EXCEPT ![c] = None]
    /\ Goto(c, Handler(c))
    /\ UNCHANGED <<kind, left, tx, queue, ending>>

\* The pool cannot open a connection: the call that has waited longest gets the error.
ConnectFails ==
    /\ queue # <<>> /\ ~ending /\ Free # {}
    /\ queue' = Tail(queue)
    /\ Goto(Head(queue), Handler(Head(queue)))
    /\ UNCHANGED <<kind, left, tx, lent, ending>>

Finish(c) ==
    /\ pc[c] = "run" /\ left[c] = 0
    /\ Goto(c, Handler(c))
    /\ UNCHANGED <<kind, left, tx, lent, queue, ending>>

\* Mutant: the client is not released.
ReleaseForgets(c) ==
    /\ pc[c] = "end"
    /\ Goto(c, "idle")
    /\ UNCHANGED <<kind, left, tx, lent, queue, ending>>

\* COMMIT or ROLLBACK has been answered, or has failed; finally the client is released.
Release(c) ==
    /\ pc[c] = "end"
    /\ tx' = [tx EXCEPT ![c] = None]
    /\ Goto(c, "idle")
    /\ UNCHANGED <<kind, left, lent, queue, ending>>

\* close(), once: pool.end() serves nobody who is waiting.
Close ==
    /\ ~ending /\ ending' = TRUE
    /\ UNCHANGED <<kind, pc, left, tx, lent, queue>>

Proceed(c) == Query(c) \/ Answered(c) \/ Finish(c) \/ Release(c)

Next ==
    \/ Grant \/ ConnectFails \/ Close
    \/ \E c \in Calls : (\E k \in Kinds : Begin(c, k)) \/ Throws(c) \/ Proceed(c)

Spec == Init /\ [][Next]_vars

\* The pool serves its queue, the database answers, and continuations run.
FairSpec ==
    /\ Spec
    /\ WF_vars(Grant)
    /\ \A c \in Calls : WF_vars(Proceed(c))

-----------------------------------------------------------------------------
(* Properties.                                                             *)

\* Whatever failed on the way, a call that is over holds no client, and no client is
\* with two calls, or with one call twice.
ClientsComeBack ==
    /\ \A c \in Calls :
          /\ pc[c] \in {"idle", "connect"} => tx[c] = None
          /\ pc[c] # "query" => lent[c] = None
          /\ tx[c] # None => tx[c] # lent[c]
    /\ \A c, d \in Calls :
          c # d => {tx[c], lent[c]} \intersect {tx[d], lent[d]} \subseteq {None}

\* Transactions that will wait for a second client, or do already.
Holding(c) == kind[c] = "service" /\ tx[c] # None

\* Nobody can go on: whoever is not idle waits for a client, and none is free.
Stuck ==
    /\ queue # <<>> /\ Free = {}
    /\ \A c \in Calls : pc[c] \in {"idle", "connect", "wait"}

\* The pool blocks for ever in one way only: every client is held by a transaction of a
\* service that waits for another one.  One transaction less, or services that use the
\* adapter they are given, and it cannot.
StuckNeedsAllClients ==
    Stuck => \A client \in Clients :
                \E c \in Calls : tx[c] = client /\ Holding(c) /\ pc[c] = "wait"

\* As long as fewer of these transactions are open than the pool has clients, and the
\* pool is not closed, every call ends, however many there are.
Spare == ~ending /\ Cardinality({c \in Calls : Holding(c)}) < Cardinality(Clients)
CallsEnd == []Spare => \A c \in Calls : pc[c] # "idle" ~> pc[c] = "idle"
=============================================================================
