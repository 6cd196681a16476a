-------------------------- MODULE Database_proofs --------------------------
(***************************************************************************)
(* The database: PgPool, for any number of calls, clients and statements,  *)
(* and Boot, for any number of programs, builds and crashes and both       *)
(* databases.                                                              *)
(*                                                                         *)
(* PgPool.  The invariant adds to the properties who waits in the queue:   *)
(* each waiting call once and nobody else, so that a client is never given *)
(* to a call that has gone on; and which kinds of call reach which step,   *)
(* so that a call that waits for a statement while it holds a client is a  *)
(* transaction of a service.                                               *)
(*                                                                         *)
(* Boot.  What the twenty-five scripts contain is established once, for    *)
(* each database: which statements a migration may have (Fits), that each  *)
(* part of a rebuild follows the part before it (InTurn), and what a       *)
(* statement and a unit do to a database (Grows, Added).  Nothing below    *)
(* that looks into a script again.  Outcomes folds a unit's statements;    *)
(* what it yields for every unit is shown by the least counterexample of   *)
(* an interval (Ascends), not by an induction theorem.  Three invariants   *)
(* build on that: RowInv, where the rows of a rebuilt table are and who    *)
(* moves them; LedgerInv, what is pending and recorded while no two        *)
(* programs migrate at once; AppliedInv, that what a recorded migration,   *)
(* or a program that is past a unit, has given the schema is still there.  *)
(***************************************************************************)
EXTENDS PgPool, Boot, FiniteSetTheorems, WellFoundedInduction, TLAPS

-----------------------------------------------------------------------------
(* PgPool.                                                                 *)

QueueWaits ==
    /\ \A i \in 1..Len(queue) : pc[queue[i]] \in {"connect", "wait"}
    /\ \A i, j \in 1..Len(queue) : i # j => queue[i] # queue[j]

KindsAt(c) ==
    /\ kind[c] = "plain" => tx[c] = None
    /\ kind[c] = "adapter" => pc[c] # "wait"
    /\ pc[c] \in {"wait", "query"} => left[c] > 0
    /\ pc[c] = "connect" => kind[c] # "plain"

HoldsAt(c) ==
    /\ pc[c] \in {"idle", "connect"} => tx[c] = None
    /\ pc[c] # "query" => lent[c] = None
    /\ tx[c] # None => tx[c] # lent[c]

Apart(c, d) ==
    /\ tx[c] # None => tx[c] # tx[d] /\ tx[c] # lent[d]
    /\ lent[c] # None => lent[c] # lent[d]

IInv ==
    /\ TypeOK
    /\ QueueWaits
    /\ \A c \in Calls : KindsAt(c) /\ HoldsAt(c)
    /\ \A c, d \in Calls : c # d => Apart(c, d)

\* What a call leaves alone when a step is another call's, or touches nothing of it.
LEMMA AppendQueue ==
    ASSUME NEW c \in Calls, IInv, pc[c] \notin {"connect", "wait"},
           queue' = Append(queue, c), pc' \in [Calls -> Steps],
           pc'[c] \in {"connect", "wait"}, \A d \in Calls \ {c} : pc'[d] = pc[d]
    PROVE  queue' \in Seq(Calls) /\ QueueWaits'
<1>1. queue \in Seq(Calls) /\ Len(queue) \in Nat
  BY DEF IInv, TypeOK
<1>2. queue' \in Seq(Calls) /\ Len(queue') = Len(queue) + 1
  BY <1>1
<1>3. \A i \in 1..Len(queue) : queue'[i] = queue[i] /\ queue[i] \in Calls /\ queue[i] # c
  BY <1>1 DEF IInv, QueueWaits
<1>4. queue'[Len(queue) + 1] = c
  BY <1>1
<1>5. ASSUME NEW i \in 1..Len(queue') PROVE pc'[queue'[i]] \in {"connect", "wait"}
  <2>1. i \in 1..Len(queue) \/ i = Len(queue) + 1
    BY <1>1, <1>2
  <2> QED BY <2>1, <1>3, <1>4 DEF IInv, QueueWaits
<1>6. ASSUME NEW i \in 1..Len(queue'), NEW j \in 1..Len(queue'), i # j
      PROVE  queue'[i] # queue'[j]
  <2>1. /\ i \in 1..Len(queue) \/ i = Len(queue) + 1
        /\ j \in 1..Len(queue) \/ j = Len(queue) + 1
    BY <1>1, <1>2
  <2> QED BY <2>1, <1>3, <1>4, <1>6 DEF IInv, QueueWaits
<1> QED BY <1>2, <1>5, <1>6 DEF QueueWaits

LEMMA TailQueue ==
    ASSUME IInv, queue # <<>>, queue' = Tail(queue),
           \A d \in Calls \ {Head(queue)} : pc'[d] = pc[d]
    PROVE  /\ Head(queue) \in Calls /\ pc[Head(queue)] \in {"connect", "wait"}
           /\ queue' \in Seq(Calls) /\ QueueWaits'
<1>1. queue \in Seq(Calls) /\ Len(queue) \in Nat /\ Len(queue) > 0 /\ Head(queue) = queue[1]
  BY DEF IInv, TypeOK
<1>2. queue' \in Seq(Calls) /\ Len(queue') = Len(queue) - 1
  BY <1>1
<1>3. \A i \in 1..Len(queue') : queue'[i] = queue[i + 1] /\ i + 1 \in 1..Len(queue) /\ i + 1 # 1
  BY <1>1, <1>2
<1>4. Head(queue) \in Calls /\ pc[Head(queue)] \in {"connect", "wait"}
  BY <1>1 DEF IInv, QueueWaits
<1>5. ASSUME NEW i \in 1..Len(queue') PROVE pc'[queue'[i]] \in {"connect", "wait"}
  <2>1. queue[i + 1] \in Calls \ {Head(queue)} /\ pc[queue[i + 1]] \in {"connect", "wait"}
    BY <1>1, <1>3 DEF IInv, QueueWaits
  <2> QED BY <2>1, <1>3
<1>6. ASSUME NEW i \in 1..Len(queue'), NEW j \in 1..Len(queue'), i # j
      PROVE  queue'[i] # queue'[j]
  <2>1. i + 1 # j + 1
    BY <1>6
  <2> QED BY <2>1, <1>3 DEF IInv, QueueWaits
<1> QED BY <1>2, <1>4, <1>5, <1>6 DEF QueueWaits

\* A step of a call outside the queue that stays outside it.
LEMMA SameQueue ==
    ASSUME NEW c \in Calls, IInv, pc[c] \notin {"connect", "wait"}, queue' = queue,
           \A d \in Calls \ {c} : pc'[d] = pc[d]
    PROVE  queue' \in Seq(Calls) /\ QueueWaits'
<1>1. queue \in Seq(Calls)
  BY DEF IInv, TypeOK
<1>2. \A i \in 1..Len(queue) : queue[i] \in Calls \ {c}
  BY <1>1 DEF IInv, QueueWaits
<1> QED BY <1>1, <1>2 DEF IInv, QueueWaits

\* What Grant and ConnectFails rely on: a free client is with nobody.
LEMMA FreeIsFree ==
    ASSUME NEW client \in Free
    PROVE  client \in Clients /\ \A c \in Calls : tx[c] # client /\ lent[c] # client
  BY DEF Free, Held

LEMMA InitInvariant == Init => IInv
<1> SUFFICES ASSUME Init PROVE IInv
  OBVIOUS
<1>1. TypeOK
  <2>1. left \in [Calls -> 0..MaxStatements]
    BY PoolAssumption DEF Init
  <2>2. queue \in Seq(Calls)
    BY DEF Init
  <2> QED BY <2>1, <2>2 DEF Init, TypeOK, Kinds, Steps
<1>2. QueueWaits
  <2>1. 1..Len(queue) = {}
    BY DEF Init
  <2> QED BY <2>1 DEF QueueWaits
<1> QED BY <1>1, <1>2 DEF Init, IInv, KindsAt, HoldsAt, Apart

LEMMA StepInvariant == IInv /\ [Next]_vars => IInv'
<1> SUFFICES ASSUME IInv, [Next]_vars PROVE IInv'
  OBVIOUS
<1> USE PoolAssumption
<1>1. ASSUME NEW c \in Calls, NEW k \in Kinds, Begin(c, k) PROVE IInv'
  <2>1. TypeOK' /\ QueueWaits'
    <3>1. kind' \in [Calls -> Kinds] /\ pc' \in [Calls -> Steps] /\ left' \in [Calls -> 0..MaxStatements]
      BY <1>1 DEF IInv, TypeOK, Begin, Goto, Steps
    <3>2. pc'[c] \in {"connect", "wait"} /\ \A d \in Calls \ {c} : pc'[d] = pc[d]
      BY <1>1 DEF IInv, TypeOK, Begin, Goto
    <3>3. queue' \in Seq(Calls) /\ QueueWaits'
      BY <1>1, <3>1, <3>2, AppendQueue DEF Begin
    <3> QED BY <1>1, <3>1, <3>3 DEF IInv, TypeOK, Begin
  <2>2. \A d \in Calls : KindsAt(d)' /\ HoldsAt(d)'
    BY <1>1 DEF IInv, TypeOK, KindsAt, HoldsAt, Begin, Goto, Kinds
  <2>3. \A d, e \in Calls : d # e => Apart(d, e)'
    BY <1>1 DEF IInv, Apart, Begin
  <2> QED BY <2>1, <2>2, <2>3 DEF IInv
<1>2. ASSUME Grant PROVE IInv'
  <2> DEFINE c == Head(queue)
  <2>1. PICK client \in Free :
           IF pc[c] = "connect"
           THEN tx' = [tx EXCEPT ![c] = client] /\ Goto(c, "run") /\ UNCHANGED lent
           ELSE lent' = [lent EXCEPT ![c] = client] /\ Goto(c, "query") /\ UNCHANGED tx
    BY <1>2 DEF Grant
  <2>2. client \in Clients /\ client # None /\ \A d \in Calls : tx[d] # client /\ lent[d] # client
    BY FreeIsFree
  <2>3. c \in Calls /\ pc[c] \in {"connect", "wait"} /\ queue' \in Seq(Calls) /\ QueueWaits'
    BY <1>2, <2>1, TailQueue DEF Grant, Goto, IInv, TypeOK
  <2> HIDE DEF c
  <2>4. TypeOK'
    <3>1. pc' \in [Calls -> Steps]
      BY <2>1, <2>3 DEF IInv, TypeOK, Goto, Steps
    <3>2. tx' \in [Calls -> Clients \union {None}] /\ lent' \in [Calls -> Clients \union {None}]
      BY <2>1, <2>2, <2>3 DEF IInv, TypeOK
    <3> QED BY <1>2, <2>3, <3>1, <3>2 DEF IInv, TypeOK, Grant
  <2>5. \A d \in Calls : KindsAt(d)' /\ HoldsAt(d)'
    BY <1>2, <2>1, <2>2, <2>3 DEF IInv, TypeOK, KindsAt, HoldsAt, Grant, Goto
  <2>6. \A d, e \in Calls : d # e => Apart(d, e)'
    BY <2>1, <2>2, <2>3 DEF IInv, TypeOK, Apart
  <2> QED BY <2>3, <2>4, <2>5, <2>6 DEF IInv
<1>3. ASSUME ConnectFails PROVE IInv'
  <2> DEFINE c == Head(queue)
  <2>1. c \in Calls /\ pc[c] \in {"connect", "wait"} /\ queue' \in Seq(Calls) /\ QueueWaits'
    BY <1>3, TailQueue DEF ConnectFails, Goto, IInv, TypeOK
  <2>2. pc' = [pc EXCEPT ![c] = Handler(c)]
    BY <1>3 DEF ConnectFails, Goto
  <2> HIDE DEF c
  <2>3. TypeOK'
    BY <1>3, <2>1, <2>2 DEF IInv, TypeOK, ConnectFails, Handler, Steps
  <2>4. \A d \in Calls : KindsAt(d)' /\ HoldsAt(d)'
    BY <1>3, <2>1, <2>2 DEF IInv, TypeOK, KindsAt, HoldsAt, ConnectFails, Handler
  <2>5. \A d, e \in Calls : d # e => Apart(d, e)'
    BY <1>3 DEF IInv, Apart, ConnectFails
  <2> QED BY <2>1, <2>3, <2>4, <2>5 DEF IInv
<1>4. ASSUME NEW c \in Calls, Throws(c) PROVE IInv'
  <2>1. queue' \in Seq(Calls) /\ QueueWaits'
    BY <1>4, SameQueue DEF Throws, Goto, IInv, TypeOK
  <2>2. TypeOK'
    BY <1>4, <2>1 DEF IInv, TypeOK, Throws, Goto, Handler, Steps
  <2>3. \A d \in Calls : KindsAt(d)' /\ HoldsAt(d)'
    BY <1>4 DEF IInv, TypeOK, KindsAt, HoldsAt, Throws, Goto, Handler
  <2>4. \A d, e \in Calls : d # e => Apart(d, e)'
    BY <1>4 DEF IInv, TypeOK, Apart, Throws
  <2> QED BY <2>1, <2>2, <2>3, <2>4 DEF IInv
<1>5. ASSUME NEW c \in Calls, Query(c) PROVE IInv'
  <2>1. pc' \in [Calls -> Steps]
    BY <1>5 DEF IInv, TypeOK, Query, Goto, Steps
  <2>2. queue' \in Seq(Calls) /\ QueueWaits'
    <3>1. CASE kind[c] = "adapter"
      BY <1>5, <3>1, SameQueue DEF Query, Goto, IInv, TypeOK
    <3>2. CASE kind[c] # "adapter"
      BY <1>5, <2>1, <3>2, AppendQueue DEF Query, Goto, IInv, TypeOK
    <3> QED BY <3>1, <3>2
  <2>3. TypeOK'
    BY <1>5, <2>1, <2>2 DEF IInv, TypeOK, Query
  <2>4. \A d \in Calls : KindsAt(d)' /\ HoldsAt(d)'
    BY <1>5 DEF IInv, TypeOK, KindsAt, HoldsAt, Query, Goto
  <2>5. \A d, e \in Calls : d # e => Apart(d, e)'
    BY <1>5 DEF IInv, Apart, Query
  <2> QED BY <2>2, <2>3, <2>4, <2>5 DEF IInv
<1>6. ASSUME NEW c \in Calls, Answered(c) PROVE IInv'
  <2>1. queue' \in Seq(Calls) /\ QueueWaits'
    BY <1>6, SameQueue DEF Answered, Goto, IInv, TypeOK
  <2>2. TypeOK'
    BY <1>6, <2>1 DEF IInv, TypeOK, KindsAt, Answered, Goto, Steps
  <2>3. \A d \in Calls : KindsAt(d)' /\ HoldsAt(d)'
    BY <1>6 DEF IInv, TypeOK, KindsAt, HoldsAt, Answered, Goto
  <2>4. \A d, e \in Calls : d # e => Apart(d, e)'
    BY <1>6 DEF IInv, TypeOK, Apart, Answered
  <2> QED BY <2>1, <2>2, <2>3, <2>4 DEF IInv
<1>7. ASSUME NEW c \in Calls, Finish(c) PROVE IInv'
  <2>1. queue' \in Seq(Calls) /\ QueueWaits'
    BY <1>7, SameQueue DEF Finish, Goto, IInv, TypeOK
  <2>2. TypeOK'
    BY <1>7, <2>1 DEF IInv, TypeOK, Finish, Goto, Handler, Steps
  <2>3. \A d \in Calls : KindsAt(d)' /\ HoldsAt(d)'
    BY <1>7 DEF IInv, TypeOK, KindsAt, HoldsAt, Finish, Goto, Handler
  <2>4. \A d, e \in Calls : d # e => Apart(d, e)'
    BY <1>7 DEF IInv, Apart, Finish
  <2> QED BY <2>1, <2>2, <2>3, <2>4 DEF IInv
<1>8. ASSUME NEW c \in Calls, Release(c) PROVE IInv'
  <2>1. queue' \in Seq(Calls) /\ QueueWaits'
    BY <1>8, SameQueue DEF Release, Goto, IInv, TypeOK
  <2>2. TypeOK'
    BY <1>8, <2>1 DEF IInv, TypeOK, Release, Goto, Steps
  <2>3. \A d \in Calls : KindsAt(d)' /\ HoldsAt(d)'
    BY <1>8 DEF IInv, TypeOK, KindsAt, HoldsAt, Release, Goto
  <2>4. \A d, e \in Calls : d # e => Apart(d, e)'
    BY <1>8 DEF IInv, TypeOK, Apart, Release
  <2> QED BY <2>1, <2>2, <2>3, <2>4 DEF IInv
<1>9. CASE Close \/ UNCHANGED vars
  <2>1. UNCHANGED <<kind, pc, left, tx, lent, queue>> /\ ending' \in BOOLEAN
    BY <1>9 DEF IInv, TypeOK, Close, vars
  <2>2. TypeOK' /\ QueueWaits'
    BY <2>1 DEF IInv, TypeOK, QueueWaits
  <2>3. \A d \in Calls : KindsAt(d)' /\ HoldsAt(d)'
    BY <2>1 DEF IInv, KindsAt, HoldsAt
  <2>4. \A d, e \in Calls : d # e => Apart(d, e)'
    BY <2>1 DEF IInv, Apart
  <2> QED BY <2>2, <2>3, <2>4 DEF IInv
<1> QED BY <1>1, <1>2, <1>3, <1>4, <1>5, <1>6, <1>7, <1>8, <1>9 DEF Next, Proceed

\* Every value stays in its type; the statements left of a call never fall below zero.
THEOREM TypeCorrect == Spec => []TypeOK
<1>1. IInv => TypeOK
  BY DEF IInv
<1> QED BY <1>1, InitInvariant, StepInvariant, PTL DEF Spec

\* No path through transaction(), its failures included, leaks a client or lends one twice.
THEOREM NoClientLeaks == Spec => []ClientsComeBack
<1>1. IInv => ClientsComeBack
  BY DEF IInv, HoldsAt, Apart, ClientsComeBack
<1> QED BY <1>1, InitInvariant, StepInvariant, PTL DEF Spec

\* The pool blocks only when every client is with a service's transaction that waits for
\* another client.
THEOREM BlocksOnlyWhenExhausted == Spec => []StuckNeedsAllClients
<1>1. ASSUME IInv PROVE StuckNeedsAllClients
  <2> SUFFICES ASSUME Stuck, NEW client \in Clients
               PROVE  \E c \in Calls : tx[c] = client /\ Holding(c) /\ pc[c] = "wait"
    BY DEF StuckNeedsAllClients
  <2>1. PICK c \in Calls : tx[c] = client \/ lent[c] = client
    BY DEF Stuck, Free, Held
  <2>2. client # None /\ pc[c] \in {"idle", "connect", "wait"}
    BY PoolAssumption DEF Stuck
  <2>3. tx[c] = client /\ pc[c] = "wait"
    BY <1>1, <2>1, <2>2 DEF IInv, HoldsAt
  <2>4. Holding(c)
    BY <1>1, <2>2, <2>3 DEF IInv, TypeOK, KindsAt, Kinds, Holding
  <2> QED BY <2>3, <2>4
<1> QED BY <1>1, InitInvariant, StepInvariant, PTL DEF Spec

-----------------------------------------------------------------------------
(* Boot.  The statements of the scripts.                                   *)

\* The migration that creates a table, and the last that gives it constraints.
First(t) == CASE t \in {"evaluations", "evaluation_results"} -> 4
              [] t \in {"ab_tests", "ab_test_results"} -> 11
              [] t \in {"datasets", "dataset_rows", "eval_runs"} -> 12
              [] t \in {"compliance_rules", "compliance_scores"} -> 13
              [] OTHER -> 1
Top(t) == CASE t \in {"ab_test_results", "dataset_rows"} -> 16
            [] t = "eval_runs" -> 17
            [] t = "runs" -> 24
            [] OTHER -> 25

\* Statements that rebuild nothing, the parts of a rebuild, and all of them.
Gentle == {"ensure", "add", "supply", "prune", "constrain", "backfill", "type"}
Parts == {"create", "copy", "drop"}
Doings == Gentle \union Parts \union {"rename"}

\* The columns that migrations add.
Columns == {"ollama_options", "ollama_keep_alive", "ollama_format", "expires_at", "workspace_id", "status",
            "run_id", "promoted_version", "promoted_at", "error_code", "target_id", "evaluation_id",
            "active_version_id", "provider", "raw_response_json", "ci_lower", "ci_upper", "stddev_a", "stddev_b"}

\* Short sequences.
LEMMA IsSeq == ASSUME NEW S, NEW n \in Nat, NEW f, f \in [1..n -> S] PROVE f \in Seq(S)
  OBVIOUS

\* Sequences of one and of four, and what they are made of.
LEMMA OneOf == ASSUME NEW a PROVE Len(<<a>>) = 1 /\ <<a>>[1] = a
  OBVIOUS

LEMMA FourOf ==
    ASSUME NEW a, NEW b, NEW c, NEW d
    PROVE  LET q == <<a, b, c, d>> IN Len(q) = 4 /\ q[1] = a /\ q[2] = b /\ q[3] = c /\ q[4] = d
  OBVIOUS

LEMMA OneIn == ASSUME NEW S, NEW a \in S PROVE <<a>> \in Seq(S)
  OBVIOUS

LEMMA NoneIn == ASSUME NEW S PROVE <<>> \in Seq(S)
  OBVIOUS

LEMMA FourIn == ASSUME NEW S, NEW a \in S, NEW b \in S, NEW c \in S, NEW d \in S PROVE <<a, b, c, d>> \in Seq(S)
  OBVIOUS

\* The statements migration m may contain.
Fits(b, m, d, t, a) ==
    /\ t \in Tables /\ First(t) <= m
    /\ d \in Gentle \/ (b = "sqlite" /\ d \in Parts \union {"rename"} /\ t \in Rebuilt)
    /\ d \in {"ensure", "create", "constrain"} => a = m /\ m <= Top(t)
    /\ d = "ensure" => First(t) = m
    /\ d = "constrain" => m = Top(t) \/ (t = "spans" /\ m = 24)
    /\ d = "backfill" => m = 21
    /\ d \in Parts \union {"rename"} => m > 2
Legal(b, m) == {s \in [does : Doings, table : Tables, arg : Columns \union Nat] : Fits(b, m, s.does, s.table, s.arg)}

\* The parts of a statement.
LEMMA StmtParts ==
    ASSUME NEW d, NEW t, NEW a
    PROVE  Stmt(d, t, a).does = d /\ Stmt(d, t, a).table = t /\ Stmt(d, t, a).arg = a
  BY DEF Stmt

\* A statement that fits its migration is legal there.
LEMMA StmtFits ==
    ASSUME NEW b, NEW m, NEW d, NEW t, NEW a, a \in Columns \/ a \in Nat, Fits(b, m, d, t, a)
    PROVE  Stmt(d, t, a) \in Legal(b, m)
<1>1. t \in Tables /\ d \in Doings /\ a \in Columns \union Nat
  BY Zenon DEF Fits, Doings
<1>2. Stmt(d, t, a) \in [does : Doings, table : Tables, arg : Columns \union Nat]
  BY <1>1, Zenon DEF Stmt
<1>3. PICK r : r = Stmt(d, t, a)
  OBVIOUS
<1>4. Fits(b, m, r.does, r.table, r.arg)
  BY <1>3, StmtParts
<1>5. r \in Legal(b, m)
  BY <1>2, <1>3, <1>4, Zenon DEF Legal
<1> QED BY <1>3, <1>5

\* CREATE TABLE IF NOT EXISTS, for tables whose first migration this is.
LEMMA EnsureFits ==
    ASSUME NEW b, NEW m \in Nat, NEW T, T \subseteq Tables, \A t \in T : First(t) = m /\ m <= Top(t), NEW ts \in Seq(T)
    PROVE  Ensure(ts, m) \in Seq(Legal(b, m))
<1>1. ASSUME NEW i \in 1..Len(ts) PROVE Stmt("ensure", ts[i], m) \in Legal(b, m)
  <2>1. ts[i] \in T
    OBVIOUS
  <2>2. Fits(b, m, "ensure", ts[i], m)
    BY <2>1 DEF Fits, Gentle, Parts
  <2> QED BY <2>2, StmtFits, Zenon
<1>2. Ensure(ts, m) = [i \in 1..Len(ts) |-> Stmt("ensure", ts[i], m)] /\ Len(ts) \in Nat
  BY DEF Ensure, Each
<1> QED BY <1>1, <1>2

\* ADD COLUMN, for a table that an earlier migration created.
LEMMA AddFits ==
    ASSUME NEW b, NEW m \in Nat, NEW t \in Tables, First(t) <= m, NEW cs \in Seq(Columns)
    PROVE  Add(t, cs) \in Seq(Legal(b, m)) /\ AddMissing(t, cs) \in Seq(Legal(b, m))
<1>1. ASSUME NEW i \in 1..Len(cs) PROVE Stmt("add", t, cs[i]) \in Legal(b, m) /\ Stmt("supply", t, cs[i]) \in Legal(b, m)
  <2>1. cs[i] \in Columns
    OBVIOUS
  <2>2. Fits(b, m, "add", t, cs[i]) /\ Fits(b, m, "supply", t, cs[i])
    BY <2>1 DEF Fits, Gentle, Parts
  <2> QED BY <2>1, <2>2, StmtFits, Zenon
<1>2. Add(t, cs) = [i \in 1..Len(cs) |-> Stmt("add", t, cs[i])] /\ Len(cs) \in Nat
  BY DEF Add
<1>3. AddMissing(t, cs) = [i \in 1..Len(cs) |-> Stmt("supply", t, cs[i])]
  BY DEF AddMissing
<1> DEFINE S == Legal(b, m)
<1> HIDE DEF S
<1>4. \A i \in 1..Len(cs) : Stmt("add", t, cs[i]) \in S /\ Stmt("supply", t, cs[i]) \in S
  BY <1>1 DEF S
<1>5. Add(t, cs) \in [1..Len(cs) -> S] /\ AddMissing(t, cs) \in [1..Len(cs) -> S]
  BY <1>2, <1>3, <1>4, Zenon
<1>6. Add(t, cs) \in Seq(S) /\ AddMissing(t, cs) \in Seq(S)
  BY <1>2, <1>5, IsSeq, Zenon
<1> QED BY <1>6 DEF S

\* A part of a rebuild follows the part before it, on the same table.
Before(d) == IF d = "create" THEN "rename" ELSE IF d = "copy" THEN "create" ELSE "copy"
InTurn(q) == \A i \in 1..Len(q) : q[i].does \in Parts =>
                i > 1 /\ q[i - 1].does = Before(q[i].does) /\ q[i - 1].table = q[i].table

\* Scripts that rebuild tables one after the other may be joined.
LEMMA InTurnJoin ==
    ASSUME NEW S, NEW q \in Seq(S), NEW r \in Seq(S), InTurn(q), InTurn(r)
    PROVE  InTurn(q \o r) /\ q \o r \in Seq(S)
<1>1. q \o r \in Seq(S) /\ Len(q \o r) = Len(q) + Len(r)
  OBVIOUS
<1>2. ASSUME NEW i \in 1..Len(q \o r), (q \o r)[i].does \in Parts
      PROVE  i > 1 /\ (q \o r)[i - 1].does = Before((q \o r)[i].does) /\ (q \o r)[i - 1].table = (q \o r)[i].table
  <2>1. CASE i <= Len(q)
    <3>1. i \in 1..Len(q) /\ (q \o r)[i] = q[i]
      BY <2>1
    <3>2. i > 1 /\ q[i - 1].does = Before(q[i].does) /\ q[i - 1].table = q[i].table
      BY <3>1, <1>2 DEF InTurn
    <3>3. (q \o r)[i - 1] = q[i - 1]
      BY <3>1, <3>2
    <3> QED BY <3>1, <3>2, <3>3
  <2>2. CASE i > Len(q)
    <3> DEFINE k == i - Len(q)
    <3>1. k \in 1..Len(r) /\ (q \o r)[i] = r[k]
      BY <2>2, <1>1
    <3>2. k > 1 /\ r[k - 1].does = Before(r[k].does) /\ r[k - 1].table = r[k].table
      BY <3>1, <1>2 DEF InTurn
    <3>3. (q \o r)[i - 1] = r[k - 1] /\ i > 1
      BY <3>1, <3>2
    <3> QED BY <3>1, <3>2, <3>3
  <2> QED BY <2>1, <2>2
<1> QED BY <1>1, <1>2 DEF InTurn

LEMMA Four ==
    \A i \in 1..4 :
       \/ i = 1
       \/ i = 2 /\ i > 1 /\ i - 1 = 1
       \/ i = 3 /\ i > 1 /\ i - 1 = 2
       \/ i = 4 /\ i > 1 /\ i - 1 = 3
  OBVIOUS

\* The four statements of a rebuild are in turn.
LEMMA InTurnFour ==
    ASSUME NEW a, NEW b, NEW c, NEW d, a.does = "rename", b.does = "create", c.does = "copy",
           d.does = "drop", b.table = a.table, c.table = a.table, d.table = a.table
    PROVE  InTurn(<<a, b, c, d>>)
<1> DEFINE q == <<a, b, c, d>>
<1>1. Len(q) = 4 /\ q[1] = a /\ q[2] = b /\ q[3] = c /\ q[4] = d
  BY FourOf, Zenon
<1> HIDE DEF q
<1> SUFFICES ASSUME NEW i \in 1..4, q[i].does \in Parts
             PROVE  i > 1 /\ q[i - 1].does = Before(q[i].does) /\ q[i - 1].table = q[i].table
  BY <1>1 DEF InTurn, q
<1>2. i # 1
  BY <1>1 DEF Parts
<1>3. CASE i = 2 /\ i > 1 /\ i - 1 = 1
  <2>1. q[2].does = "create" /\ q[1].does = "rename" /\ q[1].table = q[2].table
    BY <1>1
  <2> QED BY <1>3, <2>1, Zenon DEF Before
<1>4. CASE i = 3 /\ i > 1 /\ i - 1 = 2
  <2>1. q[3].does = "copy" /\ q[2].does = "create" /\ q[2].table = q[3].table
    BY <1>1
  <2> QED BY <1>4, <2>1, Zenon DEF Before
<1>5. CASE i = 4 /\ i > 1 /\ i - 1 = 3
  <2>1. q[4].does = "drop" /\ q[3].does = "copy" /\ q[3].table = q[4].table
    BY <1>1
  <2> QED BY <1>5, <2>1, Zenon DEF Before
<1> QED BY <1>2, <1>3, <1>4, <1>5, Four, Zenon

\* A rebuild, and the change of constraints in place.
LEMMA RebuildFits ==
    ASSUME NEW m \in Nat, NEW t \in Rebuilt, First(t) <= m, m <= Top(t), m > 2, NEW prunes \in BOOLEAN
    PROVE  Rebuild(t, m, prunes) \in Seq(Legal("sqlite", m)) /\ InTurn(Rebuild(t, m, prunes))
<1> DEFINE S == Legal("sqlite", m)
           body == <<Stmt("rename", t, m), Stmt("create", t, m), Stmt("copy", t, m), Stmt("drop", t, m)>>
           head == IF prunes THEN <<Stmt("prune", t, m)>> ELSE <<>>
<1>1. \A d \in {"prune", "rename", "create", "copy", "drop"} : Stmt(d, t, m) \in S
  <2> TAKE d \in {"prune", "rename", "create", "copy", "drop"}
  <2>1. Fits("sqlite", m, d, t, m)
    BY DEF Fits, Gentle, Parts, Tables
  <2> QED BY <2>1, StmtFits
<1> HIDE DEF S
<1>2. body \in Seq(S) /\ head \in Seq(S)
  <2>1. Stmt("prune", t, m) \in S /\ Stmt("rename", t, m) \in S /\ Stmt("create", t, m) \in S
        /\ Stmt("copy", t, m) \in S /\ Stmt("drop", t, m) \in S
    BY <1>1
  <2>2. body \in Seq(S)
    BY <2>1, FourIn, Zenon
  <2>3. head \in Seq(S)
    <3>1. CASE prunes
      <4>1. head = <<Stmt("prune", t, m)>>
        BY <3>1, Zenon
      <4> HIDE DEF head
      <4> QED BY <2>1, <4>1, OneIn, Zenon
    <3>2. CASE ~prunes
      <4>1. head = <<>>
        BY <3>2, Zenon
      <4> HIDE DEF head
      <4> QED BY <4>1, NoneIn, Zenon
    <3> QED BY <3>1, <3>2
  <2> QED BY <2>2, <2>3
<1>3. InTurn(body)
  <2>1. \A d \in {"rename", "create", "copy", "drop"} : Stmt(d, t, m).does = d /\ Stmt(d, t, m).table = t
    BY DEF Stmt
  <2> QED BY <2>1, InTurnFour
<1>4. InTurn(head)
  <2>1. CASE prunes
    <3>1. Len(head) = 1 /\ head[1] = Stmt("prune", t, m)
      BY <2>1, OneOf, Zenon
    <3> HIDE DEF head
    <3>2. head[1].does = "prune"
      <4>1. PICK h : h = head[1]
        OBVIOUS
      <4>2. h.does = "prune"
        BY <3>1, <4>1 DEF Stmt
      <4> QED BY <4>1, <4>2
    <3>3. \A i \in 1..1 : i = 1
      OBVIOUS
    <3>4. "prune" \notin Parts
      BY DEF Parts
    <3> QED BY <3>1, <3>2, <3>3, <3>4 DEF InTurn
  <2>2. CASE ~prunes
    BY <2>2 DEF InTurn
  <2> QED BY <2>1, <2>2
<1>5. Rebuild(t, m, prunes) = head \o body
  BY DEF Rebuild
<1> HIDE DEF body, head
<1>6. InTurn(head \o body) /\ head \o body \in Seq(S)
  BY <1>2, <1>3, <1>4, InTurnJoin
<1> QED BY <1>5, <1>6 DEF S

LEMMA ConstrainFits ==
    ASSUME NEW b, NEW m \in Nat, NEW t \in Rebuilt, First(t) <= m, m <= Top(t), m = Top(t) \/ (t = "spans" /\ m = 24),
           NEW prunes \in BOOLEAN
    PROVE  Constrain(t, m, prunes) \in Seq(Legal(b, m))
<1>1. \A d \in {"prune", "constrain"} : Stmt(d, t, m) \in Legal(b, m)
  <2> TAKE d \in {"prune", "constrain"}
  <2>1. Fits(b, m, d, t, m)
    BY DEF Fits, Gentle, Parts, Tables
  <2> QED BY <2>1, StmtFits
<1> DEFINE head == IF prunes THEN <<Stmt("prune", t, m)>> ELSE <<>>
<1>2. head \in Seq(Legal(b, m)) /\ <<Stmt("constrain", t, m)>> \in Seq(Legal(b, m))
  BY <1>1
<1>3. Constrain(t, m, prunes) = head \o <<Stmt("constrain", t, m)>>
  BY DEF Constrain
<1> HIDE DEF head
<1> QED BY <1>2, <1>3

\* On SQLite each statement is a unit.
Sound(b, m, script) ==
    /\ b = "sqlite" => \E q \in Seq(Legal(b, m)) : InTurn(q) /\ script = [i \in 1..Len(q) |-> <<q[i]>>]
    /\ b = "postgres" => script \in Seq(Seq(Legal(b, m)))

\* Sequences, their domains and how they are joined.
LEMMA DomIsLen == ASSUME NEW S, NEW q \in Seq(S) PROVE DOMAIN q = 1..Len(q)
  OBVIOUS

LEMMA SeqIs ==
    ASSUME NEW S, NEW w \in Seq(S)
    PROVE  Len(w) \in Nat /\ DOMAIN w = 1..Len(w) /\ w = [i \in 1..Len(w) |-> w[i]]
<1>1. Len(w) \in Nat /\ DOMAIN w = 1..Len(w)
  OBVIOUS
<1>2. PICK n \in Nat : w \in [1..n -> S]
  OBVIOUS
<1> QED BY <1>1, <1>2

LEMMA DomLen ==
    ASSUME NEW S, NEW w \in Seq(S), NEW n \in Nat, DOMAIN w = 1..n
    PROVE  Len(w) = n
  OBVIOUS

LEMMA Split == \A a, b \in Nat : \A i \in 1..(a + b) : i \in 1..a \/ i \in (a + 1)..(a + b)
  OBVIOUS

LEMMA Joined ==
    ASSUME NEW S, NEW q \in Seq(S), NEW r \in Seq(S)
    PROVE  /\ q \o r \in Seq(S) /\ Len(q) \in Nat /\ Len(r) \in Nat /\ Len(q \o r) = Len(q) + Len(r)
           /\ \A i \in 1..Len(q) : (q \o r)[i] = q[i]
           /\ \A i \in (Len(q) + 1)..(Len(q) + Len(r)) : (q \o r)[i] = r[i - Len(q)] /\ i - Len(q) \in 1..Len(r)
           /\ q \o r = [i \in 1..Len(q \o r) |-> (q \o r)[i]]
<1>1. q \o r \in Seq(S) /\ Len(q) \in Nat /\ Len(r) \in Nat /\ Len(q \o r) = Len(q) + Len(r)
  OBVIOUS
<1>2. q \o r = [i \in 1..Len(q \o r) |-> (q \o r)[i]]
  BY <1>1, SeqIs, Zenon
<1>3. \A i \in 1..Len(q) : (q \o r)[i] = q[i]
  BY <1>1
<1>4. \A i \in (Len(q) + 1)..(Len(q) + Len(r)) : (q \o r)[i] = r[i - Len(q)] /\ i - Len(q) \in 1..Len(r)
  BY <1>1
<1> QED BY <1>1, <1>2, <1>3, <1>4

\* One db.exec, and scripts of several, are sound.
LEMMA ExecSound ==
    ASSUME NEW b, NEW m, NEW q \in Seq(Legal(b, m)), InTurn(q)
    PROVE  Sound(b, m, Exec(b, q))
<1>1. b = "sqlite" => Exec(b, q) = [i \in 1..Len(q) |-> <<q[i]>>]
  BY DomIsLen DEF Exec, OnSqlite
<1>2. b = "postgres" => Exec(b, q) = <<q>>
  BY DEF Exec, OnSqlite
<1> QED BY <1>1, <1>2, OneIn DEF Sound

LEMMA JoinSound ==
    ASSUME NEW b, NEW m, NEW x, NEW y, Sound(b, m, x), Sound(b, m, y)
    PROVE  Sound(b, m, x \o y)
<1> DEFINE S == Legal(b, m)
<1> HIDE DEF S
<1>1. ASSUME b = "sqlite" PROVE \E q \in Seq(S) : InTurn(q) /\ x \o y = [i \in 1..Len(q) |-> <<q[i]>>]
  <2>1. PICK q \in Seq(S) : InTurn(q) /\ x = [i \in 1..Len(q) |-> <<q[i]>>]
    BY <1>1 DEF Sound, S
  <2>2. PICK r \in Seq(S) : InTurn(r) /\ y = [i \in 1..Len(r) |-> <<r[i]>>]
    BY <1>1 DEF Sound, S
  <2>3. q \o r \in Seq(S) /\ InTurn(q \o r) /\ Len(q \o r) = Len(q) + Len(r)
    BY <2>1, <2>2, InTurnJoin
  <2>4. x \in Seq(Seq(S)) /\ y \in Seq(Seq(S)) /\ Len(x) = Len(q) /\ Len(y) = Len(r)
    <3>1. \A i \in 1..Len(q) : <<q[i]>> \in Seq(S)
      BY OneIn
    <3>2. \A i \in 1..Len(r) : <<r[i]>> \in Seq(S)
      BY OneIn
    <3> QED BY <2>1, <2>2, <3>1, <3>2
  <2>5. ASSUME NEW i \in 1..Len(q \o r) PROVE (x \o y)[i] = <<(q \o r)[i]>>
    <3>1. CASE i \in 1..Len(q)
      <4>1. (x \o y)[i] = x[i] /\ (q \o r)[i] = q[i]
        BY <2>4, <3>1, Joined
      <4> QED BY <3>1, <4>1, <2>1
    <3>2. CASE i \in (Len(q) + 1)..(Len(q) + Len(r))
      <4>1. (x \o y)[i] = y[i - Len(q)] /\ (q \o r)[i] = r[i - Len(q)] /\ i - Len(q) \in 1..Len(r)
        BY <2>4, <3>2, Joined
      <4> QED BY <4>1, <2>2
    <3>3. Len(q) \in Nat /\ Len(r) \in Nat
      OBVIOUS
    <3>4. i \in 1..Len(q) \/ i \in (Len(q) + 1)..(Len(q) + Len(r))
      BY <2>3, <3>3, Split, Zenon
    <3> QED BY <3>1, <3>2, <3>4
  <2>6. x \o y = [i \in 1..Len(q \o r) |-> <<(q \o r)[i]>>]
    <3>1. Len(x \o y) = Len(q \o r)
      <4>1. Len(x \o y) = Len(x) + Len(y)
        <5>1. PICK T : T = Seq(S)
          OBVIOUS
        <5>2. x \in Seq(T) /\ y \in Seq(T)
          BY <2>4, <5>1
        <5> QED BY ZenonT(40), <5>2, Joined
      <4> QED BY <4>1, <2>3, <2>4, Zenon
    <3>2. x \o y = [i \in 1..Len(q \o r) |-> (x \o y)[i]]
      <4>1. x \o y = [i \in 1..Len(x \o y) |-> (x \o y)[i]]
        BY <2>4, Joined, Zenon
      <4> QED BY <4>1, <3>1, Zenon
    <3> QED BY <3>2, <2>5
  <2> QED BY <2>3, <2>6
<1>2. ASSUME b = "postgres" PROVE x \o y \in Seq(Seq(S))
  BY <1>2 DEF Sound, S
<1> QED BY <1>1, <1>2 DEF Sound, S

\* A script that rebuilds nothing is in turn.
LEMMA GentleInTurn ==
    ASSUME NEW q, \A i \in 1..Len(q) : q[i].does \in Gentle
    PROVE  InTurn(q)
  BY DEF InTurn, Gentle, Parts

\* The three kinds of db.exec that the migrations are made of.
LEMMA EnsureSound ==
    ASSUME NEW b, NEW m \in Nat, NEW T, T \subseteq Tables, \A t \in T : First(t) = m /\ m <= Top(t), NEW ts \in Seq(T)
    PROVE  Sound(b, m, Exec(b, Ensure(ts, m)))
<1>1. Ensure(ts, m) \in Seq(Legal(b, m))
  BY EnsureFits
<1>2. \A i \in 1..Len(Ensure(ts, m)) : Ensure(ts, m)[i].does \in Gentle
  <2>1. Ensure(ts, m) = [i \in 1..Len(ts) |-> Stmt("ensure", ts[i], m)] /\ Len(ts) \in Nat
    BY DEF Ensure, Each
  <2>2. Len(Ensure(ts, m)) = Len(ts)
    BY <2>1
  <2>3. \A i \in 1..Len(ts) : Ensure(ts, m)[i] = Stmt("ensure", ts[i], m)
    BY <2>1
  <2>4. \A t : Stmt("ensure", t, m).does = "ensure"
    BY DEF Stmt
  <2> QED BY <2>2, <2>3, <2>4 DEF Gentle
<1> QED BY <1>1, <1>2, GentleInTurn, ExecSound

LEMMA AddSound ==
    ASSUME NEW b, NEW m \in Nat, NEW t \in Tables, First(t) <= m, NEW cs \in Seq(Columns)
    PROVE  Sound(b, m, Exec(b, Add(t, cs))) /\ Sound(b, m, Exec(b, AddMissing(t, cs)))
<1>1. Add(t, cs) \in Seq(Legal(b, m)) /\ AddMissing(t, cs) \in Seq(Legal(b, m))
  BY AddFits
<1>2. /\ Add(t, cs) = [i \in 1..Len(cs) |-> Stmt("add", t, cs[i])]
      /\ AddMissing(t, cs) = [i \in 1..Len(cs) |-> Stmt("supply", t, cs[i])]
      /\ Len(cs) \in Nat
  BY DEF Add, AddMissing
<1>3. \A c : Stmt("add", t, c).does = "add" /\ Stmt("supply", t, c).does = "supply"
  BY DEF Stmt
<1>4. \A i \in 1..Len(Add(t, cs)) : Add(t, cs)[i].does \in Gentle
  <2>1. DOMAIN Add(t, cs) = 1..Len(cs) /\ \A i \in 1..Len(cs) : Add(t, cs)[i] = Stmt("add", t, cs[i])
    BY <1>2, Zenon
  <2>2. Len(Add(t, cs)) = Len(cs)
    BY <1>1, <1>2, <2>1, DomLen, Zenon
  <2> TAKE i \in 1..Len(Add(t, cs))
  <2>3. PICK c : c = cs[i]
    OBVIOUS
  <2>4. Add(t, cs)[i] = Stmt("add", t, c)
    BY <2>1, <2>2, <2>3
  <2>5. Stmt("add", t, c).does \in Gentle
    BY DEF Gentle, Stmt
  <2> QED BY <2>4, <2>5, Zenon
<1>5. \A i \in 1..Len(AddMissing(t, cs)) : AddMissing(t, cs)[i].does \in Gentle
  <2>1. DOMAIN AddMissing(t, cs) = 1..Len(cs) /\ \A i \in 1..Len(cs) : AddMissing(t, cs)[i] = Stmt("supply", t, cs[i])
    BY <1>2, Zenon
  <2>2. Len(AddMissing(t, cs)) = Len(cs)
    BY <1>1, <1>2, <2>1, DomLen, Zenon
  <2> TAKE i \in 1..Len(AddMissing(t, cs))
  <2>3. PICK c : c = cs[i]
    OBVIOUS
  <2>4. AddMissing(t, cs)[i] = Stmt("supply", t, c)
    BY <2>1, <2>2, <2>3
  <2>5. Stmt("supply", t, c).does \in Gentle
    BY DEF Gentle, Stmt
  <2> QED BY <2>4, <2>5, Zenon
<1> QED BY <1>1, <1>4, <1>5, GentleInTurn, ExecSound

LEMMA ReshapeFits ==
    ASSUME NEW b, NEW m \in Nat, NEW t \in Rebuilt, First(t) <= m, m <= Top(t), m = Top(t) \/ (t = "spans" /\ m = 24),
           m > 2, NEW prunes \in BOOLEAN
    PROVE  Reshape(b, t, m, prunes) \in Seq(Legal(b, m)) /\ InTurn(Reshape(b, t, m, prunes))
<1>1. CASE b = "sqlite"
  <2>1. Reshape(b, t, m, prunes) = Rebuild(t, m, prunes)
    BY <1>1 DEF Reshape, OnSqlite
  <2> QED BY <1>1, <2>1, RebuildFits
<1>2. CASE b # "sqlite"
  <2>1. Reshape(b, t, m, prunes) = Constrain(t, m, prunes)
    BY <1>2 DEF Reshape, OnSqlite
  <2>2. Constrain(t, m, prunes) \in Seq(Legal(b, m))
    BY ConstrainFits
  <2>3. \A s \in Legal(b, m) : s.does \in Gentle
    BY <1>2, Zenon DEF Legal, Fits
  <2>4. \A i \in 1..Len(Constrain(t, m, prunes)) : Constrain(t, m, prunes)[i].does \in Gentle
    BY <2>2, <2>3
  <2> QED BY <2>1, <2>2, <2>4, GentleInTurn
<1> QED BY <1>1, <1>2

\* The tables of migration 1.
Basic == {"prompts", "api_keys", "logs", "config", "audit_logs", "traces", "spans", "runs", "prompt_labels",
          "rate_limits"}

\* When the tables are created, and by which migration they are last constrained.
LEMMA BasicTables == Basic \subseteq Tables /\ \A t \in Basic : First(t) = 1 /\ 1 <= Top(t)
  BY DEF Basic, Tables, Rebuilt, First, Top

LEMMA LaterTables ==
    /\ {"evaluations", "evaluation_results", "ab_tests", "ab_test_results", "datasets", "dataset_rows", "eval_runs",
        "compliance_rules", "compliance_scores"} \subseteq Tables
    /\ \A t \in {"evaluations", "evaluation_results"} : First(t) = 4 /\ 4 <= Top(t)
    /\ \A t \in {"ab_tests", "ab_test_results"} : First(t) = 11 /\ 11 <= Top(t)
    /\ \A t \in {"datasets", "dataset_rows", "eval_runs"} : First(t) = 12 /\ 12 <= Top(t)
    /\ \A t \in {"compliance_rules", "compliance_scores"} : First(t) = 13 /\ 13 <= Top(t)
  BY DEF Tables, Rebuilt, First, Top

LEMMA RebuiltTables ==
    /\ Rebuilt \subseteq Tables
    /\ Top("ab_test_results") = 16 /\ Top("dataset_rows") = 16 /\ Top("eval_runs") = 17
    /\ Top("runs") = 24 /\ Top("spans") = 25
  BY DEF Tables, Rebuilt, Top

\* The migrations, one by one.
LEMMA NothingSound == ASSUME NEW b, NEW m PROVE Sound(b, m, <<>>)
<1>1. <<>> \in Seq(Legal(b, m)) /\ <<>> \in Seq(Seq(Legal(b, m)))
  BY NoneIn, Zenon
<1>2. Len(<<>>) = 0
  OBVIOUS
<1>3. \A f : f = <<>> => f = [i \in 1..0 |-> <<f[i]>>]
  OBVIOUS
<1>4. InTurn(<<>>)
  BY <1>2 DEF InTurn
<1> QED BY <1>1, <1>2, <1>3, <1>4 DEF Sound

LEMMA Sound1 == \A b : Sound(b, 1, InitialSchema(b))
<1>1. <<"prompts", "api_keys", "logs", "config", "audit_logs", "traces", "spans",
        "runs", "prompt_labels", "rate_limits">> \in Seq(Basic)
  BY DEF Basic
<1> QED BY <1>1, BasicTables, EnsureSound DEF InitialSchema

LEMMA Sound2 == \A b : Sound(b, 2, OllamaColumns(b))
<1>1. <<"ollama_options", "ollama_keep_alive", "ollama_format">> \in Seq(Columns)
  BY DEF Columns
<1>2. "logs" \in Tables /\ First("logs") <= 2
  BY BasicTables DEF Basic
<1> QED BY <1>1, <1>2, AddSound DEF OllamaColumns

LEMMA Sound3 == \A b : Sound(b, 3, KeyExpiration(b))
<1>1. <<"expires_at">> \in Seq(Columns)
  BY DEF Columns
<1>2. "api_keys" \in Tables /\ First("api_keys") <= 3
  BY BasicTables DEF Basic
<1> QED BY <1>1, <1>2, AddSound DEF KeyExpiration

LEMMA Sound4 == \A b : Sound(b, 4, Evaluations(b))
<1>1. <<"evaluations", "evaluation_results">> \in Seq({"evaluations", "evaluation_results"})
  OBVIOUS
<1> QED BY <1>1, LaterTables, EnsureSound DEF Evaluations

LEMMA Sound8 == \A b : Sound(b, 8, PromptStatus(b))
<1>1. <<"status">> \in Seq(Columns)
  BY DEF Columns
<1>2. "prompts" \in Tables /\ First("prompts") <= 8
  BY BasicTables DEF Basic
<1> QED BY <1>1, <1>2, AddSound DEF PromptStatus

LEMMA Sound11 == \A b : Sound(b, 11, AbTesting(b))
<1>1. <<"ab_tests", "ab_test_results">> \in Seq({"ab_tests", "ab_test_results"})
  OBVIOUS
<1> QED BY <1>1, LaterTables, EnsureSound DEF AbTesting

LEMMA Sound12 == \A b : Sound(b, 12, DatasetsAndEvalRuns(b))
<1>1. <<"datasets", "dataset_rows", "eval_runs">> \in Seq({"datasets", "dataset_rows", "eval_runs"})
  OBVIOUS
<1> QED BY <1>1, LaterTables, EnsureSound DEF DatasetsAndEvalRuns

LEMMA Sound13 == \A b : Sound(b, 13, Compliance(b))
<1>1. <<"compliance_rules", "compliance_scores">> \in Seq({"compliance_rules", "compliance_scores"})
  OBVIOUS
<1> QED BY <1>1, LaterTables, EnsureSound DEF Compliance

LEMMA Sound14 == \A b : Sound(b, 14, LogRunId(b))
<1>1. <<"run_id">> \in Seq(Columns)
  BY DEF Columns
<1>2. "logs" \in Tables /\ First("logs") <= 14
  BY BasicTables DEF Basic
<1> QED BY <1>1, <1>2, AddSound DEF LogRunId

LEMMA Sound15 == \A b : Sound(b, 15, AbTestPromotion(b))
<1>1. <<"promoted_version", "promoted_at">> \in Seq(Columns)
  BY DEF Columns
<1>2. "ab_tests" \in Tables /\ First("ab_tests") <= 15
  BY LaterTables
<1> QED BY <1>1, <1>2, AddSound DEF AbTestPromotion

LEMMA Sound16 == \A b : Sound(b, 16, CascadeDeletes(b))
<1> TAKE b
<1>1. \A t \in {"ab_test_results", "dataset_rows"} : t \in Rebuilt /\ First(t) <= 16 /\ 16 <= Top(t) /\ 16 = Top(t) /\ 16 > 2
  BY LaterTables, RebuiltTables DEF Rebuilt
<1> DEFINE q == Reshape(b, "ab_test_results", 16, TRUE)
           r == Reshape(b, "dataset_rows", 16, TRUE)
<1>2. PICK prunes \in BOOLEAN : prunes = TRUE
  OBVIOUS
<1>3. \A t \in {"ab_test_results", "dataset_rows"} :
         Reshape(b, t, 16, prunes) \in Seq(Legal(b, 16)) /\ InTurn(Reshape(b, t, 16, prunes))
  BY <1>1, ReshapeFits
<1>4. /\ q \in Seq(Legal(b, 16)) /\ InTurn(q)
      /\ r \in Seq(Legal(b, 16)) /\ InTurn(r)
  BY <1>2, <1>3, Zenon
<1>5. CascadeDeletes(b) = Exec(b, q \o r)
  BY DEF CascadeDeletes
<1> HIDE DEF q, r
<1>6. q \o r \in Seq(Legal(b, 16)) /\ InTurn(q \o r)
  BY <1>4, InTurnJoin
<1> QED BY <1>5, <1>6, ExecSound

LEMMA Sound17 == \A b : Sound(b, 17, CascadeEvalRuns(b))
<1> TAKE b
<1>1. "eval_runs" \in Rebuilt /\ First("eval_runs") <= 17 /\ 17 <= Top("eval_runs") /\ 17 = Top("eval_runs") /\ 17 > 2
  BY LaterTables, RebuiltTables DEF Rebuilt
<1>2. PICK prunes \in BOOLEAN : prunes = TRUE
  OBVIOUS
<1>3. Reshape(b, "eval_runs", 17, prunes) \in Seq(Legal(b, 17)) /\ InTurn(Reshape(b, "eval_runs", 17, prunes))
  BY <1>1, ReshapeFits
<1> QED BY <1>2, <1>3, ExecSound DEF CascadeEvalRuns

LEMMA Sound24 == \A b : Sound(b, 24, TraceRunCascades(b))
<1> TAKE b
<1>1. \A t \in {"spans", "runs"} : t \in Rebuilt /\ First(t) <= 24 /\ 24 <= Top(t) /\ (24 = Top(t) \/ (t = "spans" /\ 24 = 24)) /\ 24 > 2
  BY BasicTables, RebuiltTables DEF Rebuilt, Basic
<1> DEFINE q == Reshape(b, "spans", 24, TRUE)
           r == Reshape(b, "runs", 24, TRUE)
<1>2. PICK prunes \in BOOLEAN : prunes = TRUE
  OBVIOUS
<1>3. \A t \in {"spans", "runs"} :
         Reshape(b, t, 24, prunes) \in Seq(Legal(b, 24)) /\ InTurn(Reshape(b, t, 24, prunes))
  BY <1>1, ReshapeFits
<1>4. /\ q \in Seq(Legal(b, 24)) /\ InTurn(q)
      /\ r \in Seq(Legal(b, 24)) /\ InTurn(r)
  BY <1>2, <1>3, Zenon
<1>5. TraceRunCascades(b) = Exec(b, q \o r)
  BY DEF TraceRunCascades
<1> HIDE DEF q, r
<1>6. q \o r \in Seq(Legal(b, 24)) /\ InTurn(q \o r)
  BY <1>4, InTurnJoin
<1> QED BY <1>5, <1>6, ExecSound

LEMMA Sound25 == \A b : Sound(b, 25, SpanStatus(b))
<1> TAKE b
<1>1. "spans" \in Rebuilt /\ First("spans") <= 25 /\ 25 <= Top("spans") /\ 25 = Top("spans") /\ 25 > 2
  BY BasicTables, RebuiltTables DEF Rebuilt, Basic
<1>2. PICK prunes \in BOOLEAN : prunes = FALSE
  OBVIOUS
<1>3. Reshape(b, "spans", 25, prunes) \in Seq(Legal(b, 25)) /\ InTurn(Reshape(b, "spans", 25, prunes))
  BY <1>1, ReshapeFits
<1> QED BY <1>2, <1>3, ExecSound DEF SpanStatus

LEMMA Sound18 == \A b : Sound(b, 18, LogStatus(b))
<1>1. <<"status", "error_code">> \in Seq(Columns)
  BY DEF Columns
<1>2. "logs" \in Tables /\ First("logs") <= 18
  BY BasicTables DEF Basic
<1> QED BY <1>1, <1>2, AddSound DEF LogStatus

\* A plain ADD COLUMN on SQLite, a guarded one on PostgreSQL.
LEMMA EitherAdds ==
    ASSUME NEW b, NEW m \in Nat, NEW t \in Tables, First(t) <= m, NEW cs \in Seq(Columns)
    PROVE  Sound(b, m, Exec(b, OnSqlite(b, Add(t, cs), AddMissing(t, cs))))
<1>1. Sound(b, m, Exec(b, Add(t, cs))) /\ Sound(b, m, Exec(b, AddMissing(t, cs)))
  BY AddSound
<1> QED BY <1>1, Zenon DEF OnSqlite

LEMMA Sound19 == \A b : Sound(b, 19, AuditTargetId(b))
<1>1. <<"target_id">> \in Seq(Columns)
  BY DEF Columns
<1>2. "audit_logs" \in Tables /\ First("audit_logs") <= 19
  BY BasicTables DEF Basic
<1> QED BY <1>1, <1>2, EitherAdds DEF AuditTargetId

LEMMA Sound20 == \A b : Sound(b, 20, AbTestEvaluation(b))
<1>1. <<"evaluation_id">> \in Seq(Columns)
  BY DEF Columns
<1>2. "ab_tests" \in Tables /\ First("ab_tests") <= 20
  BY LaterTables
<1> QED BY <1>1, <1>2, EitherAdds DEF AbTestEvaluation

LEMMA Sound22 == \A b : Sound(b, 22, ComplianceProvider(b))
<1>1. <<"provider", "raw_response_json">> \in Seq(Columns)
  BY DEF Columns
<1>2. "compliance_scores" \in Tables /\ First("compliance_scores") <= 22
  BY LaterTables
<1> QED BY <1>1, <1>2, EitherAdds DEF ComplianceProvider

LEMMA Sound23 == \A b : Sound(b, 23, AbTestResultCi(b))
<1>1. <<"ci_lower", "ci_upper", "stddev_a", "stddev_b">> \in Seq(Columns)
  BY DEF Columns
<1>2. "ab_test_results" \in Tables /\ First("ab_test_results") <= 23
  BY LaterTables
<1> QED BY <1>1, <1>2, EitherAdds DEF AbTestResultCi

LEMMA Sound21 == \A b : Sound(b, 21, ActiveVersionId(b))
<1> TAKE b
<1>1. <<"active_version_id">> \in Seq(Columns)
  BY DEF Columns
<1>2. "prompts" \in Tables /\ First("prompts") <= 21
  BY BasicTables DEF Basic
<1> DEFINE x == Exec(b, OnSqlite(b, Add("prompts", <<"active_version_id">>),
                                    AddMissing("prompts", <<"active_version_id">>)))
           q == <<Stmt("backfill", "prompts", 21)>>
<1>3. Sound(b, 21, x)
  BY <1>1, <1>2, EitherAdds
<1>4. Fits(b, 21, "backfill", "prompts", 21)
  BY <1>2 DEF Fits, Gentle
<1>5. Stmt("backfill", "prompts", 21) \in Legal(b, 21)
  BY <1>4, StmtFits
<1>6. q \in Seq(Legal(b, 21))
  BY <1>5, OneIn, Zenon
<1>7. Len(q) = 1 /\ q[1] = Stmt("backfill", "prompts", 21)
  BY OneOf, Zenon
<1>8. Stmt("backfill", "prompts", 21).does \in Gentle
  BY DEF Stmt, Gentle
<1>9. ActiveVersionId(b) = x \o Exec(b, q)
  BY DEF ActiveVersionId
<1> HIDE DEF x, q
<1>10. \A i \in 1..Len(q) : q[i].does \in Gentle
  BY <1>7, <1>8
<1> QED BY <1>3, <1>6, <1>9, <1>10, GentleInTurn, ExecSound, JoinSound

\* The tables that migration 5 extends.
Owned == Basic \union {"evaluations", "evaluation_results"}

\* The migrations whose scripts differ most between the databases.
LEMMA Sound5 == \A b : Sound(b, 5, WorkspaceId(b))
<1> TAKE b
<1>1. Tenanted \in Seq(Owned) /\ Len(Tenanted) = 10
  BY DEF Tenanted, Owned, Basic
<1>2. \A t \in Owned : t \in Tables /\ First(t) <= 5
  BY BasicTables, LaterTables DEF Owned
<1>3. "workspace_id" \in Columns /\ <<"workspace_id">> \in Seq(Columns)
  BY DEF Columns
<1>4. DOMAIN Tenanted = 1..10 /\ \A i \in 1..10 : Tenanted[i] \in Owned
  BY <1>1
<1>5. CASE b = "sqlite"
  <2> DEFINE q == Each("add", Tenanted, "workspace_id")
  <2>1. ASSUME NEW i \in 1..10 PROVE Stmt("add", Tenanted[i], "workspace_id") \in Legal(b, 5)
    <3>1. PICK t \in Owned : t = Tenanted[i]
      BY <1>4
    <3>2. Fits(b, 5, "add", t, "workspace_id")
      BY <1>2 DEF Fits, Gentle
    <3>3. Stmt("add", t, "workspace_id") \in Legal(b, 5)
      BY <1>3, <3>2, StmtFits
    <3> QED BY <3>1, <3>3
  <2>2. q = [i \in 1..10 |-> Stmt("add", Tenanted[i], "workspace_id")]
    BY <1>4, Zenon DEF Each
  <2> HIDE DEF q
  <2>3. q \in [1..10 -> Legal(b, 5)]
    BY <2>1, <2>2, Zenon
  <2>4. 10 \in Nat
    OBVIOUS
  <2>5. q \in Seq(Legal(b, 5))
    BY <2>3, <2>4, IsSeq, Zenon
  <2>6. DOMAIN q = 1..10
    BY <2>2, Zenon
  <2>7. Len(q) = 10
    BY <2>4, <2>5, <2>6, DomLen, Zenon
  <2>8. ASSUME NEW i \in 1..Len(q) PROVE q[i].does \in Gentle
    <3>1. PICK t : t = Tenanted[i]
      OBVIOUS
    <3>2. q[i] = Stmt("add", t, "workspace_id")
      BY <2>2, <2>7, <2>8, <3>1
    <3>3. Stmt("add", t, "workspace_id").does \in Gentle
      BY DEF Gentle, Stmt
    <3> QED BY <3>2, <3>3, Zenon
  <2>9. Sound(b, 5, Exec(b, q))
    BY <2>5, <2>8, GentleInTurn, ExecSound
  <2>10. WorkspaceId(b) = Exec(b, q)
    BY <1>5, Zenon DEF WorkspaceId, OnSqlite, q
  <2> QED BY <2>9, <2>10
<1>6. CASE b # "sqlite"
  <2>1. ASSUME NEW i \in 1..10 PROVE AddMissing(Tenanted[i], <<"workspace_id">>) \in Seq(Legal(b, 5))
    BY <1>2, <1>3, <1>4, AddFits
  <2> DEFINE w == [i \in 1..10 |-> AddMissing(Tenanted[i], <<"workspace_id">>)]
  <2>2. WorkspaceId(b) = w
    BY <1>4, <1>6, Zenon DEF WorkspaceId, OnSqlite
  <2>3. w \in [1..10 -> Seq(Legal(b, 5))]
    BY <2>1, Zenon
  <2>4. 10 \in Nat
    OBVIOUS
  <2> HIDE DEF w
  <2>5. PICK T : T = Seq(Legal(b, 5))
    OBVIOUS
  <2>6. w \in Seq(T)
    BY <2>3, <2>4, <2>5, IsSeq, Zenon
  <2> QED BY <1>6, <2>2, <2>5, <2>6 DEF Sound
<1> QED BY <1>5, <1>6

LEMMA Sound6 == \A b : Sound(b, 6, TraceCreatedIndex(b)) /\ Sound(b, 10, MetricsIndexes(b))
  BY NothingSound DEF TraceCreatedIndex, MetricsIndexes

\* ALTER COLUMN TYPE.
LEMMA TypeFits ==
    ASSUME NEW b, NEW m \in Nat, NEW t \in Tables, First(t) <= m
    PROVE  <<Stmt("type", t, m)>> \in Seq(Legal(b, m))
<1>1. Fits(b, m, "type", t, m)
  BY DEF Fits, Gentle, Parts
<1>2. Stmt("type", t, m) \in Legal(b, m)
  BY <1>1, StmtFits
<1> QED BY <1>2, OneIn, Zenon

LEMMA Sound7 == \A b : Sound(b, 7, RateLimitsWindowStart(b))
<1> TAKE b
<1>1. "rate_limits" \in Tables /\ First("rate_limits") <= 7
  BY BasicTables DEF Basic
<1>2. <<Stmt("type", "rate_limits", 7)>> \in Seq(Legal(b, 7))
  BY <1>1, TypeFits
<1>3. << <<Stmt("type", "rate_limits", 7)>> >> \in Seq(Seq(Legal(b, 7)))
  BY <1>2, OneIn, Zenon
<1>4. CASE b = "sqlite"
  BY <1>4, NothingSound DEF RateLimitsWindowStart, OnSqlite
<1>5. CASE b # "sqlite"
  <2>1. RateLimitsWindowStart(b) = << <<Stmt("type", "rate_limits", 7)>> >>
    BY <1>5, Zenon DEF RateLimitsWindowStart, OnSqlite
  <2> QED BY <1>3, <1>5, <2>1, Zenon DEF Sound
<1> QED BY <1>4, <1>5

LEMMA Sound9 == \A b : Sound(b, 9, SpansTimeColumns(b))
<1> TAKE b
<1>1. "spans" \in Tables /\ First("spans") <= 9
  BY BasicTables DEF Basic
<1>2. PICK x : x = <<Stmt("type", "spans", 9)>>
  OBVIOUS
<1>3. x \in Seq(Legal(b, 9))
  BY <1>1, <1>2, TypeFits
<1>4. PICK T : T = Seq(Legal(b, 9))
  OBVIOUS
<1>5. <<x, x>> \in Seq(T)
  BY <1>3, <1>4
<1>6. CASE b = "sqlite"
  BY <1>6, NothingSound DEF SpansTimeColumns, OnSqlite
<1>7. CASE b # "sqlite"
  <2>1. SpansTimeColumns(b) = <<x, x>>
    BY <1>2, <1>7, Zenon DEF SpansTimeColumns, OnSqlite
  <2> QED BY <1>4, <1>5, <1>7, <2>1, Zenon DEF Sound
<1> QED BY <1>6, <1>7

\* Every script is what its migration may do.
LEMMA ScriptsSound == \A b \in Databases : \A m \in 1..25 : Sound(b, m, Scripts[b][m])
<1> TAKE b \in Databases
<1> TAKE m \in 1..25
<1>1. Scripts[b][m] = Script(b, m)
  BY DEF Scripts
<1>2. \/ m = 1 \/ m = 2 \/ m = 3 \/ m = 4 \/ m = 5 \/ m = 6 \/ m = 7 \/ m = 8 \/ m = 9 \/ m = 10
      \/ m = 11 \/ m = 12 \/ m = 13 \/ m = 14 \/ m = 15 \/ m = 16 \/ m = 17 \/ m = 18 \/ m = 19 \/ m = 20
      \/ m = 21 \/ m = 22 \/ m = 23 \/ m = 24 \/ m = 25
  OBVIOUS
<1>3. CASE m = 1 \/ m = 2 \/ m = 3 \/ m = 4 \/ m = 5 \/ m = 6 \/ m = 7 \/ m = 8
  BY <1>1, <1>3, Sound1, Sound2, Sound3, Sound4, Sound5, Sound6, Sound7, Sound8 DEF Script
<1>4. CASE m = 9 \/ m = 10 \/ m = 11 \/ m = 12 \/ m = 13 \/ m = 14 \/ m = 15 \/ m = 16
  BY <1>1, <1>4, Sound6, Sound9, Sound11, Sound12, Sound13, Sound14, Sound15, Sound16 DEF Script
<1>5. CASE m = 17 \/ m = 18 \/ m = 19 \/ m = 20 \/ m = 21 \/ m = 22 \/ m = 23 \/ m = 24 \/ m = 25
  BY <1>1, <1>5, Sound17, Sound18, Sound19, Sound20, Sound21, Sound22, Sound23, Sound24, Sound25 DEF Script
<1> QED BY <1>2, <1>3, <1>4, <1>5

-----------------------------------------------------------------------------
(* Boot.  What a statement and a unit do to a database.                    *)

\* A table and a database.
Tab(sh, cs, rs) == [shape |-> sh, cols |-> cs, rows |-> rs]
Database(T, A, l, p) == [table |-> T, aside |-> A, label |-> l, pointer |-> p]

\* The parts of a table and of a database.
LEMMA TabParts ==
    ASSUME NEW sh, NEW cs, NEW rs
    PROVE  Tab(sh, cs, rs).shape = sh /\ Tab(sh, cs, rs).cols = cs /\ Tab(sh, cs, rs).rows = rs
  BY DEF Tab

LEMMA DatabaseParts ==
    ASSUME NEW T, NEW A, NEW l, NEW p
    PROVE  /\ Database(T, A, l, p).table = T /\ Database(T, A, l, p).aside = A
           /\ Database(T, A, l, p).label = l /\ Database(T, A, l, p).pointer = p
  BY DEF Database

\* Tables, and functions whatever their domain.
IsTab(x) == \E sh \in Nat : \E cs, rs : x = Tab(sh, cs, rs)
IsFcn(f) == f = [x \in DOMAIN f |-> f[x]]

\* A database as the migrations make it: a table is at its first constraints or later.
Schema(d) ==
    /\ \E T, A, l, p : d = Database(T, A, l, p)
    /\ IsFcn(d.table) /\ IsFcn(d.aside)
    /\ DOMAIN d.table \subseteq Tables /\ DOMAIN d.aside \subseteq Rebuilt
    /\ \A t \in DOMAIN d.table : IsTab(d.table[t]) /\ First(t) <= d.table[t].shape /\ d.table[t].shape <= Top(t)
    /\ \A t \in DOMAIN d.aside : IsTab(d.aside[t])

\* No table loses a column, a row that was kept or its constraints.
Grows(d, e) ==
    /\ e.aside = d.aside
    /\ DOMAIN d.table \subseteq DOMAIN e.table
    /\ \A t \in DOMAIN d.table : /\ d.table[t].cols \subseteq e.table[t].cols
                                 /\ d.table[t].shape <= e.table[t].shape
                                 /\ "kept" \in d.table[t].rows => "kept" \in e.table[t].rows

\* Facts about shapes, and that nothing is lost where nothing changes.
LEMMA ShapeIsNat == \A d : Schema(d) => \A t \in DOMAIN d.table : d.table[t].shape \in Nat
<1> TAKE d
<1> HAVE Schema(d)
<1> TAKE t \in DOMAIN d.table
<1>1. PICK sh \in Nat : \E cs, rs : d.table[t] = Tab(sh, cs, rs)
  BY DEF Schema, IsTab
<1>2. PICK cs, rs : d.table[t] = Tab(sh, cs, rs)
  BY <1>1
<1> QED BY <1>1, <1>2, TabParts

LEMMA GrowsSame == ASSUME NEW d, Schema(d) PROVE Grows(d, d)
  BY ShapeIsNat DEF Grows

\* One table is created or replaced by one that has no less.
LEMMA Put ==
    ASSUME NEW d, Schema(d), NEW T, NEW A, NEW l, NEW p, d = Database(T, A, l, p),
           NEW t \in Tables, NEW sh \in Nat, NEW cs, NEW rs, First(t) <= sh, sh <= Top(t),
           NEW U, IsFcn(U), DOMAIN U = DOMAIN T \union {t}, U[t] = Tab(sh, cs, rs),
           \A x \in DOMAIN T \ {t} : U[x] = T[x],
           t \in DOMAIN T => /\ T[t].cols \subseteq cs /\ T[t].shape <= sh
                             /\ "kept" \in T[t].rows => "kept" \in rs
    PROVE  /\ Schema(Database(U, A, l, p)) /\ Grows(d, Database(U, A, l, p))
           /\ t \in DOMAIN Database(U, A, l, p).table /\ Database(U, A, l, p).table[t] = Tab(sh, cs, rs)
           /\ Database(U, A, l, p).pointer = d.pointer
<1> DEFINE e == Database(U, A, l, p)
<1>1. /\ e.table = U /\ e.aside = A /\ e.label = l /\ e.pointer = p
      /\ d.table = T /\ d.aside = A /\ d.label = l /\ d.pointer = p
  BY DatabaseParts
<1>2. \E T2, A2, l2, p2 : e = Database(T2, A2, l2, p2)
  OBVIOUS
<1> HIDE DEF e
<1>3. ASSUME NEW x \in DOMAIN U
      PROVE  IsTab(U[x]) /\ First(x) <= U[x].shape /\ U[x].shape <= Top(x)
  <2>1. CASE x = t
    BY <2>1, TabParts DEF IsTab
  <2>2. CASE x # t
    BY <1>1, <1>3, <2>2 DEF Schema
  <2> QED BY <2>1, <2>2
<1>4. Schema(e)
  BY <1>1, <1>2, <1>3 DEF Schema
<1>5. ASSUME NEW x \in DOMAIN T
      PROVE  /\ T[x].cols \subseteq U[x].cols
             /\ T[x].shape <= U[x].shape
             /\ "kept" \in T[x].rows => "kept" \in U[x].rows
  <2>1. CASE x = t
    <3>1. U[t].cols = cs /\ U[t].shape = sh /\ U[t].rows = rs
      BY TabParts
    <3> QED BY <2>1, <1>5, <3>1
  <2>2. CASE x # t
    <3>1. U[x] = T[x]
      BY <2>2, <1>5
    <3>2. T[x].shape \in Nat
      BY <1>1, <1>5, ShapeIsNat
    <3>3. T[x].shape <= T[x].shape
      BY <3>2
    <3> QED BY <3>1, <3>3, Zenon
  <2> QED BY <2>1, <2>2
<1>6. Grows(d, e)
  BY <1>1, <1>5 DEF Grows
<1> QED BY <1>1, <1>4, <1>6 DEF e

\* What is known of a legal statement.
LEMMA LegalParts ==
    ASSUME NEW b, NEW m, NEW s \in Legal(b, m)
    PROVE  /\ s.does \in Doings /\ s.table \in Tables /\ s.arg \in Columns \union Nat
           /\ Fits(b, m, s.does, s.table, s.arg)
  BY Zenon DEF Legal

\* An edit of one table: its columns grow, its orphans go, or it gets later constraints.
LEMMA EditStep ==
    ASSUME NEW d, Schema(d), NEW t \in DOMAIN d.table,
           NEW sh \in Nat, d.table[t].shape <= sh, sh <= Top(t),
           NEW cs, d.table[t].cols \subseteq cs,
           NEW rs, "kept" \in d.table[t].rows => "kept" \in rs,
           NEW e, e = [d EXCEPT !.table[t] = Tab(sh, cs, rs)]
    PROVE  Schema(e) /\ Grows(d, e) /\ e.pointer = d.pointer /\ t \in DOMAIN e.table /\ e.table[t] = Tab(sh, cs, rs)
<1>1. PICK T, A, l, p : d = Database(T, A, l, p)
  BY DEF Schema
<1>2. d.table = T /\ d.aside = A
  BY <1>1, DatabaseParts
<1>3. T[t].shape \in Nat /\ First(t) \in Nat /\ First(t) <= T[t].shape /\ t \in Tables
  BY <1>2, ShapeIsNat DEF Schema, First
<1>4. First(t) <= sh
  BY <1>2, <1>3
<1>5. T = [x \in DOMAIN T |-> T[x]] /\ t \in DOMAIN T
  BY <1>2 DEF Schema, IsFcn
<1>6. PICK v : v = Tab(sh, cs, rs)
  OBVIOUS
<1> DEFINE U == [T EXCEPT ![t] = v]
<1>7. IsFcn(U) /\ DOMAIN U = DOMAIN T \union {t} /\ U[t] = v /\ \A x \in DOMAIN T \ {t} : U[x] = T[x]
  BY <1>5 DEF IsFcn
<1>8. e = Database(U, A, l, p)
  <2>1. e = [d EXCEPT !.table[t] = v]
    BY <1>6
  <2> QED BY <1>1, <2>1 DEF Database
<1> HIDE DEF U
<1> QED BY <1>1, <1>2, <1>3, <1>4, <1>6, <1>7, <1>8, Put

\* An edit of one field.
LEMMA ColsEdit ==
    ASSUME NEW d, Schema(d), NEW t \in DOMAIN d.table, NEW X, NEW e, e = [d EXCEPT !.table[t].cols = X]
    PROVE  e = [d EXCEPT !.table[t] = Tab(d.table[t].shape, X, d.table[t].rows)]
<1>1. PICK T, A, l, p : d = Database(T, A, l, p)
  BY DEF Schema
<1>2. d.table = T
  BY <1>1, DatabaseParts
<1>3. PICK sh, cs, rs : T[t] = Tab(sh, cs, rs)
  BY <1>2 DEF Schema, IsTab
<1>4. T[t].shape = sh /\ T[t].cols = cs /\ T[t].rows = rs
  BY <1>3, TabParts
<1>5. T = [x \in DOMAIN T |-> T[x]] /\ t \in DOMAIN T
  BY <1>2 DEF Schema, IsFcn
<1>6. [T[t] EXCEPT !.cols = X] = Tab(sh, X, rs)
  BY <1>3 DEF Tab
<1>7. e = [d EXCEPT !.table[t] = [T[t] EXCEPT !.cols = X]]
  BY <1>1, <1>5 DEF Database
<1> QED BY <1>2, <1>4, <1>6, <1>7

\* New rows, or new constraints, are a new value of the table.
LEMMA RowsEdit ==
    ASSUME NEW d, Schema(d), NEW t \in DOMAIN d.table, NEW X, NEW e, e = [d EXCEPT !.table[t].rows = X]
    PROVE  e = [d EXCEPT !.table[t] = Tab(d.table[t].shape, d.table[t].cols, X)]
<1>1. PICK T, A, l, p : d = Database(T, A, l, p)
  BY DEF Schema
<1>2. d.table = T
  BY <1>1, DatabaseParts
<1>3. PICK sh, cs, rs : T[t] = Tab(sh, cs, rs)
  BY <1>2 DEF Schema, IsTab
<1>4. T[t].shape = sh /\ T[t].cols = cs /\ T[t].rows = rs
  BY <1>3, TabParts
<1>5. T = [x \in DOMAIN T |-> T[x]] /\ t \in DOMAIN T
  BY <1>2 DEF Schema, IsFcn
<1>6. [T[t] EXCEPT !.rows = X] = Tab(sh, cs, X)
  BY <1>3 DEF Tab
<1>7. e = [d EXCEPT !.table[t] = [T[t] EXCEPT !.rows = X]]
  BY <1>1, <1>5 DEF Database
<1> QED BY <1>2, <1>4, <1>6, <1>7

LEMMA ShapeEdit ==
    ASSUME NEW d, Schema(d), NEW t \in DOMAIN d.table, NEW X, NEW e, e = [d EXCEPT !.table[t].shape = X]
    PROVE  e = [d EXCEPT !.table[t] = Tab(X, d.table[t].cols, d.table[t].rows)]
<1>1. PICK T, A, l, p : d = Database(T, A, l, p)
  BY DEF Schema
<1>2. d.table = T
  BY <1>1, DatabaseParts
<1>3. PICK sh, cs, rs : T[t] = Tab(sh, cs, rs)
  BY <1>2 DEF Schema, IsTab
<1>4. T[t].shape = sh /\ T[t].cols = cs /\ T[t].rows = rs
  BY <1>3, TabParts
<1>5. T = [x \in DOMAIN T |-> T[x]] /\ t \in DOMAIN T
  BY <1>2 DEF Schema, IsFcn
<1>6. [T[t] EXCEPT !.shape = X] = Tab(X, cs, rs)
  BY <1>3 DEF Tab
<1>7. e = [d EXCEPT !.table[t] = [T[t] EXCEPT !.shape = X]]
  BY <1>1, <1>5 DEF Database
<1> QED BY <1>2, <1>4, <1>6, <1>7

LEMMA ShapeBound ==
    ASSUME NEW d, Schema(d), NEW t \in DOMAIN d.table
    PROVE  /\ d.table[t].shape \in Nat /\ d.table[t].shape <= Top(t) /\ d.table[t].shape <= d.table[t].shape
           /\ First(t) <= d.table[t].shape
<1>1. d.table[t].shape \in Nat
  BY ShapeIsNat
<1> QED BY <1>1 DEF Schema

\* What With and Without make of a function.
LEMMA WithIs ==
    ASSUME NEW f, NEW t, NEW v
    PROVE  /\ IsFcn(With(f, t, v)) /\ DOMAIN With(f, t, v) = DOMAIN f \union {t} /\ With(f, t, v)[t] = v
           /\ \A x \in DOMAIN f \ {t} : With(f, t, v)[x] = f[x]
  BY DEF With, IsFcn

LEMMA WithoutIs ==
    ASSUME NEW f, NEW t
    PROVE  /\ IsFcn(Without(f, t)) /\ DOMAIN Without(f, t) = DOMAIN f \ {t}
           /\ \A x \in DOMAIN f \ {t} : Without(f, t)[x] = f[x]
  BY DEF Without, IsFcn

\* A table is added.
LEMMA AddTable ==
    ASSUME NEW d, Schema(d), NEW t \in Tables, t \notin DOMAIN d.table, NEW m \in Nat, First(t) <= m, m <= Top(t),
           NEW cs, NEW e, e = [d EXCEPT !.table = With(@, t, Fresh(m, cs))]
    PROVE  Schema(e) /\ Grows(d, e) /\ e.pointer = d.pointer /\ t \in DOMAIN e.table /\ e.table[t].shape = m
           /\ e.table[t].cols = cs
<1>1. PICK T, A, l, p : d = Database(T, A, l, p)
  BY DEF Schema
<1>2. d.table = T
  BY <1>1, DatabaseParts
<1>3. Fresh(m, cs) = Tab(m, cs, {})
  BY DEF Fresh, Tab
<1>4. PICK v : v = Tab(m, cs, {})
  OBVIOUS
<1> DEFINE U == With(T, t, v)
<1>5. e = Database(U, A, l, p)
  BY <1>1, <1>2, <1>3, <1>4 DEF Database
<1>9. IsFcn(U) /\ DOMAIN U = DOMAIN T \union {t} /\ U[t] = v /\ \A x \in DOMAIN T \ {t} : U[x] = T[x]
  BY DEF U, With, IsFcn
<1> HIDE DEF U
<1>6. /\ Schema(Database(U, A, l, p)) /\ Grows(d, Database(U, A, l, p))
      /\ t \in DOMAIN Database(U, A, l, p).table /\ Database(U, A, l, p).table[t] = Tab(m, cs, {})
      /\ Database(U, A, l, p).pointer = d.pointer
  BY <1>1, <1>2, <1>4, <1>9, Put
<1>7. e.table[t] = Tab(m, cs, {})
  BY <1>5, <1>6
<1>8. e.table[t].shape = m /\ e.table[t].cols = cs
  BY <1>7, TabParts
<1> QED BY <1>5, <1>6, <1>8

\* The pointers are set.
LEMMA BackfillStep ==
    ASSUME NEW d, Schema(d), NEW X
    PROVE  /\ Schema([d EXCEPT !.pointer = X]) /\ Grows(d, [d EXCEPT !.pointer = X])
           /\ [d EXCEPT !.pointer = X].table = d.table /\ [d EXCEPT !.pointer = X].aside = d.aside
           /\ [d EXCEPT !.pointer = X].pointer = X
<1>1. PICK T, A, l, p : d = Database(T, A, l, p)
  BY DEF Schema
<1> DEFINE e == [d EXCEPT !.pointer = X]
<1>2. e = Database(T, A, l, X)
  BY <1>1 DEF Database
<1> HIDE DEF e
<1>3. /\ d.table = T /\ d.aside = A /\ d.label = l
      /\ e.table = T /\ e.aside = A /\ e.label = l /\ e.pointer = X
  BY <1>1, <1>2, DatabaseParts
<1>4. Schema(e)
  <2>1. \E T2, A2, l2, p2 : e = Database(T2, A2, l2, p2)
    BY <1>2
  <2> QED BY <1>3, <2>1 DEF Schema
<1>5. Grows(d, d)
  BY GrowsSame
<1>6. Grows(d, e)
  BY <1>3, <1>5 DEF Grows
<1> QED BY <1>3, <1>4, <1>6 DEF e

\* What a statement does that rebuilds no table.
LEMMA GentleStep ==
    ASSUME NEW b, NEW m \in 1..25, NEW s \in Legal(b, m), s.does \in Gentle, NEW d, Schema(d), Works(s, d)
    PROVE  /\ Schema(Effect(s, d)) /\ Grows(d, Effect(s, d)) /\ InEffect(s, Effect(s, d))
           /\ s.does # "backfill" => Effect(s, d).pointer = d.pointer
<1> DEFINE e == Effect(s, d)
<1>0. PICK t, a : t = s.table /\ a = s.arg
  OBVIOUS
<1>1. /\ t \in Tables /\ a \in Columns \union Nat
      /\ First(t) <= m
      /\ s.does \in {"ensure", "create", "constrain"} => a = m /\ m <= Top(t)
      /\ s.does = "ensure" => First(t) = m
      /\ s.does = "constrain" => m = Top(t) \/ (t = "spans" /\ m = 24)
  BY <1>0, LegalParts DEF Fits
<1>2. m \in Nat
  OBVIOUS
<1>3. CASE s.does = "ensure"
  <2>1. a = m /\ m <= Top(t) /\ First(t) = m
    BY <1>1, <1>3
  <2>2. CASE t \in DOMAIN d.table
    <3>1. e = d
      BY <1>0, <1>3, <2>2 DEF Effect
    <3>2. m <= d.table[t].shape
      BY <2>1, <2>2 DEF Schema
    <3>3. d.table[t].shape >= m
      BY <1>2, <2>2, <3>2, ShapeIsNat
    <3>4. InEffect(s, d)
      BY <1>0, <1>3, <2>1, <2>2, <3>3 DEF InEffect
    <3> QED BY <3>1, <3>4, GrowsSame
  <2>3. CASE t \notin DOMAIN d.table
    <3>1. e = [d EXCEPT !.table = With(@, t, Fresh(a, {}))]
      BY <1>0, <1>3, <2>3 DEF Effect
    <3> HIDE DEF e
    <3>2. Schema(e) /\ Grows(d, e) /\ e.pointer = d.pointer /\ t \in DOMAIN e.table /\ e.table[t].shape = m
      BY <1>1, <1>2, <2>1, <2>3, <3>1, AddTable
    <3>3. e.table[t].shape >= m
      BY <1>2, <3>2
    <3>4. InEffect(s, e)
      BY <1>0, <1>3, <2>1, <3>2, <3>3 DEF InEffect
    <3> QED BY <3>2, <3>4 DEF e
  <2> QED BY <2>2, <2>3
<1>4. CASE s.does \in {"add", "supply"}
  <2>1. t \in DOMAIN d.table
    BY <1>0, <1>4 DEF Works
  <2>2. e = [d EXCEPT !.table[t].cols = @ \union {a}]
    BY <1>0, <1>4 DEF Effect, AddedTo
  <2>5. PICK T : T = d.table[t]
    OBVIOUS
  <2>6. PICK cs : cs = T.cols \union {a}
    OBVIOUS
  <2> HIDE DEF e
  <2>10. e = [d EXCEPT !.table[t].cols = cs]
    BY <2>2, <2>5, <2>6
  <2>7. e = [d EXCEPT !.table[t] = Tab(T.shape, cs, T.rows)]
    BY <2>1, <2>5, <2>10, ColsEdit
  <2>8. T.shape \in Nat /\ T.shape <= Top(t) /\ T.shape <= T.shape
    BY <2>1, <2>5, ShapeBound
  <2>3. /\ Schema(e) /\ Grows(d, e) /\ e.pointer = d.pointer /\ t \in DOMAIN e.table
        /\ e.table[t] = Tab(T.shape, cs, T.rows)
    BY SMTT(40), <2>1, <2>5, <2>6, <2>7, <2>8, EditStep
  <2>9. e.table[t].cols = cs
    BY <2>3, TabParts
  <2>4. InEffect(s, e)
    BY <1>0, <1>4, <2>3, <2>6, <2>9 DEF InEffect
  <2> QED BY <2>3, <2>4 DEF e
<1>5. CASE s.does = "prune"
  <2>1. t \in DOMAIN d.table
    BY <1>0, <1>5 DEF Works
  <2>2. e = [d EXCEPT !.table[t].rows = @ \ {"orphan"}]
    BY <1>0, <1>5 DEF Effect
  <2> HIDE DEF e
  <2>5. PICK T : T = d.table[t]
    OBVIOUS
  <2>6. PICK rs : rs = T.rows \ {"orphan"}
    OBVIOUS
  <2>10. e = [d EXCEPT !.table[t].rows = rs]
    BY <2>2, <2>5, <2>6
  <2>7. e = [d EXCEPT !.table[t] = Tab(T.shape, T.cols, rs)]
    BY <2>1, <2>5, <2>10, RowsEdit
  <2>8. T.shape \in Nat /\ T.shape <= Top(t) /\ T.shape <= T.shape
    BY <2>1, <2>5, ShapeBound
  <2>3. Schema(e) /\ Grows(d, e) /\ e.pointer = d.pointer /\ t \in DOMAIN e.table
    BY <2>1, <2>5, <2>6, <2>7, <2>8, EditStep
  <2>4. InEffect(s, e)
    BY <1>0, <1>5, <2>3 DEF InEffect
  <2> QED BY <2>3, <2>4 DEF e
<1>6. CASE s.does = "constrain"
  <2>1. t \in DOMAIN d.table
    BY <1>0, <1>6 DEF Works
  <2>2. a = m /\ m <= Top(t) /\ (m = Top(t) \/ (t = "spans" /\ m = 24))
    BY <1>1, <1>6
  <2>3. d.table[t].shape \in Nat /\ d.table[t].shape <= Top(t)
    BY <2>1, ShapeIsNat DEF Schema
  <2>4. e = [d EXCEPT !.table[t].shape = IF t = "spans" /\ @ = 25 THEN @ ELSE m]
    BY <1>0, <1>6, <2>2 DEF Effect
  <2> DEFINE k == IF t = "spans" /\ d.table[t].shape = 25 THEN d.table[t].shape ELSE m
  <2>5. e = [d EXCEPT !.table[t].shape = k]
    BY <2>4
  <2>6. k \in Nat /\ d.table[t].shape <= k /\ k <= Top(t) /\ k >= m
    BY <1>2, <2>2, <2>3, RebuiltTables
  <2> HIDE DEF e, k
  <2>11. PICK cs, rs : cs = d.table[t].cols /\ rs = d.table[t].rows
    OBVIOUS
  <2>9. e = [d EXCEPT !.table[t] = Tab(k, cs, rs)]
    BY SMTT(40), <2>1, <2>5, <2>11, ShapeEdit
  <2>10. /\ Schema(e) /\ Grows(d, e) /\ e.pointer = d.pointer /\ t \in DOMAIN e.table
         /\ e.table[t] = Tab(k, cs, rs)
    BY <2>1, <2>6, <2>9, <2>11, EditStep
  <2>7. Schema(e) /\ Grows(d, e) /\ e.pointer = d.pointer /\ t \in DOMAIN e.table /\ e.table[t].shape = k
    BY <2>10, TabParts
  <2>8. InEffect(s, e)
    BY <1>0, <1>6, <2>2, <2>6, <2>7 DEF InEffect
  <2> QED BY <2>7, <2>8 DEF e
<1>7. CASE s.does = "backfill"
  <2>1. t \in DOMAIN d.table
    BY <1>0, <1>7 DEF Works
  <2>2. e = [d EXCEPT !.pointer = d.label]
    BY <1>0, <1>7 DEF Effect
  <2> HIDE DEF e
  <2>3. Schema(e) /\ Grows(d, e) /\ e.table = d.table
    BY <2>2, BackfillStep
  <2>4. InEffect(s, e)
    BY <1>0, <1>7, <2>1, <2>3 DEF InEffect
  <2> QED BY <1>7, <2>3, <2>4 DEF e
<1>8. CASE s.does = "type"
  <2>1. t \in DOMAIN d.table
    BY <1>0, <1>8 DEF Works
  <2>2. e = d
    BY <1>0, <1>8 DEF Effect
  <2>3. InEffect(s, d)
    BY <1>0, <1>8, <2>1 DEF InEffect
  <2> QED BY <2>2, <2>3, GrowsSame
<1> QED BY <1>3, <1>4, <1>5, <1>6, <1>7, <1>8 DEF Gentle

\* Induction over an interval, from the minimum of a set of counterexamples.
LEMMA Ascends ==
    ASSUME NEW n \in Nat, NEW S, 0 \in S, \A i \in 1..n : i - 1 \in S => i \in S
    PROVE  \A i \in 0..n : i \in S
<1> DEFINE Gap == {i \in 0..n : i \notin S}
<1> SUFFICES ASSUME Gap # {} PROVE FALSE
  OBVIOUS
<1>1. IsWellFoundedOn(OpToRel(<, Nat), Nat)
  BY NatLessThanWellFounded
<1>2. PICK i \in Gap : \A j \in Gap : <<j, i>> \notin OpToRel(<, Nat)
  <2> HIDE DEF Gap
  <2>1. Gap \subseteq Nat
    BY DEF Gap
  <2> QED BY <1>1, <2>1, WFMin
<1>3. i \in 1..n /\ i - 1 \in 0..n
  OBVIOUS
<1>4. <<i - 1, i>> \in OpToRel(<, Nat)
  <2>1. OpToRel(<, Nat) = {ss \in Nat \X Nat : ss[1] < ss[2]}
    BY DEF OpToRel
  <2>2. i - 1 \in Nat /\ i \in Nat /\ i - 1 < i
    BY <1>3
  <2> QED BY <2>1, <2>2
<1> QED BY <1>2, <1>3, <1>4

\* Outcomes is the last of a chain of sets, one for each statement.
LEMMA OutcomesAre ==
    ASSUME NEW unit, NEW d, Len(unit) \in Nat
    PROVE  \E f : /\ DOMAIN f = 0..Len(unit)
                  /\ f[0] = {d}
                  /\ \A i \in 1..Len(unit) : f[i] = After(unit[i], f[i - 1])
                  /\ Outcomes(unit, d) = f[Len(unit)]
<1> DEFINE n == Len(unit)
           Upto(i, g) == g = [j \in 0..i |-> IF j = 0 THEN {d} ELSE After(unit[j], g[j - 1])]
           Done == {i \in 0..n : \E g : Upto(i, g)}
<1>1. 0 \in Done
  <2>1. Upto(0, [j \in 0..0 |-> {d}])
    BY SMT
  <2> HIDE DEF Upto
  <2> QED BY <2>1
<1>2. ASSUME NEW i \in 1..n, i - 1 \in Done PROVE i \in Done
  <2>1. PICK g : Upto(i - 1, g)
    BY <1>2
  <2> DEFINE h == [j \in 0..i |-> IF j = i THEN After(unit[i], g[i - 1]) ELSE g[j]]
  <2>2. ASSUME NEW j \in 0..i PROVE h[j] = IF j = 0 THEN {d} ELSE After(unit[j], h[j - 1])
    <3>1. CASE j = i
      BY <3>1
    <3>2. CASE j # i
      <4>1. j \in 0..(i - 1) /\ (j # 0 => j - 1 \in 0..i /\ j - 1 # i)
        BY <3>2
      <4>2. h[j] = g[j] /\ (j # 0 => h[j - 1] = g[j - 1])
        BY <4>1
      <4>3. g[j] = IF j = 0 THEN {d} ELSE After(unit[j], g[j - 1])
        BY <2>1, <4>1
      <4> QED BY <4>2, <4>3
    <3> QED BY <3>1, <3>2
  <2>3. h = [j \in 0..i |-> IF j = 0 THEN {d} ELSE After(unit[j], h[j - 1])]
    BY <2>2
  <2>4. Upto(i, h)
    BY <2>3
  <2> HIDE DEF Upto, h
  <2> QED BY <2>4
<1>3. n \in Done
  <2> HIDE DEF Done
  <2>1. n \in Nat /\ n \in 0..n
    OBVIOUS
  <2>2. \A i \in 1..n : i - 1 \in Done => i \in Done
    BY <1>2
  <2> HIDE DEF n
  <2> QED BY <1>1, <2>1, <2>2, Ascends
<1>4. \E g : Upto(n, g)
  BY <1>3
<1> DEFINE f == CHOOSE g : Upto(n, g)
<1>5. Upto(n, f)
  BY <1>4
<1>6. Outcomes(unit, d) = f[n]
  BY DEF Outcomes
<1> HIDE DEF f
<1>7. f = [j \in 0..n |-> IF j = 0 THEN {d} ELSE After(unit[j], f[j - 1])]
  BY <1>5
<1>8. DOMAIN f = 0..n /\ f[0] = {d} /\ \A i \in 1..n : f[i] = After(unit[i], f[i - 1])
  <2>1. \A j \in 0..n : f[j] = IF j = 0 THEN {d} ELSE After(unit[j], f[j - 1])
    BY <1>7, Zenon
  <2>2. DOMAIN f = 0..n
    BY <1>7, Zenon
  <2>3. n \in Nat
    OBVIOUS
  <2> HIDE DEF n
  <2> QED BY <2>1, <2>2, <2>3
<1> QED BY <1>6, <1>8

\* Two steps that lose nothing lose nothing together.
LEMMA GrowsTwice ==
    ASSUME NEW d, NEW e, NEW f, Schema(d), Schema(e), Schema(f), Grows(d, e), Grows(e, f)
    PROVE  Grows(d, f)
<1>1. f.aside = d.aside /\ DOMAIN d.table \subseteq DOMAIN f.table
  BY DEF Grows
<1>2. ASSUME NEW t \in DOMAIN d.table
      PROVE  /\ d.table[t].cols \subseteq f.table[t].cols
             /\ d.table[t].shape <= f.table[t].shape
             /\ "kept" \in d.table[t].rows => "kept" \in f.table[t].rows
  <2>1. t \in DOMAIN e.table /\ t \in DOMAIN f.table
    BY <1>2 DEF Grows
  <2>2. d.table[t].shape \in Nat /\ e.table[t].shape \in Nat /\ f.table[t].shape \in Nat
    BY <1>2, <2>1, ShapeIsNat
  <2>3. d.table[t].shape <= e.table[t].shape /\ e.table[t].shape <= f.table[t].shape
    BY <1>2, <2>1 DEF Grows
  <2>4. d.table[t].cols \subseteq e.table[t].cols /\ e.table[t].cols \subseteq f.table[t].cols
    BY <1>2, <2>1 DEF Grows
  <2>5. ("kept" \in d.table[t].rows => "kept" \in e.table[t].rows) /\ ("kept" \in e.table[t].rows => "kept" \in f.table[t].rows)
    BY <1>2, <2>1 DEF Grows
  <2> QED BY <2>2, <2>3, <2>4, <2>5
<1> QED BY <1>1, <1>2 DEF Grows

\* What is in effect stays in effect.
LEMMA EffectStays ==
    ASSUME NEW b, NEW m \in Nat, NEW s \in Legal(b, m), NEW d, NEW e, Schema(d), Schema(e), Grows(d, e), InEffect(s, d)
    PROVE  InEffect(s, e)
<1>1. CASE s.table \in DOMAIN d.aside
  BY <1>1 DEF Grows, InEffect
<1>2. CASE s.table \notin DOMAIN d.aside
  <2> DEFINE t == s.table
  <2>1. t \in DOMAIN d.table /\ t \in DOMAIN e.table
    BY <1>2 DEF InEffect, Grows
  <2>2. d.table[t].shape <= e.table[t].shape /\ d.table[t].cols \subseteq e.table[t].cols
    BY <2>1 DEF Grows
  <2>3. d.table[t].shape \in Nat /\ e.table[t].shape \in Nat
    BY <2>1, ShapeIsNat
  <2>7. Fits(b, m, s.does, s.table, s.arg)
    BY LegalParts, Zenon
  <2>8. s.does \in {"ensure", "create", "constrain"} => s.arg = m
    BY <2>7 DEF Fits
  <2>4. s.does \in {"ensure", "create", "constrain"} => s.arg = m /\ d.table[t].shape >= s.arg
    BY <1>2, <2>8 DEF InEffect
  <2>5. s.does \in {"ensure", "create", "constrain"} => e.table[t].shape >= s.arg
    BY <2>2, <2>3, <2>4
  <2>6. s.does \in {"add", "supply"} => s.arg \in e.table[t].cols
    BY <1>2, <2>2 DEF InEffect
  <2> QED BY <2>1, <2>5, <2>6 DEF InEffect
<1> QED BY <1>1, <1>2

\* A unit of one statement.
LEMMA OneUnit ==
    ASSUME NEW s, NEW d
    PROVE  Outcomes(<<s>>, d) = {Effect(s, x) : x \in {y \in {d} : Works(s, y)}}
<1>1. PICK unit : unit = <<s>>
  OBVIOUS
<1>2. Len(unit) = 1 /\ unit[1] = s /\ Len(unit) \in Nat
  BY <1>1, OneOf
<1>3. PICK f : /\ DOMAIN f = 0..Len(unit) /\ f[0] = {d}
               /\ \A i \in 1..Len(unit) : f[i] = After(unit[i], f[i - 1])
               /\ Outcomes(unit, d) = f[Len(unit)]
  BY ZenonT(40), <1>2, OutcomesAre
<1>4. f[1] = After(s, f[0])
  <2>1. 1 \in 1..Len(unit) /\ 1 - 1 = 0
    BY <1>2
  <2> QED BY <1>2, <1>3, <2>1
<1> QED BY <1>1, <1>2, <1>3, <1>4 DEF After

\* A unit that rebuilds no table, and what it does.
GentleOnes(b, m, unit) == unit \in Seq(Legal(b, m)) /\ \A i \in 1..Len(unit) : unit[i].does \in Gentle
Added(m, unit, d, e) ==
    /\ Schema(e) /\ Grows(d, e)
    /\ \A i \in 1..Len(unit) : InEffect(unit[i], e)
    /\ Len(unit) > 0 => Works(unit[1], d)
    /\ m # 21 => e.pointer = d.pointer

\* By induction over the statements of the unit.
LEMMA GentleUnit ==
    ASSUME NEW b, NEW m \in 1..25, NEW unit, GentleOnes(b, m, unit), NEW d, Schema(d), NEW e \in Outcomes(unit, d)
    PROVE  Added(m, unit, d, e)
<1> USE DEF GentleOnes
<1> DEFINE n == Len(unit)
<1>0. n \in Nat /\ m \in Nat
  OBVIOUS
<1>1. PICK f : /\ DOMAIN f = 0..n /\ f[0] = {d}
               /\ \A i \in 1..n : f[i] = After(unit[i], f[i - 1])
               /\ Outcomes(unit, d) = f[n]
  BY <1>0, OutcomesAre
<1> DEFINE Good(i, x) == /\ Schema(x) /\ Grows(d, x)
                         /\ \A j \in 1..i : InEffect(unit[j], x)
                         /\ i > 0 => Works(unit[1], d)
                         /\ m # 21 => x.pointer = d.pointer
           S == {i \in 0..n : \A x \in f[i] : Good(i, x)}
<1>2. 0 \in S
  <2>1. Good(0, d)
    BY GrowsSame
  <2> HIDE DEF Good
  <2> QED BY <1>0, <1>1, <2>1
<1>3. ASSUME NEW i \in 1..n, i - 1 \in S PROVE i \in S
  <2> SUFFICES ASSUME NEW x \in f[i] PROVE Good(i, x)
    BY <1>0
  <2>1. PICK y \in f[i - 1] : Works(unit[i], y) /\ x = Effect(unit[i], y)
    BY <1>1 DEF After
  <2>2. Good(i - 1, y)
    BY <1>3
  <2>3. PICK s : s = unit[i]
    OBVIOUS
  <2>4. s \in Legal(b, m) /\ s.does \in Gentle
    BY <2>3
  <2>5. Schema(y) /\ Works(s, y)
    BY <2>1, <2>2, <2>3
  <2>6. Schema(x) /\ Grows(y, x) /\ InEffect(s, x) /\ (s.does # "backfill" => x.pointer = y.pointer)
    BY <2>1, <2>3, <2>4, <2>5, GentleStep
  <2>7. Grows(d, x)
    BY <2>2, <2>6, GrowsTwice
  <2>8. ASSUME NEW j \in 1..i PROVE InEffect(unit[j], x)
    <3>1. CASE j = i
      BY <2>3, <2>6, <3>1
    <3>2. CASE j # i
      <4>1. j \in 1..(i - 1) /\ j \in 1..n
        BY <1>0, <3>2
      <4>2. InEffect(unit[j], y)
        BY <2>2, <4>1
      <4>3. PICK r : r = unit[j]
        OBVIOUS
      <4>4. r \in Legal(b, m)
        BY <4>1, <4>3
      <4> QED BY <1>0, <2>2, <2>6, <4>2, <4>3, <4>4, EffectStays
    <3> QED BY <3>1, <3>2
  <2>9. Works(unit[1], d)
    <3>1. CASE i = 1
      BY <1>1, <2>1, <3>1
    <3>2. CASE i # 1
      <4>1. i - 1 > 0
        BY <3>2
      <4> QED BY <2>2, <4>1
    <3> QED BY <3>1, <3>2
  <2>10. m # 21 => x.pointer = d.pointer
    <3>1. s.does = "backfill" => m = 21
      BY <2>4, LegalParts DEF Fits
    <3> QED BY <2>2, <2>6, <3>1
  <2> QED BY <2>6, <2>7, <2>8, <2>9, <2>10
<1>4. n \in S
  <2> HIDE DEF S
  <2>1. n \in 0..n
    BY <1>0
  <2> HIDE DEF n
  <2> QED BY <1>0, <1>2, <1>3, <2>1, Ascends
<1>5. Good(n, e)
  BY <1>1, <1>4
<1> QED BY <1>5 DEF Added

\* The parts of a database, by its name.
LEMMA IsDatabase ==
    ASSUME NEW e, NEW T, NEW A, NEW l, NEW p, e = Database(T, A, l, p)
    PROVE  e.table = T /\ e.aside = A /\ e.label = l /\ e.pointer = p
  BY DEF Database

\* The statements of a rebuild.
LEMMA RenameStep ==
    ASSUME NEW d, Schema(d), NEW s, s.does = "rename", s.table \in Rebuilt, Works(s, d), NEW e, e = Effect(s, d)
    PROVE  /\ Schema(e) /\ e.pointer = d.pointer
           /\ s.table \in DOMAIN d.table /\ s.table \notin DOMAIN d.aside
           /\ DOMAIN e.table = DOMAIN d.table \ {s.table} /\ DOMAIN e.aside = DOMAIN d.aside \union {s.table}
           /\ e.aside[s.table] = d.table[s.table]
           /\ \A x \in DOMAIN d.table \ {s.table} : e.table[x] = d.table[x]
           /\ \A x \in DOMAIN d.aside \ {s.table} : e.aside[x] = d.aside[x]
<1>1. PICK T, A, l, p : d = Database(T, A, l, p)
  BY DEF Schema
<1>2. PICK t : t = s.table
  OBVIOUS
<1>3. d.table = T /\ d.aside = A /\ d.label = l /\ d.pointer = p
  BY <1>1, DatabaseParts
<1>4. t \in DOMAIN T /\ t \notin DOMAIN A /\ t \in Rebuilt
  BY <1>2, <1>3 DEF Works
<1>5. PICK v : v = T[t]
  OBVIOUS
<1> DEFINE U == Without(T, t)
           B == With(A, t, v)
<1>6. e = Database(U, B, l, p)
  <2>1. e = [d EXCEPT !.aside = With(d.aside, t, d.table[t]), !.table = Without(d.table, t)]
    BY <1>2 DEF Effect
  <2>2. e = [d EXCEPT !.aside = B, !.table = U]
    BY <1>3, <1>5, <2>1
  <2> HIDE DEF U, B
  <2> QED BY <1>1, <2>2 DEF Database
<1>7. IsFcn(U) /\ DOMAIN U = DOMAIN T \ {t} /\ \A x \in DOMAIN T \ {t} : U[x] = T[x]
  BY DEF U, Without, IsFcn
<1>8. IsFcn(B) /\ DOMAIN B = DOMAIN A \union {t} /\ B[t] = v /\ \A x \in DOMAIN A \ {t} : B[x] = A[x]
  BY DEF B, With, IsFcn
<1> HIDE DEF U, B
<1>9. e.table = U /\ e.aside = B /\ e.label = l /\ e.pointer = p
  BY <1>6, DatabaseParts
<1>10. Schema(e)
  <2>1. \E T2, A2, l2, p2 : e = Database(T2, A2, l2, p2)
    BY <1>6
  <2>2. ASSUME NEW x \in DOMAIN U PROVE IsTab(U[x]) /\ First(x) <= U[x].shape /\ U[x].shape <= Top(x)
    BY <1>3, <1>7, <2>2 DEF Schema
  <2>3. ASSUME NEW x \in DOMAIN B PROVE IsTab(B[x])
    BY <1>3, <1>4, <1>5, <1>8, <2>3 DEF Schema
  <2> QED BY <1>3, <1>4, <1>7, <1>8, <1>9, <2>1, <2>2, <2>3 DEF Schema
<1> QED BY <1>2, <1>3, <1>4, <1>5, <1>7, <1>8, <1>9, <1>10

LEMMA CreateStep ==
    ASSUME NEW d, Schema(d), NEW m \in Nat, NEW s \in Legal("sqlite", m), s.does = "create", Works(s, d), NEW e, e = Effect(s, d)
    PROVE  /\ Schema(e) /\ Grows(d, e) /\ e.pointer = d.pointer
           /\ s.table \notin DOMAIN d.table
           /\ s.table \in DOMAIN e.table /\ e.table[s.table].shape = m
<1>1. PICK t : t = s.table
  OBVIOUS
<1>2. Fits("sqlite", m, s.does, s.table, s.arg)
  BY LegalParts
<1>3. s.arg = m /\ First(t) <= m /\ m <= Top(t) /\ t \in Tables
  BY <1>1, <1>2 DEF Fits
<1>4. t \notin DOMAIN d.table
  BY <1>1 DEF Works
<1>5. PICK cs : cs = Recreated(t)
  OBVIOUS
<1>6. e = [d EXCEPT !.table = With(@, t, Fresh(m, cs))]
  BY <1>1, <1>3, <1>5 DEF Effect
<1> QED BY <1>1, <1>3, <1>4, <1>6, AddTable

LEMMA CopyStep ==
    ASSUME NEW d, Schema(d), NEW s, s.does = "copy", Works(s, d), NEW e, e = Effect(s, d)
    PROVE  /\ Schema(e) /\ Grows(d, e) /\ e.pointer = d.pointer
           /\ s.table \in DOMAIN d.table /\ s.table \in DOMAIN d.aside
           /\ s.table \in DOMAIN e.table
           /\ e.table[s.table].shape = d.table[s.table].shape
           /\ e.table[s.table].cols = d.aside[s.table].cols
           /\ d.aside[s.table].rows \subseteq e.table[s.table].rows
<1>1. PICK t : t = s.table
  OBVIOUS
<1>2. t \in DOMAIN d.table /\ t \in DOMAIN d.aside /\ d.aside[t].cols = d.table[t].cols
  BY <1>1 DEF Works
<1>3. PICK T : T = d.table[t]
  OBVIOUS
<1>4. PICK rs : rs = T.rows \union d.aside[t].rows
  OBVIOUS
<1>5. e = [d EXCEPT !.table[t].rows = rs]
  BY <1>1, <1>3, <1>4 DEF Effect
<1>6. e = [d EXCEPT !.table[t] = Tab(T.shape, T.cols, rs)]
  BY <1>2, <1>3, <1>5, RowsEdit
<1>7. T.shape \in Nat /\ T.shape <= Top(t) /\ T.shape <= T.shape
  BY <1>2, <1>3, ShapeBound
<1>10. PICK sh, cs : sh = T.shape /\ cs = T.cols
  OBVIOUS
<1>11. ("kept" \in d.table[t].rows => "kept" \in rs) /\ d.table[t].cols \subseteq cs
  BY <1>3, <1>4, <1>10
<1>8. /\ Schema(e) /\ Grows(d, e) /\ e.pointer = d.pointer /\ t \in DOMAIN e.table
      /\ e.table[t] = Tab(sh, cs, rs)
  <2>1. sh \in Nat /\ sh <= Top(t) /\ d.table[t].shape <= sh
    BY <1>3, <1>7, <1>10
  <2>2. e = [d EXCEPT !.table[t] = Tab(sh, cs, rs)]
    BY <1>6, <1>10
  <2> QED BY SMTT(40), <1>2, <1>11, <2>1, <2>2, EditStep
<1>9. e.table[t].shape = T.shape /\ e.table[t].cols = T.cols /\ e.table[t].rows = rs
  BY <1>8, <1>10, TabParts
<1> QED BY <1>1, <1>2, <1>3, <1>4, <1>8, <1>9

LEMMA DropStep ==
    ASSUME NEW d, Schema(d), NEW s, s.does = "drop", Works(s, d), NEW e, e = Effect(s, d)
    PROVE  /\ Schema(e) /\ e.pointer = d.pointer /\ e.table = d.table
           /\ DOMAIN e.aside = DOMAIN d.aside \ {s.table}
           /\ \A x \in DOMAIN d.aside \ {s.table} : e.aside[x] = d.aside[x]
<1>1. PICK T, A, l, p : d = Database(T, A, l, p)
  BY DEF Schema
<1>2. PICK t : t = s.table
  OBVIOUS
<1>3. d.table = T /\ d.aside = A /\ d.label = l /\ d.pointer = p
  BY <1>1 DEF Database
<1>4. PICK B : B = Without(A, t)
  OBVIOUS
<1>6. e = Database(T, B, l, p)
  <2>1. e = [d EXCEPT !.aside = Without(d.aside, t)]
    BY <1>2 DEF Effect
  <2>2. e = [d EXCEPT !.aside = B]
    BY <1>3, <1>4, <2>1
  <2> QED BY <1>1, <2>2 DEF Database
<1>7. IsFcn(B) /\ DOMAIN B = DOMAIN A \ {t} /\ \A x \in DOMAIN A \ {t} : B[x] = A[x]
  BY <1>4 DEF Without, IsFcn
<1>9. e.table = T /\ e.aside = B /\ e.label = l /\ e.pointer = p
  BY <1>6, IsDatabase
<1>10. Schema(e)
  <2>1. \E T2, A2, l2, p2 : e = Database(T2, A2, l2, p2)
    BY <1>6
  <2>3. ASSUME NEW x \in DOMAIN B PROVE IsTab(B[x])
    BY <1>3, <1>7, <2>3 DEF Schema
  <2> QED BY <1>3, <1>7, <1>9, <2>1, <2>3 DEF Schema
<1> QED BY <1>2, <1>3, <1>7, <1>9, <1>10

\* What the units of a script are.
Single(u) == u = <<u[1]>>

\* The units of a script on each database.
LEMMA SqliteUnits ==
    ASSUME NEW m \in 1..25, NEW S, S = Scripts["sqlite"][m]
    PROVE  /\ Len(S) \in Nat /\ DOMAIN S = 1..Len(S)
           /\ \A i \in 1..Len(S) :
                 /\ Single(S[i]) /\ S[i][1] \in Legal("sqlite", m)
                 /\ S[i][1].does \in Parts => /\ i > 1 /\ S[i - 1][1].does = Before(S[i][1].does)
                                              /\ S[i - 1][1].table = S[i][1].table
<1>1. Sound("sqlite", m, S)
  BY ScriptsSound DEF Databases
<1>2. PICK q \in Seq(Legal("sqlite", m)) : InTurn(q) /\ S = [i \in 1..Len(q) |-> <<q[i]>>]
  BY <1>1 DEF Sound
<1>3. Len(q) \in Nat /\ DOMAIN S = 1..Len(q)
  BY <1>2
<1>4. \A i \in 1..Len(q) : S[i] = <<q[i]>> /\ Single(S[i]) /\ S[i][1] = q[i] /\ q[i] \in Legal("sqlite", m)
  <2> TAKE i \in 1..Len(q)
  <2>1. S[i] = <<q[i]>>
    BY <1>2
  <2>2. S[i][1] = q[i]
    BY <2>1
  <2>3. q[i] \in Legal("sqlite", m)
    OBVIOUS
  <2>4. Single(S[i])
    BY <2>1, <2>2 DEF Single
  <2> QED BY <2>1, <2>2, <2>3, <2>4
<1>5. S \in Seq({<<s>> : s \in Legal("sqlite", m)})
  <2>1. S \in [1..Len(q) -> {<<s>> : s \in Legal("sqlite", m)}]
    BY <1>2, <1>4
  <2> QED BY <1>3, <2>1, IsSeq
<1>6. Len(S) = Len(q)
  BY <1>3, <1>5, DomLen
<1>7. ASSUME NEW i \in 1..Len(q), q[i].does \in Parts
      PROVE  i > 1 /\ S[i - 1][1].does = Before(S[i][1].does) /\ S[i - 1][1].table = S[i][1].table
  <2>1. i > 1 /\ q[i - 1].does = Before(q[i].does) /\ q[i - 1].table = q[i].table
    BY <1>2, <1>7 DEF InTurn
  <2>2. i - 1 \in 1..Len(q)
    BY <1>3, <2>1
  <2> QED BY <1>4, <2>1, <2>2
<1> QED BY <1>3, <1>4, <1>6, <1>7

LEMMA PostgresUnits ==
    ASSUME NEW m \in 1..25, NEW S, S = Scripts["postgres"][m]
    PROVE  /\ Len(S) \in Nat /\ DOMAIN S = 1..Len(S)
           /\ \A i \in 1..Len(S) :
                 /\ S[i] \in Seq(Legal("postgres", m))
                 /\ \A j \in 1..Len(S[i]) : S[i][j].does \in Gentle
<1>1. Sound("postgres", m, S)
  BY ScriptsSound DEF Databases
<1>2. PICK T : T = Seq(Legal("postgres", m))
  OBVIOUS
<1>3. S \in Seq(T)
  BY <1>1, <1>2 DEF Sound
<1>4. Len(S) \in Nat /\ DOMAIN S = 1..Len(S) /\ \A i \in 1..Len(S) : S[i] \in T
  BY <1>3
<1>5. ASSUME NEW i \in 1..Len(S), NEW j \in 1..Len(S[i]) PROVE S[i][j].does \in Gentle
  <2>1. S[i] \in Seq(Legal("postgres", m))
    BY <1>2, <1>4
  <2>2. PICK s : s = S[i][j]
    OBVIOUS
  <2>3. s \in Legal("postgres", m)
    BY <2>1, <2>2
  <2>4. Fits("postgres", m, s.does, s.table, s.arg)
    BY <2>3, LegalParts
  <2> QED BY <2>2, <2>4 DEF Fits
<1> QED BY <1>2, <1>4, <1>5

\* A statement is in a script.
Has(S, s) == \E i \in DOMAIN S : \E j \in DOMAIN S[i] : S[i][j] = s

\* The set of statements, and the script they stand in.
LEMMA HasIs ==
    ASSUME NEW b \in Databases, NEW m \in 1..25, NEW s
    PROVE  s \in Statements[b][m] <=> Has(Scripts[b][m], s)
<1>1. Statements[b][m] = UNION {ToSet(unit) : unit \in ToSet(Scripts[b][m])}
  BY DEF Statements
<1> QED BY <1>1 DEF Has, ToSet

\* Every statement of a migration is legal in it.
LEMMA StatementsLegal ==
    ASSUME NEW b \in Databases, NEW m \in 1..25, NEW s \in Statements[b][m]
    PROVE  s \in Legal(b, m)
<1>1. PICK S : S = Scripts[b][m]
  OBVIOUS
<1>2. PICK i \in DOMAIN S : \E j \in DOMAIN S[i] : S[i][j] = s
  BY <1>1, HasIs DEF Has
<1>3. PICK j \in DOMAIN S[i] : S[i][j] = s
  BY <1>2
<1>5. CASE b = "sqlite"
  <2>1. Single(S[i]) /\ S[i][1] \in Legal(b, m)
    <3>1. S = Scripts["sqlite"][m]
      BY <1>1, <1>5
    <3> QED BY <1>2, <1>5, <3>1, SqliteUnits
  <2>2. PICK a : a = S[i][1]
    OBVIOUS
  <2>3. DOMAIN <<a>> = 1..1
    OBVIOUS
  <2>4. j = 1
    BY <1>3, <2>1, <2>2, <2>3 DEF Single
  <2> QED BY <1>3, <2>1, <2>4
<1>6. CASE b = "postgres"
  <2>1. S[i] \in Seq(Legal(b, m))
    <3>1. S = Scripts["postgres"][m]
      BY <1>1, <1>6
    <3> QED BY <1>2, <1>6, <3>1, PostgresUnits
  <2>2. PICK u : u = S[i]
    OBVIOUS
  <2>3. u[j] \in Legal(b, m)
    BY <1>3, <2>1, <2>2
  <2> QED BY <1>3, <2>2, <2>3
<1> QED BY <1>5, <1>6 DEF Databases

\* What a db.exec is given is in the script.
LEMMA ExecHas ==
    ASSUME NEW b, NEW S, NEW q \in Seq(S), NEW j \in 1..Len(q)
    PROVE  Has(Exec(b, q), q[j])
<1>1. DOMAIN q = 1..Len(q)
  OBVIOUS
<1>2. CASE b = "sqlite"
  <2>1. Exec(b, q) = [i \in 1..Len(q) |-> <<q[i]>>]
    BY <1>1, <1>2, Zenon DEF Exec, OnSqlite
  <2>2. PICK a : a = q[j]
    OBVIOUS
  <2>3. DOMAIN <<a>> = 1..1 /\ <<a>>[1] = a /\ 1 \in 1..1
    OBVIOUS
  <2>4. j \in DOMAIN Exec(b, q) /\ Exec(b, q)[j] = <<a>>
    BY <2>1, <2>2, Zenon
  <2> QED BY <2>2, <2>3, <2>4, Zenon DEF Has
<1>3. CASE b # "sqlite"
  <2>1. Exec(b, q) = <<q>>
    BY <1>3, Zenon DEF Exec, OnSqlite
  <2>2. 1 \in DOMAIN <<q>> /\ <<q>>[1] = q
    OBVIOUS
  <2> QED BY <1>1, <2>1, <2>2, Zenon DEF Has
<1> QED BY <1>2, <1>3

LEMMA EnsureHas ==
    ASSUME NEW b, NEW m \in Nat, NEW T, T \subseteq Tables, \A t \in T : First(t) = m /\ m <= Top(t), NEW ts \in Seq(T),
           NEW t, \E j \in 1..Len(ts) : ts[j] = t
    PROVE  Has(Exec(b, Ensure(ts, m)), Stmt("ensure", t, m))
<1>1. Ensure(ts, m) \in Seq(Legal(b, m))
  BY EnsureFits
<1>2. Ensure(ts, m) = [i \in 1..Len(ts) |-> Stmt("ensure", ts[i], m)] /\ Len(ts) \in Nat
  <2>1. DOMAIN ts = 1..Len(ts) /\ Len(ts) \in Nat
    OBVIOUS
  <2> QED BY <2>1, Zenon DEF Ensure, Each
<1>3. DOMAIN Ensure(ts, m) = 1..Len(ts)
  BY <1>2, Zenon
<1>4. Len(Ensure(ts, m)) = Len(ts)
  BY <1>1, <1>2, <1>3, DomLen, Zenon
<1>5. PICK j \in 1..Len(ts) : ts[j] = t
  OBVIOUS
<1>6. Ensure(ts, m)[j] = Stmt("ensure", t, m)
  BY <1>2, <1>5, Zenon
<1>7. PICK q : q = Ensure(ts, m)
  OBVIOUS
<1>8. Has(Exec(b, q), q[j])
  BY <1>1, <1>4, <1>7, ExecHas
<1> QED BY <1>6, <1>7, <1>8

Here(t, ts) == \E j \in 1..Len(ts) : ts[j] = t

\* The tables that the CREATE statements name.
LEMMA AllHere ==
    /\ \A t \in Basic : Here(t, <<"prompts", "api_keys", "logs", "config", "audit_logs", "traces", "spans",
        "runs", "prompt_labels", "rate_limits">>)
    /\ \A t \in {"evaluations", "evaluation_results"} : Here(t, <<"evaluations", "evaluation_results">>)
    /\ \A t \in {"ab_tests", "ab_test_results"} : Here(t, <<"ab_tests", "ab_test_results">>)
    /\ \A t \in {"datasets", "dataset_rows", "eval_runs"} : Here(t, <<"datasets", "dataset_rows", "eval_runs">>)
    /\ \A t \in {"compliance_rules", "compliance_scores"} : Here(t, <<"compliance_rules", "compliance_scores">>)
  BY DEF Here, Basic

\* Every table is created by the migration that is its first.
LEMMA TablesEnsured ==
    ASSUME NEW b \in Databases, NEW t \in Tables
    PROVE  First(t) \in 1..25 /\ Stmt("ensure", t, First(t)) \in Statements[b][First(t)]
<1>1. /\ Scripts[b][1] = InitialSchema(b) /\ Scripts[b][4] = Evaluations(b) /\ Scripts[b][11] = AbTesting(b)
      /\ Scripts[b][12] = DatasetsAndEvalRuns(b) /\ Scripts[b][13] = Compliance(b)
  BY DEF Scripts, Script
<1>2. CASE t \in Basic
  <2>1. <<"prompts", "api_keys", "logs", "config", "audit_logs", "traces", "spans",
        "runs", "prompt_labels", "rate_limits">> \in Seq(Basic)
    BY DEF Basic
  <2>2. Has(InitialSchema(b), Stmt("ensure", t, 1))
    BY <1>2, <2>1, BasicTables, AllHere, EnsureHas DEF InitialSchema, Here
  <2> QED BY <1>1, <1>2, <2>2, BasicTables, HasIs
<1>3. CASE t \in {"evaluations", "evaluation_results"}
  <2>1. <<"evaluations", "evaluation_results">> \in Seq({"evaluations", "evaluation_results"})
    OBVIOUS
  <2>3. PICK T, ts : T = {"evaluations", "evaluation_results"} /\ ts = <<"evaluations", "evaluation_results">>
    OBVIOUS
  <2>4. ts \in Seq(T) /\ T \subseteq Tables /\ \A x \in T : First(x) = 4 /\ 4 <= Top(x)
    BY <2>1, <2>3, LaterTables
  <2>5. \E j \in 1..Len(ts) : ts[j] = t
    BY <1>3, <2>3, AllHere DEF Here
  <2>6. Has(Exec(b, Ensure(ts, 4)), Stmt("ensure", t, 4))
    BY <2>4, <2>5, EnsureHas
  <2>2. Has(Evaluations(b), Stmt("ensure", t, 4))
    BY <2>3, <2>6 DEF Evaluations
  <2> QED BY <1>1, <1>3, <2>2, LaterTables, HasIs
<1>4. CASE t \in {"ab_tests", "ab_test_results"}
  <2>1. <<"ab_tests", "ab_test_results">> \in Seq({"ab_tests", "ab_test_results"})
    OBVIOUS
  <2>3. PICK T, ts : T = {"ab_tests", "ab_test_results"} /\ ts = <<"ab_tests", "ab_test_results">>
    OBVIOUS
  <2>4. ts \in Seq(T) /\ T \subseteq Tables /\ \A x \in T : First(x) = 11 /\ 11 <= Top(x)
    BY <2>1, <2>3, LaterTables
  <2>5. \E j \in 1..Len(ts) : ts[j] = t
    BY <1>4, <2>3, AllHere DEF Here
  <2>6. Has(Exec(b, Ensure(ts, 11)), Stmt("ensure", t, 11))
    BY <2>4, <2>5, EnsureHas
  <2>2. Has(AbTesting(b), Stmt("ensure", t, 11))
    BY <2>3, <2>6 DEF AbTesting
  <2> QED BY <1>1, <1>4, <2>2, LaterTables, HasIs
<1>5. CASE t \in {"datasets", "dataset_rows", "eval_runs"}
  <2>1. <<"datasets", "dataset_rows", "eval_runs">> \in Seq({"datasets", "dataset_rows", "eval_runs"})
    OBVIOUS
  <2>3. PICK T, ts : T = {"datasets", "dataset_rows", "eval_runs"} /\ ts = <<"datasets", "dataset_rows", "eval_runs">>
    OBVIOUS
  <2>4. ts \in Seq(T) /\ T \subseteq Tables /\ \A x \in T : First(x) = 12 /\ 12 <= Top(x)
    BY <2>1, <2>3, LaterTables
  <2>5. \E j \in 1..Len(ts) : ts[j] = t
    BY <1>5, <2>3, AllHere DEF Here
  <2>6. Has(Exec(b, Ensure(ts, 12)), Stmt("ensure", t, 12))
    BY <2>4, <2>5, EnsureHas
  <2>2. Has(DatasetsAndEvalRuns(b), Stmt("ensure", t, 12))
    BY <2>3, <2>6 DEF DatasetsAndEvalRuns
  <2> QED BY <1>1, <1>5, <2>2, LaterTables, HasIs
<1>6. CASE t \in {"compliance_rules", "compliance_scores"}
  <2>1. <<"compliance_rules", "compliance_scores">> \in Seq({"compliance_rules", "compliance_scores"})
    OBVIOUS
  <2>3. PICK T, ts : T = {"compliance_rules", "compliance_scores"} /\ ts = <<"compliance_rules", "compliance_scores">>
    OBVIOUS
  <2>4. ts \in Seq(T) /\ T \subseteq Tables /\ \A x \in T : First(x) = 13 /\ 13 <= Top(x)
    BY <2>1, <2>3, LaterTables
  <2>5. \E j \in 1..Len(ts) : ts[j] = t
    BY <1>6, <2>3, AllHere DEF Here
  <2>6. Has(Exec(b, Ensure(ts, 13)), Stmt("ensure", t, 13))
    BY <2>4, <2>5, EnsureHas
  <2>2. Has(Compliance(b), Stmt("ensure", t, 13))
    BY <2>3, <2>6 DEF Compliance
  <2> QED BY <1>1, <1>6, <2>2, LaterTables, HasIs
<1> QED BY <1>2, <1>3, <1>4, <1>5, <1>6 DEF Tables, Rebuilt, Basic

\* The first statement of migration 2.
LEMMA OptionsFirst ==
    ASSUME NEW b \in Databases
    PROVE  /\ Len(Scripts[b][2]) > 0 /\ Len(Scripts[b][2][1]) > 0
           /\ Scripts[b][2][1][1] = Stmt("add", "logs", "ollama_options")
           /\ Stmt("add", "logs", "ollama_options") \in Statements[b][2]
<1> DEFINE cs == <<"ollama_options", "ollama_keep_alive", "ollama_format">>
           q == Add("logs", cs)
<1>1. Scripts[b][2] = Exec(b, q)
  BY DEF Scripts, Script, OllamaColumns
<1>2. cs \in Seq(Columns) /\ Len(cs) = 3 /\ DOMAIN cs = 1..3 /\ cs[1] = "ollama_options"
  BY DEF Columns
<1>3. q = [i \in 1..3 |-> Stmt("add", "logs", cs[i])]
  <2> HIDE DEF cs
  <2> QED BY <1>2, Zenon DEF Add
<1>4. q \in Seq(Legal(b, 2))
  <2>1. "logs" \in Tables /\ First("logs") <= 2
    BY BasicTables DEF Basic
  <2> HIDE DEF cs
  <2> QED BY <1>2, <2>1, AddFits
<1>5. 1 \in 1..3 /\ 3 \in Nat
  OBVIOUS
<1>6. q[1] = Stmt("add", "logs", "ollama_options") /\ DOMAIN q = 1..3
  <2> HIDE DEF cs, q
  <2> QED BY <1>2, <1>3, <1>5, Zenon
<1> HIDE DEF q
<1>7. Len(q) = 3
  BY <1>4, <1>5, <1>6, DomLen, Zenon
<1>8. PICK a : a = q[1]
  OBVIOUS
<1>9. Len(Exec(b, q)) > 0 /\ Len(Exec(b, q)[1]) > 0 /\ Exec(b, q)[1][1] = a
  <2>1. CASE b = "sqlite"
    <3>1. Exec(b, q) = [i \in 1..3 |-> <<q[i]>>]
      BY <1>6, <2>1, Zenon DEF Exec, OnSqlite
    <3>2. Len(Exec(b, q)) = 3
      <4>1. Exec(b, q) \in [1..3 -> {<<s>> : s \in Legal(b, 2)}]
        BY <1>4, <1>7, <3>1
      <4>2. Exec(b, q) \in Seq({<<s>> : s \in Legal(b, 2)})
        BY <1>5, <4>1, IsSeq
      <4> QED BY <1>5, <3>1, <4>2, DomLen
    <3>3. Exec(b, q)[1] = <<a>>
      BY <1>5, <1>8, <3>1, Zenon
    <3>4. Len(<<a>>) = 1 /\ <<a>>[1] = a
      OBVIOUS
    <3> QED BY <3>2, <3>3, <3>4
  <2>2. CASE b # "sqlite"
    <3>1. Exec(b, q) = <<q>>
      BY <2>2, Zenon DEF Exec, OnSqlite
    <3>2. PICK r : r = q
      OBVIOUS
    <3>3. Len(<<r>>) = 1 /\ <<r>>[1] = r
      OBVIOUS
    <3> QED BY <1>7, <1>8, <3>1, <3>2, <3>3
  <2> QED BY <2>1, <2>2
<1>10. Has(Exec(b, q), a)
  <2>1. 1 \in 1..Len(q)
    BY <1>7
  <2> QED BY <1>4, <1>8, <2>1, ExecHas
<1>11. 2 \in 1..25
  OBVIOUS
<1> QED BY <1>1, <1>6, <1>8, <1>9, <1>10, <1>11, HasIs

-----------------------------------------------------------------------------
(* Boot.  The database of a deployment.                                    *)

\* The least and the greatest of a set of migrations.
LEMMA MinOf ==
    ASSUME NEW S, S \subseteq Nat, S # {}
    PROVE  Min(S) \in S /\ \A y \in S : Min(S) <= y
<1>1. IsWellFoundedOn(OpToRel(<, Nat), Nat)
  BY NatLessThanWellFounded
<1>2. PICK x \in S : \A y \in S : <<y, x>> \notin OpToRel(<, Nat)
  BY <1>1, WFMin
<1>3. OpToRel(<, Nat) = {ss \in Nat \X Nat : ss[1] < ss[2]}
  BY DEF OpToRel
<1>4. ASSUME NEW y \in S PROVE x <= y
  <2>1. x \in Nat /\ y \in Nat
    OBVIOUS
  <2>2. ~(y < x)
    BY <1>2, <1>3, <2>1
  <2> QED BY <2>1, <2>2
<1> QED BY <1>4 DEF Min

\* The greatest of a set of migrations, from its finiteness.
LEMMA MaxOf ==
    ASSUME NEW S, S \subseteq 0..25, S # {}
    PROVE  Max(S) \in S /\ \A y \in S : Max(S) >= y
<1> DEFINE R == {25 - x : x \in S}
<1>1. R \subseteq Nat /\ R # {}
  <2>1. \A x \in 0..25 : 25 - x \in Nat
    OBVIOUS
  <2>2. PICK x \in S : TRUE
    OBVIOUS
  <2>3. 25 - x \in R
    OBVIOUS
  <2> QED BY <2>1, <2>3
<1>2. Min(R) \in R /\ \A y \in R : Min(R) <= y
  <2> HIDE DEF R
  <2> QED BY <1>1, MinOf
<1>3. PICK x \in S : Min(R) = 25 - x
  BY <1>2
<1>4. ASSUME NEW y \in S PROVE x >= y
  <2>1. Min(R) <= 25 - y
    BY <1>2
  <2>2. x \in 0..25 /\ y \in 0..25
    OBVIOUS
  <2> QED BY <1>3, <2>1, <2>2
<1> QED BY <1>4 DEF Max

\* The statements that give constraints and those that give columns.
Shapes == {"ensure", "create", "constrain"}
Adds == {"add", "supply"}

\* The tables of a deployment with k migrations.
Deployed(T, b, k) ==
    /\ IsFcn(T) /\ DOMAIN T = {t \in Tables : First(t) <= k}
    /\ \A t \in DOMAIN T : /\ \E sh \in Nat : \E cs : T[t] = Tab(sh, cs, {})
                           /\ First(t) <= T[t].shape /\ T[t].shape <= Top(t)
    /\ \A m \in 1..k : \A s \in Statements[b][m] :
          /\ s.table \in DOMAIN T
          /\ s.does \in Adds => s.arg \in T[s.table].cols
          /\ s.does \in Shapes => T[s.table].shape >= s.arg

\* The reference in Migrated has every table that its migrations create, with their columns
\* and constraints.
LEMMA MigratedIs ==
    ASSUME NEW b \in Databases, NEW k \in 0..25
    PROVE  Deployed(Migrated(b, k), b, k)
<1> PICK T : T = Migrated(b, k)
  OBVIOUS
<1> DEFINE all == UNION {Statements[b][m] : m \in 1..k}
           args(t, does) == {s.arg : s \in {x \in all : x.table = t /\ x.does \in does}}
           D == {s.table : s \in {x \in all : x.does = "ensure"}}
<1>1. T = [t \in D |-> [shape |-> Max(args(t, Shapes)), cols |-> args(t, Adds), rows |-> {}]]
  BY DEF Migrated, Shapes, Adds
<1>2. ASSUME NEW m \in 1..k, NEW s \in Statements[b][m]
      PROVE  /\ s \in all /\ s.table \in Tables /\ First(s.table) <= m /\ m \in 1..25
             /\ s.does \in Shapes => s.arg = m /\ m <= Top(s.table)
             /\ s.does = "ensure" => First(s.table) = m
  <2>1. m \in 1..25
    OBVIOUS
  <2>2. s \in Legal(b, m)
    BY <2>1, StatementsLegal
  <2>3. Fits(b, m, s.does, s.table, s.arg)
    BY <2>2, LegalParts
  <2>4. s \in all
    OBVIOUS
  <2> HIDE DEF all
  <2> QED BY <2>1, <2>3, <2>4 DEF Fits, Shapes
<1>3. ASSUME NEW s \in all PROVE \E m \in 1..k : s \in Statements[b][m]
  OBVIOUS
<1>4. \A t \in Tables : First(t) \in 1..25
  BY TablesEnsured
<1>5. ASSUME NEW t \in Tables, First(t) <= k
      PROVE  /\ Stmt("ensure", t, First(t)) \in all /\ t \in D
             /\ First(t) \in args(t, Shapes)
  <2>1. First(t) \in 1..k /\ Stmt("ensure", t, First(t)) \in Statements[b][First(t)]
    BY <1>4, <1>5, TablesEnsured
  <2>2. PICK m \in 1..k : m = First(t)
    BY <2>1
  <2>3. PICK s : s = Stmt("ensure", t, m)
    OBVIOUS
  <2>4. s \in all /\ s.does = "ensure" /\ s.table = t /\ s.arg = m
    BY <1>2, <2>1, <2>2, <2>3, StmtParts
  <2> HIDE DEF all
  <2> QED BY <2>2, <2>3, <2>4 DEF Shapes
<1> HIDE DEF all
<1>6. D = {t \in Tables : First(t) <= k}
  <2>1. ASSUME NEW s \in all PROVE s.table \in Tables /\ First(s.table) <= k
    <3>1. PICK m \in 1..k : s \in Statements[b][m]
      BY <1>3
    <3>2. s.table \in Tables /\ First(s.table) <= m
      BY <1>2, <3>1
    <3> QED BY <1>4, <3>2
  <2> QED BY <1>5, <2>1
<1>7. ASSUME NEW t \in D
      PROVE  /\ Max(args(t, Shapes)) \in args(t, Shapes)
             /\ \A y \in args(t, Shapes) : Max(args(t, Shapes)) >= y
             /\ Max(args(t, Shapes)) \in Nat
             /\ First(t) <= Max(args(t, Shapes)) /\ Max(args(t, Shapes)) <= Top(t)
  <2>1. ASSUME NEW y \in args(t, Shapes) PROVE y \in 0..25 /\ First(t) <= y /\ y <= Top(t)
    <3>1. PICK s \in all : s.table = t /\ s.does \in Shapes /\ y = s.arg
      OBVIOUS
    <3>2. PICK m \in 1..k : s \in Statements[b][m]
      BY <1>3
    <3> QED BY <1>2, <3>1, <3>2
  <2>2. args(t, Shapes) # {}
    BY <1>5, <1>6
  <2>3. PICK A : A = args(t, Shapes)
    OBVIOUS
  <2> HIDE DEF args
  <2>4. A \subseteq 0..25 /\ A # {}
    BY <2>1, <2>2, <2>3
  <2>5. Max(A) \in A /\ \A y \in A : Max(A) >= y
    BY <2>4, MaxOf
  <2> QED BY <2>1, <2>3, <2>5
<1> HIDE DEF D, args
<1>8. IsFcn(T) /\ DOMAIN T = D
  BY <1>1 DEF IsFcn
<1>9. ASSUME NEW t \in D
      PROVE  /\ T[t] = Tab(Max(args(t, Shapes)), args(t, Adds), {})
             /\ T[t].shape = Max(args(t, Shapes)) /\ T[t].cols = args(t, Adds)
  <2>1. T[t] = Tab(Max(args(t, Shapes)), args(t, Adds), {})
    BY <1>1, <1>9 DEF Tab
  <2> QED BY <2>1, TabParts
<1>10. ASSUME NEW m \in 1..k, NEW s \in Statements[b][m]
       PROVE  /\ s.table \in D
              /\ s.does \in Adds => s.arg \in T[s.table].cols
              /\ s.does \in Shapes => T[s.table].shape >= s.arg
  <2>1. s \in all /\ s.table \in Tables /\ First(s.table) <= m
    BY <1>2
  <2>2. s.table \in D
    BY <1>4, <1>6, <2>1
  <2>3. s.does \in Adds => s.arg \in args(s.table, Adds)
    BY <2>1 DEF args
  <2>4. s.does \in Shapes => s.arg \in args(s.table, Shapes)
    BY <2>1 DEF args
  <2> QED BY <1>7, <1>9, <2>2, <2>3, <2>4
<1> QED BY <1>6, <1>7, <1>8, <1>9, <1>10 DEF Deployed

-----------------------------------------------------------------------------
(* Boot.  The rows of the rebuilt tables.                                  *)

\* A program's place.
Proc(at, todo, unit) == [at |-> at, todo |-> todo, unit |-> unit]

\* A migration is known by its number.
LEMMA MigrationIsNat == \A k \in 1..25 : k \in Nat
  OBVIOUS

\* A unit of a script is below a unit past its end.
LEMMA Beyond == \A i, n, u \in Nat : i <= n /\ u > n => i < u
  OBVIOUS

\* The parts of a place.
LEMMA ProcParts ==
    ASSUME NEW at, NEW todo, NEW unit
    PROVE  Proc(at, todo, unit).at = at /\ Proc(at, todo, unit).todo = todo /\ Proc(at, todo, unit).unit = unit
  BY DEF Proc

\* A place with a legal next unit.
IsProc(r) == \E at, todo, unit : r = Proc(at, todo, unit) /\ todo \in SUBSET (1..25) /\ unit \in Nat /\ unit >= 1

\* The program's next statement, on SQLite: one of `steps' on table t.
Doing(b, r, t, steps) ==
    LET S == Scripts[b][Min(r.todo)] IN
    /\ r.at = "migrating" /\ r.todo # {} /\ r.unit <= Len(S)
    /\ S[r.unit][1].table = t /\ S[r.unit][1].does \in steps

\* The rows of t are in the table or in the one it was moved to.
Kept(t, d) ==
    \/ t \in DOMAIN d.table /\ "kept" \in d.table[t].rows
    \/ t \in DOMAIN d.aside /\ "kept" \in d.aside[t].rows

\* Of one rebuilt table: while a program is between the renaming and the dropping of the old
\* table, that is aside and no other program is; before the drop the rows have been copied.
RowsAt(b, bg, d, P, t) ==
    /\ b = "postgres" => t \notin DOMAIN d.aside
    /\ b = "sqlite" => \A p \in Programs :
          /\ Doing(b, P[p], t, Parts) => /\ t \in DOMAIN d.aside
                                         /\ \A q \in Programs : Doing(b, P[q], t, Parts) => q = p
          /\ Doing(b, P[p], t, {"drop"}) => t \in DOMAIN d.table /\ (First(t) <= bg => "kept" \in d.table[t].rows)
    /\ First(t) <= bg => Kept(t, d)

\* The statement after s.
LEMMA Moves ==
    ASSUME NEW i \in Nat, i >= 1, NEW r, Min(r.todo) \in 1..25, r.unit = i + 1, NEW s, s = Scripts["sqlite"][Min(r.todo)][i][1],
           NEW t
    PROVE  /\ Doing("sqlite", r, t, Parts) => s.table = t /\ s.does \in {"rename", "create", "copy"}
           /\ Doing("sqlite", r, t, {"create"}) => s.table = t /\ s.does = "rename"
           /\ Doing("sqlite", r, t, {"copy"}) => s.table = t /\ s.does = "create"
           /\ Doing("sqlite", r, t, {"drop"}) => s.table = t /\ s.does = "copy"
<1> SUFFICES ASSUME Doing("sqlite", r, t, Parts) \/ Doing("sqlite", r, t, {"create"}) \/ Doing("sqlite", r, t, {"copy"})
                    \/ Doing("sqlite", r, t, {"drop"})
    PROVE  /\ s.table = t /\ s.does \in {"rename", "create", "copy"}
           /\ Doing("sqlite", r, t, {"create"}) => s.does = "rename"
           /\ Doing("sqlite", r, t, {"copy"}) => s.does = "create"
           /\ Doing("sqlite", r, t, {"drop"}) => s.does = "copy"
  OBVIOUS
<1>7. PICK S : S = Scripts["sqlite"][Min(r.todo)]
  OBVIOUS
<1>1. Len(S) \in Nat /\ \A j \in 1..Len(S) : S[j][1].does \in Parts =>
                 /\ j > 1 /\ S[j - 1][1].does = Before(S[j][1].does) /\ S[j - 1][1].table = S[j][1].table
  BY <1>7, SqliteUnits
<1>2. PICK n : n = S[i + 1][1]
  OBVIOUS
<1>3. i + 1 <= Len(S) /\ n.table = t /\ n.does \in Parts
  BY <1>2, <1>7 DEF Doing, Parts
<1>4. i + 1 \in 1..Len(S) /\ (i + 1) - 1 = i
  BY <1>1, <1>3
<1>5. s.does = Before(n.does) /\ s.table = n.table
  BY <1>1, <1>2, <1>3, <1>4, <1>7
<1>6. /\ Doing("sqlite", r, t, {"create"}) => n.does = "create"
      /\ Doing("sqlite", r, t, {"copy"}) => n.does = "copy"
      /\ Doing("sqlite", r, t, {"drop"}) => n.does = "drop"
  BY <1>2, <1>7 DEF Doing
<1> QED BY <1>3, <1>5, <1>6 DEF Before, Parts

\* The rebuild of one table leaves the others as they are.
LEMMA OtherTable ==
    ASSUME NEW b, NEW bg, NEW d, NEW e, NEW P, NEW Q, NEW t, RowsAt(b, bg, d, P, t),
           t \in DOMAIN e.aside <=> t \in DOMAIN d.aside,
           t \in DOMAIN d.aside => e.aside[t] = d.aside[t],
           t \in DOMAIN d.table => t \in DOMAIN e.table /\ ("kept" \in d.table[t].rows => "kept" \in e.table[t].rows),
           \A q \in Programs : Doing(b, Q[q], t, Parts) => Q[q] = P[q],
           \A q \in Programs : Doing(b, Q[q], t, {"drop"}) => Q[q] = P[q]
    PROVE  RowsAt(b, bg, e, Q, t)
<1>1. Kept(t, d) => Kept(t, e)
  BY DEF Kept
<1>2. ASSUME b = "sqlite", NEW p \in Programs, Doing(b, Q[p], t, Parts)
      PROVE  t \in DOMAIN e.aside /\ \A q \in Programs : Doing(b, Q[q], t, Parts) => q = p
  <2>1. Doing(b, P[p], t, Parts)
    BY <1>2
  <2>2. t \in DOMAIN d.aside /\ \A q \in Programs : Doing(b, P[q], t, Parts) => q = p
    BY <1>2, <2>1 DEF RowsAt
  <2> QED BY <2>2
<1>3. ASSUME b = "sqlite", NEW p \in Programs, Doing(b, Q[p], t, {"drop"})
      PROVE  t \in DOMAIN e.table /\ (First(t) <= bg => "kept" \in e.table[t].rows)
  <2>1. Doing(b, P[p], t, {"drop"})
    BY <1>3
  <2> QED BY <1>3, <2>1 DEF RowsAt
<1> QED BY <1>1, <1>2, <1>3 DEF RowsAt

\* A step that loses nothing, and moves no program within a rebuild, keeps the rows.
LEMMA GrowRows ==
    ASSUME NEW b, NEW bg, NEW d, NEW e, NEW P, NEW Q, NEW t, RowsAt(b, bg, d, P, t), Grows(d, e),
           \A q \in Programs : Doing(b, Q[q], t, Parts) \/ Doing(b, Q[q], t, {"drop"}) => Q[q] = P[q]
    PROVE  RowsAt(b, bg, e, Q, t)
  BY OtherTable DEF Grows

\* A program runs statement s, the i-th of migration m, on SQLite.
RunsOne(P, Q, p, m, S, i, s) ==
    /\ \A q \in Programs \ {p} : Q[q] = P[q]
    /\ m \in 1..25 /\ S = Scripts["sqlite"][m] /\ i \in 1..Len(S) /\ s = S[i][1]
    /\ P[p].at = "migrating" /\ P[p].todo # {} /\ Min(P[p].todo) = m /\ P[p].unit = i
    /\ Q[p].at = "migrating" /\ Min(Q[p].todo) = m /\ Q[p].unit = i + 1

\* One statement of one program keeps the rows of every table, also of the one it rebuilds.
LEMMA StatementRows ==
    ASSUME NEW bg, NEW d, Schema(d), NEW P, NEW Q, NEW p \in Programs, NEW m, NEW S, NEW i, NEW s, RunsOne(P, Q, p, m, S, i, s),
           Works(s, d), NEW e, e = Effect(s, d),
           \A t \in Rebuilt : RowsAt("sqlite", bg, d, P, t)
    PROVE  Schema(e) /\ \A t \in Rebuilt : RowsAt("sqlite", bg, e, Q, t)
<1>0. /\ \A q \in Programs \ {p} : Q[q] = P[q]
      /\ m \in 1..25 /\ S = Scripts["sqlite"][m] /\ i \in 1..Len(S) /\ s = S[i][1]
      /\ P[p].at = "migrating" /\ P[p].todo # {} /\ Min(P[p].todo) = m /\ P[p].unit = i
      /\ Q[p].at = "migrating" /\ Min(Q[p].todo) = m /\ Q[p].unit = i + 1
  BY DEF RunsOne
<1> USE <1>0
<1>1. s \in Legal("sqlite", m) /\ m \in Nat
  <2>1. \A j \in 1..Len(S) : S[j][1] \in Legal("sqlite", m)
    BY SqliteUnits
  <2> QED BY <2>1
<1>2. Fits("sqlite", m, s.does, s.table, s.arg) /\ s.does \in Doings
  BY <1>1, LegalParts
<1>3. s.does \in Gentle \/ s.does = "rename" \/ s.does = "create" \/ s.does = "copy" \/ s.does = "drop"
  BY <1>2 DEF Doings, Parts
<1>4. s.does \in Parts \union {"rename"} => s.table \in Rebuilt
  BY <1>2 DEF Fits, Parts, Gentle
<1>5. ASSUME NEW t
      PROVE  /\ Doing("sqlite", Q[p], t, Parts) => s.table = t /\ s.does \in {"rename", "create", "copy"}
             /\ Doing("sqlite", Q[p], t, {"drop"}) => s.table = t /\ s.does = "copy"
  <2>1. PICK r : r = Q[p]
    OBVIOUS
  <2>2. /\ Min(r.todo) \in 1..25 /\ r.unit = i + 1 /\ s = Scripts["sqlite"][Min(r.todo)][i][1]
        /\ i \in Nat /\ i >= 1
    <3>1. Len(S) \in Nat
      BY SqliteUnits
    <3>2. PICK n \in Nat : n = Len(S)
      BY <3>1
    <3>3. i \in 1..n
      BY <3>2
    <3>4. i \in Nat /\ i >= 1
      BY <3>3
    <3>5. Min(r.todo) = m /\ r.unit = i + 1
      BY <2>1
    <3> QED BY <3>4, <3>5
  <2>3. /\ Doing("sqlite", r, t, Parts) => s.table = t /\ s.does \in {"rename", "create", "copy"}
        /\ Doing("sqlite", r, t, {"drop"}) => s.table = t /\ s.does = "copy"
    BY <2>2, Moves
  <2> QED BY <2>1, <2>3
<1>6. /\ s.does \in Parts => Doing("sqlite", P[p], s.table, Parts)
      /\ s.does = "drop" => Doing("sqlite", P[p], s.table, {"drop"})
  <2>1. PICK r : r = P[p]
    OBVIOUS
  <2>2. r.at = "migrating" /\ r.todo # {} /\ Min(r.todo) = m /\ r.unit = i /\ i <= Len(S)
    BY <2>1
  <2> QED BY <2>1, <2>2 DEF Doing
<1>7. CASE s.does \in Gentle
  <2>1. Schema(e) /\ Grows(d, e)
    BY <1>1, <1>7, GentleStep
  <2>2. \A q \in Programs, t \in Rebuilt : Doing("sqlite", Q[q], t, Parts) \/ Doing("sqlite", Q[q], t, {"drop"}) => Q[q] = P[q]
    BY <1>5, <1>7 DEF Gentle
  <2> QED BY <2>1, <2>2, GrowRows
<1>8. ASSUME NEW t \in Rebuilt, t # s.table, s.does \in Parts \union {"rename"}
      PROVE  /\ \A q \in Programs : Doing("sqlite", Q[q], t, Parts) => Q[q] = P[q]
             /\ \A q \in Programs : Doing("sqlite", Q[q], t, {"drop"}) => Q[q] = P[q]
  BY <1>5, <1>8
<1>9. CASE s.does = "rename"
  <2>1. /\ Schema(e)
        /\ s.table \in DOMAIN d.table /\ s.table \notin DOMAIN d.aside
        /\ DOMAIN e.table = DOMAIN d.table \ {s.table} /\ DOMAIN e.aside = DOMAIN d.aside \union {s.table}
        /\ e.aside[s.table] = d.table[s.table]
        /\ \A x \in DOMAIN d.table \ {s.table} : e.table[x] = d.table[x]
        /\ \A x \in DOMAIN d.aside \ {s.table} : e.aside[x] = d.aside[x]
    <3>1. s.does = "rename" /\ s.table \in Rebuilt
      BY <1>4, <1>9
    <3> HIDE <1>0
    <3> QED BY <3>1, RenameStep
  <2>2. ASSUME NEW t \in Rebuilt, t # s.table PROVE RowsAt("sqlite", bg, e, Q, t)
    <3>1. t \in DOMAIN e.aside <=> t \in DOMAIN d.aside
      BY <2>1, <2>2
    <3>2. t \in DOMAIN d.aside => e.aside[t] = d.aside[t]
      BY <2>1, <2>2
    <3>3. t \in DOMAIN d.table => t \in DOMAIN e.table /\ ("kept" \in d.table[t].rows => "kept" \in e.table[t].rows)
      BY <2>1, <2>2
    <3> QED BY <1>8, <1>9, <2>2, <3>1, <3>2, <3>3, OtherTable
  <2>3. ASSUME NEW t \in Rebuilt, t = s.table PROVE RowsAt("sqlite", bg, e, Q, t)
    <3>1. \A q \in Programs : ~Doing("sqlite", P[q], t, Parts)
      BY <2>1, <2>3 DEF RowsAt
    <3>2. \A q \in Programs : Doing("sqlite", Q[q], t, Parts) => q = p
      BY <3>1
    <3>3. \A q \in Programs : ~Doing("sqlite", Q[q], t, {"drop"})
      <4>1. ~Doing("sqlite", Q[p], t, {"drop"})
        BY <1>5, <1>9
      <4>2. \A q \in Programs : Doing("sqlite", Q[q], t, {"drop"}) => Doing("sqlite", Q[q], t, Parts)
        BY DEF Doing, Parts
      <4> QED BY <3>2, <4>1, <4>2
    <3>4. First(t) <= bg => Kept(t, e)
      BY <2>1, <2>3 DEF RowsAt, Kept
    <3> QED BY ZenonT(40), <2>1, <2>3, <3>2, <3>3, <3>4 DEF RowsAt
  <2> QED BY <2>1, <2>2, <2>3
<1>10. CASE s.does = "create"
  <2>1. Schema(e) /\ Grows(d, e)
    BY <1>1, <1>10, CreateStep
  <2>2. ASSUME NEW t \in Rebuilt, t # s.table PROVE RowsAt("sqlite", bg, e, Q, t)
    BY <1>8, <1>10, <2>1, <2>2, GrowRows DEF Parts
  <2>3. ASSUME NEW t \in Rebuilt, t = s.table PROVE RowsAt("sqlite", bg, e, Q, t)
    <3>1. Doing("sqlite", P[p], t, Parts)
      BY <1>6, <1>10, <2>3 DEF Parts
    <3>2. t \in DOMAIN d.aside /\ \A q \in Programs : Doing("sqlite", P[q], t, Parts) => q = p
      BY <3>1 DEF RowsAt
    <3>3. \A q \in Programs : ~Doing("sqlite", Q[q], t, {"drop"})
      <4>1. ~Doing("sqlite", Q[p], t, {"drop"})
        BY <1>5, <1>10
      <4>2. \A q \in Programs \ {p} : Doing("sqlite", Q[q], t, {"drop"}) => Doing("sqlite", P[q], t, Parts)
        BY DEF Doing, Parts
      <4> QED BY <3>2, <4>1, <4>2
    <3>4. First(t) <= bg => Kept(t, e)
      BY <2>1, <2>3 DEF RowsAt, Kept, Grows
    <3> QED BY <2>1, <3>2, <3>3, <3>4 DEF RowsAt, Grows
  <2> QED BY <2>1, <2>2, <2>3
<1>11. CASE s.does = "copy"
  <2>1. /\ Schema(e) /\ Grows(d, e) /\ s.table \in DOMAIN e.table
        /\ s.table \in DOMAIN d.aside /\ s.table \in DOMAIN d.table
        /\ d.aside[s.table].rows \subseteq e.table[s.table].rows
    BY ZenonT(40), <1>11, CopyStep
  <2>2. ASSUME NEW t \in Rebuilt, t # s.table PROVE RowsAt("sqlite", bg, e, Q, t)
    BY <1>8, <1>11, <2>1, <2>2, GrowRows DEF Parts
  <2>3. ASSUME NEW t \in Rebuilt, t = s.table PROVE RowsAt("sqlite", bg, e, Q, t)
    <3>1. Doing("sqlite", P[p], t, Parts)
      BY <1>6, <1>11, <2>3 DEF Parts
    <3>2. \A q \in Programs : Doing("sqlite", P[q], t, Parts) => q = p
      BY <3>1 DEF RowsAt
    <3>3. First(t) <= bg => "kept" \in e.table[t].rows
      <4>1. First(t) <= bg => Kept(t, d)
        BY <2>3 DEF RowsAt
      <4>2. t \in DOMAIN d.table /\ "kept" \in d.table[t].rows => "kept" \in e.table[t].rows
        BY <2>1 DEF Grows
      <4> QED BY <2>1, <2>3, <4>1, <4>2 DEF Kept
    <3>4. First(t) <= bg => Kept(t, e)
      BY <2>1, <2>3, <3>3 DEF Kept
    <3>5. e.aside = d.aside
      BY <2>1 DEF Grows
    <3> QED BY <2>1, <2>3, <3>2, <3>3, <3>4, <3>5 DEF RowsAt
  <2> QED BY <2>1, <2>2, <2>3
<1>12. CASE s.does = "drop"
  <2>1. /\ Schema(e) /\ e.table = d.table
        /\ DOMAIN e.aside = DOMAIN d.aside \ {s.table}
        /\ \A x \in DOMAIN d.aside \ {s.table} : e.aside[x] = d.aside[x]
    BY <1>12, DropStep
  <2>2. ASSUME NEW t \in Rebuilt, t # s.table PROVE RowsAt("sqlite", bg, e, Q, t)
    <3>1. t \in DOMAIN e.aside <=> t \in DOMAIN d.aside
      BY <2>1, <2>2
    <3> QED BY <1>8, <1>12, <2>1, <2>2, <3>1, OtherTable DEF Parts
  <2>3. ASSUME NEW t \in Rebuilt, t = s.table PROVE RowsAt("sqlite", bg, e, Q, t)
    <3>1. Doing("sqlite", P[p], t, Parts) /\ Doing("sqlite", P[p], t, {"drop"})
      BY <1>6, <1>12, <2>3 DEF Parts
    <3>2. \A q \in Programs : Doing("sqlite", P[q], t, Parts) => q = p
      BY <3>1 DEF RowsAt
    <3>3. t \in DOMAIN d.table /\ (First(t) <= bg => "kept" \in d.table[t].rows)
      BY <3>1 DEF RowsAt
    <3>4. \A q \in Programs : ~Doing("sqlite", Q[q], t, Parts)
      <4>1. ~Doing("sqlite", Q[p], t, Parts)
        BY <1>5, <1>12
      <4> QED BY <3>2, <4>1
    <3>5. \A q \in Programs : Doing("sqlite", Q[q], t, {"drop"}) => Doing("sqlite", Q[q], t, Parts)
      BY DEF Doing, Parts
    <3> QED BY <2>1, <3>3, <3>4, <3>5 DEF RowsAt, Kept
  <2> QED BY <2>1, <2>2, <2>3
<1> QED BY <1>3, <1>7, <1>9, <1>10, <1>11, <1>12

\* Every program is at some place.
Placed == IsFcn(prog) /\ DOMAIN prog = Programs /\ \A p \in Programs : IsProc(prog[p])

\* What the rows of the rebuilt tables depend on: no other program is within the rebuild of
\* a table that one is rebuilding.
RowInv ==
    /\ backend \in Databases /\ begun \in 0..25
    /\ Placed
    /\ Schema(db)
    /\ \A t \in Rebuilt : RowsAt(backend, begun, db, prog, t)

\* The database of a deployment.
LEMMA InitTables ==
    ASSUME BootInit
    PROVE  /\ backend \in Databases /\ begun \in 0..25 /\ Placed
           /\ Schema(db) /\ DOMAIN db.aside = {} /\ DOMAIN db.table = {t \in Tables : First(t) <= begun}
           /\ \A t \in Rebuilt \cap DOMAIN db.table : "kept" \in db.table[t].rows
           /\ \A m \in 1..begun : \A s \in Statements[backend][m] : InEffect(s, db)
<1>1. backend \in Databases /\ begun \in 0..25
  BY BootAssumption DEF BootInit, Databases
<1>2. Placed
  <2>1. prog = [p \in Programs |-> Proc("down", {}, 1)]
    BY DEF BootInit, Off, Proc
  <2>2. IsProc(Proc("down", {}, 1))
    <3>1. {} \in SUBSET (1..25) /\ 1 \in Nat /\ 1 >= 1
      OBVIOUS
    <3> QED BY <3>1 DEF IsProc
  <2> QED BY <2>1, <2>2 DEF Placed, IsFcn
<1>3. PICK T : T = Migrated(backend, begun)
  OBVIOUS
<1>4. /\ IsFcn(T) /\ DOMAIN T = {t \in Tables : First(t) <= begun}
      /\ \A t \in DOMAIN T : /\ \E sh \in Nat : \E cs : T[t] = Tab(sh, cs, {})
                             /\ First(t) <= T[t].shape /\ T[t].shape <= Top(t)
      /\ \A m \in 1..begun : \A s \in Statements[backend][m] :
            /\ s.table \in DOMAIN T
            /\ s.does \in Adds => s.arg \in T[s.table].cols
            /\ s.does \in Shapes => T[s.table].shape >= s.arg
  <2>1. PICK b \in Databases, k \in 0..25 : b = backend /\ k = begun /\ T = Migrated(b, k)
    BY <1>1, <1>3
  <2>2. Deployed(T, b, k)
    BY <2>1, MigratedIs
  <2> QED BY <2>1, <2>2 DEF Deployed
<1> DEFINE U == [t \in DOMAIN T |-> IF t \in Rebuilt THEN [T[t] EXCEPT !.rows = Legacy(t, begun)] ELSE T[t]]
           A == [t \in {} |-> t]
<1>5. PICK l, p : db = Database(U, A, l, p)
  <2>1. PICK label \in Versions \union {NoVersion} :
           db = [table |-> U, aside |-> A, label |-> IF begun = 0 THEN NoVersion ELSE label,
                 pointer |-> IF begun < 21 THEN NoVersion ELSE label]
    BY <1>3 DEF BootInit
  <2> QED BY <2>1 DEF Database
<1>6. ASSUME NEW t \in DOMAIN T
      PROVE  /\ IsTab(U[t]) /\ U[t].shape = T[t].shape /\ U[t].cols = T[t].cols
             /\ t \in Rebuilt => "kept" \in U[t].rows
  <2>5. PICK sh \in Nat : \E cs : T[t] = Tab(sh, cs, {})
    BY <1>4
  <2>1. PICK cs : T[t] = Tab(sh, cs, {})
    BY <2>5
  <2>2. T[t].shape = sh /\ T[t].cols = cs
    BY <2>1, TabParts
  <2>3. CASE t \in Rebuilt
    <3>1. PICK rs : rs = Legacy(t, begun)
      OBVIOUS
    <3>2. U[t] = [T[t] EXCEPT !.rows = rs]
      BY <2>3, <3>1
    <3>3. U[t] = Tab(sh, cs, rs)
      BY <2>1, <3>2 DEF Tab
    <3>4. "kept" \in rs
      BY <3>1 DEF Legacy
    <3>5. IsTab(U[t])
      BY <3>3 DEF IsTab
    <3> HIDE DEF U
    <3> QED BY <2>2, <3>3, <3>4, <3>5, TabParts
  <2>4. CASE t \notin Rebuilt
    <3>1. U[t] = Tab(sh, cs, {})
      BY <2>1, <2>4
    <3>2. IsTab(U[t])
      BY <3>1 DEF IsTab
    <3> HIDE DEF U
    <3> QED BY <2>2, <2>4, <3>1, <3>2, TabParts
  <2> QED BY <2>3, <2>4
<1>7. DOMAIN U = DOMAIN T /\ IsFcn(U) /\ DOMAIN A = {} /\ IsFcn(A)
  BY DEF IsFcn
<1> HIDE DEF U, A
<1>8. db.table = U /\ db.aside = A
  BY <1>5, IsDatabase
<1>9. Schema(db)
  <2>1. \E T2, A2, l2, p2 : db = Database(T2, A2, l2, p2)
    BY <1>5
  <2>2. \A t \in DOMAIN U : IsTab(U[t]) /\ First(t) <= U[t].shape /\ U[t].shape <= Top(t)
    BY <1>4, <1>6, <1>7
  <2> QED BY <1>4, <1>7, <1>8, <2>1, <2>2 DEF Schema
<1>10. ASSUME NEW m \in 1..begun, NEW s \in Statements[backend][m] PROVE InEffect(s, db)
  <2>1. /\ s.table \in DOMAIN U
        /\ s.does \in Adds => s.arg \in U[s.table].cols
        /\ s.does \in Shapes => U[s.table].shape >= s.arg
    BY <1>4, <1>6, <1>7
  <2> QED BY <1>8, <2>1 DEF InEffect, Adds, Shapes
<1> QED BY <1>1, <1>2, <1>4, <1>6, <1>7, <1>8, <1>9, <1>10

\* A program moves to another place.
LEMMA Moved ==
    ASSUME Placed, NEW p \in Programs, NEW r, IsProc(r), prog' = [prog EXCEPT ![p] = r]
    PROVE  Placed' /\ prog'[p] = r /\ \A q \in Programs \ {p} : prog'[q] = prog[q]
<1>2. prog = [x \in DOMAIN prog |-> prog[x]] /\ DOMAIN prog = Programs
  BY DEF Placed, IsFcn
<1>3. IsFcn(prog') /\ DOMAIN prog' = Programs /\ prog'[p] = r /\ \A q \in Programs \ {p} : prog'[q] = prog[q]
  BY <1>2 DEF IsFcn
<1>5. \A q \in Programs : IsProc(prog'[q])
  BY <1>3 DEF Placed
<1> QED BY <1>3, <1>5 DEF Placed

\* Where a program is, by its parts.
LEMMA ProcIs ==
    ASSUME NEW a, NEW todo \in SUBSET (1..25), NEW u \in Nat, u >= 1
    PROVE  IsProc(Proc(a, todo, u))
  BY DEF IsProc

\* The parts of a place that is known.
LEMMA PlaceIs ==
    ASSUME Placed, NEW p \in Programs
    PROVE  /\ prog[p] = Proc(prog[p].at, prog[p].todo, prog[p].unit)
           /\ prog[p].todo \in SUBSET (1..25) /\ prog[p].unit \in Nat /\ prog[p].unit >= 1
<1>1. PICK at, todo, unit : prog[p] = Proc(at, todo, unit) /\ todo \in SUBSET (1..25) /\ unit \in Nat /\ unit >= 1
  BY DEF Placed, IsProc
<1>2. prog[p].at = at /\ prog[p].todo = todo /\ prog[p].unit = unit
  BY <1>1, ProcParts
<1> QED BY <1>1, <1>2

\* The migration a program is at.
LEMMA NowIs ==
    ASSUME Placed, NEW p \in Programs, prog[p].todo # {}
    PROVE  Now(p) \in prog[p].todo /\ Now(p) \in 1..25 /\ \A k \in prog[p].todo : Now(p) <= k
<1>1. PICK S : S = prog[p].todo
  OBVIOUS
<1>2. S \subseteq 1..25 /\ S \subseteq Nat /\ S # {}
  BY <1>1, PlaceIs
<1>3. Min(S) \in S /\ \A y \in S : Min(S) <= y
  BY <1>2, MinOf
<1> QED BY <1>1, <1>2, <1>3 DEF Now

\* Where a program can go: each action is one of these moves.
LEMMA StartMove ==
    ASSUME Placed, NEW p \in Programs, Start(p)
    PROVE  prog' = [prog EXCEPT ![p] = Proc("migrating", Pending(p), 1)] /\ Pending(p) \in SUBSET (1..25)
  BY DEF Start, Proc, Pending

LEMMA OffMove ==
    ASSUME NEW at PROVE Off(at) = Proc(at, {}, 1)
  BY DEF Off, Proc

\* The next unit and the next migration.
LEMMA NextUnitMove ==
    ASSUME Placed, NEW p \in Programs, prog' = [prog EXCEPT ![p].unit = @ + 1]
    PROVE  prog' = [prog EXCEPT ![p] = Proc(prog[p].at, prog[p].todo, prog[p].unit + 1)]
<1>1. PICK at, todo, u : prog[p] = Proc(at, todo, u)
  BY DEF Placed, IsProc
<1>2. prog[p].at = at /\ prog[p].todo = todo /\ prog[p].unit = u
  BY <1>1, ProcParts
<1>3. PICK n : n = u + 1
  OBVIOUS
<1>4. prog' = [prog EXCEPT ![p].unit = n]
  BY <1>2, <1>3
<1>5. [prog[p] EXCEPT !.unit = n] = Proc(at, todo, n)
  BY <1>1 DEF Proc
<1> QED BY <1>2, <1>3, <1>4, <1>5

\* Edits of one field of a place.
LEMMA TodoEdit == ASSUME NEW a, NEW t, NEW u, NEW x PROVE [Proc(a, t, u) EXCEPT !.todo = x] = Proc(a, x, u)
  BY DEF Proc

LEMMA UnitEdit == ASSUME NEW a, NEW t, NEW u, NEW x PROVE [Proc(a, t, u) EXCEPT !.unit = x] = Proc(a, t, x)
  BY DEF Proc

LEMMA NextMigrationMove ==
    ASSUME Placed, NEW p \in Programs, NEW m, prog' = [prog EXCEPT ![p].todo = @ \ {m}, ![p].unit = 1]
    PROVE  prog' = [prog EXCEPT ![p] = Proc(prog[p].at, prog[p].todo \ {m}, 1)]
<1>1. PICK at, todo, u : prog[p] = Proc(at, todo, u)
  BY DEF Placed, IsProc
<1>2. prog[p].at = at /\ prog[p].todo = todo /\ prog[p].unit = u
  BY <1>1, ProcParts
<1>3. PICK n : n = todo \ {m}
  OBVIOUS
<1>6. prog = [x \in DOMAIN prog |-> prog[x]] /\ p \in DOMAIN prog
  BY DEF Placed, IsFcn
<1>4. prog' = [prog EXCEPT ![p].todo = n, ![p].unit = 1]
  BY <1>2, <1>3
<1>8. PICK r : r = prog[p]
  OBVIOUS
<1>5. [r EXCEPT !.todo = n, !.unit = 1] = Proc(at, n, 1)
  <2>1. [r EXCEPT !.todo = n] = Proc(at, n, u)
    BY <1>1, <1>8, TodoEdit
  <2>2. [Proc(at, n, u) EXCEPT !.unit = 1] = Proc(at, n, 1)
    BY UnitEdit
  <2>3. [r EXCEPT !.todo = n, !.unit = 1] = [[r EXCEPT !.todo = n] EXCEPT !.unit = 1]
    OBVIOUS
  <2> QED BY <2>1, <2>2, <2>3
<1>7. prog' = [prog EXCEPT ![p] = [r EXCEPT !.todo = n, !.unit = 1]]
  BY <1>4, <1>6, <1>8
<1> QED BY <1>2, <1>3, <1>5, <1>7

\* The last part of a rebuild is a part of it.
LEMMA DropIsPart ==
    ASSUME NEW b, NEW r, NEW t, Doing(b, r, t, {"drop"})
    PROVE  Doing(b, r, t, Parts)
  BY DEF Doing, Parts

\* At the first unit of a migration no rebuild is under way.
LEMMA AtFirst ==
    ASSUME NEW r, r.todo \in SUBSET (1..25), r.unit = 1, NEW t
    PROVE  ~Doing("sqlite", r, t, Parts)
<1> SUFFICES ASSUME Doing("sqlite", r, t, Parts) PROVE FALSE
  OBVIOUS
<1>1. PICK T : T = r.todo
  OBVIOUS
<1>2. T \subseteq 1..25 /\ T \subseteq Nat /\ T # {}
  <2>1. T \subseteq 1..25
    BY <1>1
  <2>2. T # {}
    BY <1>1 DEF Doing
  <2>3. T \subseteq Nat
    BY <2>1
  <2> QED BY <2>1, <2>2, <2>3
<1>3. Min(T) \in 1..25
  BY <1>2, MinOf
<1>4. PICK m \in 1..25 : m = Min(r.todo)
  BY <1>1, <1>3
<1>5. PICK S : S = Scripts["sqlite"][m]
  OBVIOUS
<1>6. Len(S) \in Nat /\ \A j \in 1..Len(S) : S[j][1].does \in Parts => j > 1
  BY <1>5, SqliteUnits
<1>7. 1 <= Len(S) /\ S[1][1].does \in Parts
  BY <1>4, <1>5 DEF Doing
<1> QED BY <1>6, <1>7

\* A program that comes to a first unit, or stops, disturbs no rebuild.
LEMMA FirstUnitRows ==
    ASSUME RowInv, NEW p \in Programs, NEW a, NEW todo \in SUBSET (1..25), prog' = [prog EXCEPT ![p] = Proc(a, todo, 1)],
           UNCHANGED <<backend, begun, db>>
    PROVE  RowInv'
<1>1. /\ Placed' /\ prog'[p].todo = todo /\ prog'[p].unit = 1 /\ \A q \in Programs \ {p} : prog'[q] = prog[q]
  <2>1. PICK u \in Nat : u = 1 /\ u >= 1
    OBVIOUS
  <2>2. PICK r : r = Proc(a, todo, u)
    OBVIOUS
  <2>3. IsProc(r) /\ r.todo = todo /\ r.unit = u
    <3>1. IsProc(r)
      BY <2>1, <2>2, ProcIs
    <3>2. r.todo = todo /\ r.unit = u
      BY <2>2, ProcParts
    <3> QED BY <3>1, <3>2
  <2>4. prog' = [prog EXCEPT ![p] = r] /\ Placed
    BY <2>1, <2>2 DEF RowInv
  <2>5. Placed' /\ prog'[p] = r /\ \A q \in Programs \ {p} : prog'[q] = prog[q]
    BY <2>3, <2>4, Moved
  <2> QED BY <2>1, <2>3, <2>5
<1>2. ASSUME NEW t PROVE ~Doing("sqlite", prog'[p], t, Parts)
  <2>1. PICK r : r = prog'[p]
    OBVIOUS
  <2> QED BY <1>1, <2>1, AtFirst
<1>3. ASSUME NEW t \in Rebuilt PROVE RowsAt(backend, begun, db, prog', t)
  <2>1. RowsAt(backend, begun, db, prog, t)
    BY DEF RowInv
  <2>2. CASE backend = "sqlite"
    <3>1. \A q \in Programs : Doing("sqlite", prog'[q], t, Parts) => prog'[q] = prog[q]
      BY <1>1, <1>2
    <3>2. \A q \in Programs : Doing("sqlite", prog'[q], t, {"drop"}) => prog'[q] = prog[q]
      BY <3>1, DropIsPart
    <3>3. PICK P, Q, d, b : P = prog /\ Q = prog' /\ d = db /\ b = backend
      OBVIOUS
    <3>4. /\ \A q \in Programs : Doing(b, Q[q], t, Parts) => Q[q] = P[q]
          /\ \A q \in Programs : Doing(b, Q[q], t, {"drop"}) => Q[q] = P[q]
          /\ RowsAt(b, begun, d, P, t)
      BY <2>1, <2>2, <3>1, <3>2, <3>3
    <3>5. RowsAt(b, begun, d, Q, t)
      BY <3>4, OtherTable
    <3> QED BY <3>3, <3>5
  <2>3. CASE backend # "sqlite"
    BY <2>1, <2>3 DEF RowsAt
  <2> QED BY <2>2, <2>3
<1> QED BY <1>1, <1>3 DEF RowInv

\* A deployment has its rows in its tables.
LEMMA InitRows == BootInit => RowInv
<1> SUFFICES ASSUME BootInit PROVE RowInv
  OBVIOUS
<1>1. /\ backend \in Databases /\ begun \in 0..25 /\ Placed
      /\ Schema(db) /\ DOMAIN db.aside = {} /\ DOMAIN db.table = {t \in Tables : First(t) <= begun}
      /\ \A t \in Rebuilt \cap DOMAIN db.table : "kept" \in db.table[t].rows
  BY InitTables
<1>2. ASSUME NEW p \in Programs, NEW t, NEW b, NEW steps PROVE ~Doing(b, prog[p], t, steps)
  <2>1. prog[p].at = "down"
    BY DEF BootInit, Off
  <2> QED BY <2>1 DEF Doing
<1>3. ASSUME NEW t \in Rebuilt, First(t) <= begun PROVE Kept(t, db)
  <2>1. t \in Tables
    BY DEF Tables
  <2> QED BY <1>1, <1>3, <2>1 DEF Kept
<1>4. \A t \in Rebuilt : RowsAt(backend, begun, db, prog, t)
  BY <1>1, <1>2, <1>3 DEF RowsAt
<1> QED BY <1>1, <1>4 DEF RowInv

\* Where a program is in a script.
PlaceAt(p, m, S, i) ==
    /\ m \in 1..25 /\ m = Now(p) /\ S = Scripts[backend][m] /\ i \in 1..Len(S) /\ i = prog[p].unit
    /\ Left(p) = S /\ Min(prog[p].todo) = m /\ i \in Nat /\ i >= 1

\* A program that is in a script is at one of its units.
LEMMA UnitIs ==
    ASSUME Placed, backend \in Databases, NEW p \in Programs, Migrating(p), prog[p].unit <= Len(Left(p))
    PROVE  \E m, S, i : PlaceAt(p, m, S, i)
<1>1. PICK m \in 1..25 : m = Now(p)
  BY NowIs DEF Migrating
<1>2. PICK S : S = Scripts[backend][m]
  OBVIOUS
<1>3. PICK i \in Nat : i = prog[p].unit /\ i >= 1
  BY PlaceIs
<1>4. Len(S) \in Nat
  <2>1. CASE backend = "sqlite"
    BY <1>2, <2>1, SqliteUnits
  <2>2. CASE backend = "postgres"
    BY <1>2, <2>2, PostgresUnits
  <2> QED BY <2>1, <2>2 DEF Databases
<1>5. Left(p) = S /\ Min(prog[p].todo) = m
  BY <1>1, <1>2 DEF Left, Now
<1>6. i \in 1..Len(S)
  BY <1>3, <1>4, <1>5
<1> QED BY <1>1, <1>2, <1>3, <1>5, <1>6 DEF PlaceAt

\* A unit of a script on SQLite is one statement.
SqliteStep(d, e, m, S, i, s) ==
    s \in Legal("sqlite", m) /\ s = S[i][1] /\ Works(s, d) /\ e = Effect(s, d)

\* The unit is the statement, and its outcome is the effect.
LEMMA SqliteUp ==
    ASSUME Placed, backend = "sqlite", NEW p \in Programs, NEW m, NEW S, NEW i, PlaceAt(p, m, S, i),
           NEW d, NEW e \in Outcomes(Left(p)[prog[p].unit], d)
    PROVE  \E s : SqliteStep(d, e, m, S, i, s)
<1>1. m \in 1..25 /\ S = Scripts["sqlite"][m] /\ i \in 1..Len(S)
  BY DEF PlaceAt
<1>2. Single(S[i]) /\ S[i][1] \in Legal("sqlite", m)
  BY <1>1, SqliteUnits
<1>3. PICK s \in Legal("sqlite", m) : s = S[i][1]
  BY <1>2
<1>4. S[i] = <<s>>
  BY <1>2, <1>3 DEF Single
<1>5. e \in Outcomes(S[i], d)
  BY DEF PlaceAt
<1>6. e \in Outcomes(<<s>>, d)
  BY <1>4, <1>5
<1>7. e \in {Effect(s, x) : x \in {y \in {d} : Works(s, y)}}
  BY <1>6, OneUnit
<1>8. Works(s, d) /\ e = Effect(s, d)
  BY <1>7
<1> QED BY <1>3, <1>8 DEF SqliteStep

\* A unit of a script on PostgreSQL only adds.
LEMMA PostgresUp ==
    ASSUME Placed, backend = "postgres", NEW p \in Programs, NEW m, NEW S, NEW i, PlaceAt(p, m, S, i),
           NEW d, Schema(d), NEW e \in Outcomes(Left(p)[prog[p].unit], d)
    PROVE  Added(m, S[i], d, e)
<1>1. m \in 1..25 /\ S = Scripts["postgres"][m] /\ i \in 1..Len(S)
  BY DEF PlaceAt
<1>2. PICK unit, b : unit = S[i] /\ b = "postgres"
  OBVIOUS
<1>3. GentleOnes(b, m, unit)
  BY <1>1, <1>2, PostgresUnits DEF GentleOnes
<1>4. e \in Outcomes(unit, d)
  BY <1>2 DEF PlaceAt
<1>5. Added(m, unit, d, e)
  BY <1>1, <1>3, <1>4, GentleUnit
<1> QED BY <1>2, <1>5

\* A unit commits, or fails and leaves the database as it was.
LEMMA UpRows ==
    ASSUME RowInv, NEW p \in Programs, Up(p) PROVE RowInv'
<1>1. Placed /\ Migrating(p) /\ prog[p].unit <= Len(Left(p)) /\ Schema(db) /\ UNCHANGED <<backend, begun>> /\ backend \in Databases
  BY DEF RowInv, Up
<1>2. CASE prog' = [prog EXCEPT ![p] = Off("failed")] /\ UNCHANGED db
  <2>1. prog' = [prog EXCEPT ![p] = Proc("failed", {}, 1)]
    BY <1>2, OffMove
  <2> QED BY <1>1, <1>2, <2>1, FirstUnitRows
<1>3. CASE db' \in Outcomes(Left(p)[prog[p].unit], db) /\ prog' = [prog EXCEPT ![p].unit = @ + 1]
  <2>1. PICK e : e = db' /\ e \in Outcomes(Left(p)[prog[p].unit], db)
    BY <1>3
  <2>2. /\ Placed' /\ prog'[p] = Proc(prog[p].at, prog[p].todo, prog[p].unit + 1)
        /\ \A q \in Programs \ {p} : prog'[q] = prog[q]
    <3>6. PICK n \in Nat, todo \in SUBSET (1..25) : n = prog[p].unit /\ todo = prog[p].todo
      BY <1>1, PlaceIs
    <3>1. PICK a : n = prog[p].unit /\ todo = prog[p].todo /\ a = prog[p].at
      BY <3>6
    <3>2. n + 1 \in Nat /\ n + 1 >= 1
      OBVIOUS
    <3>3. PICK r : r = Proc(a, todo, n + 1)
      OBVIOUS
    <3>4. IsProc(r)
      BY <3>2, <3>3, ProcIs
    <3>5. prog' = [prog EXCEPT ![p] = r]
      BY <1>1, <1>3, <3>1, <3>3, NextUnitMove
    <3> QED BY <1>1, <3>1, <3>3, <3>4, <3>5, Moved
  <2>3. prog'[p].at = prog[p].at /\ prog'[p].todo = prog[p].todo /\ prog'[p].unit = prog[p].unit + 1
    BY <2>2, ProcParts
  <2>7. PICK m, S, i : PlaceAt(p, m, S, i)
    BY <1>1, UnitIs
  <2>4. CASE backend = "sqlite"
    <3>1. PICK s : SqliteStep(db, e, m, S, i, s)
      BY <1>1, <2>1, <2>4, <2>7, SqliteUp
    <3>4. PICK P, Q, d, bg : P = prog /\ Q = prog' /\ d = db /\ bg = begun
      OBVIOUS
    <3>5. RunsOne(P, Q, p, m, S, i, s)
      BY <1>1, <2>2, <2>3, <2>4, <2>7, <3>1, <3>4 DEF Migrating, PlaceAt, RunsOne, SqliteStep
    <3>6. Schema(d) /\ Works(s, d) /\ e = Effect(s, d) /\ \A t \in Rebuilt : RowsAt("sqlite", bg, d, P, t)
      BY <1>1, <2>4, <3>1, <3>4 DEF RowInv, SqliteStep
    <3>7. Schema(e) /\ \A t \in Rebuilt : RowsAt("sqlite", bg, e, Q, t)
      BY <3>5, <3>6, StatementRows
    <3> QED BY <1>1, <2>1, <2>2, <2>4, <3>4, <3>7 DEF RowInv
  <2>5. CASE backend = "postgres"
    <3>1. Schema(e) /\ Grows(db, e)
      BY <1>1, <2>1, <2>5, <2>7, PostgresUp DEF Added
    <3>2. ASSUME NEW t \in Rebuilt PROVE RowsAt(backend, begun, e, prog', t)
      <4>1. t \notin DOMAIN db.aside /\ (First(t) <= begun => Kept(t, db))
        BY <2>5 DEF RowInv, RowsAt
      <4> QED BY <2>5, <3>1, <4>1 DEF RowsAt, Kept, Grows
    <3> QED BY <1>1, <2>1, <2>2, <3>1, <3>2 DEF RowInv
  <2> QED BY <1>1, <2>4, <2>5 DEF Databases
<1> QED BY <1>2, <1>3 DEF Up

\* A label set, and a span written, by a serving server.
LEMMA LabelStep ==
    ASSUME NEW d, Schema(d), NEW X, NEW e, e = [d EXCEPT !.label = X]
    PROVE  Schema(e) /\ Grows(d, e) /\ e.pointer = d.pointer
<1>1. PICK T, A, l, p : d = Database(T, A, l, p)
  BY DEF Schema
<1>2. e = Database(T, A, X, p)
  BY <1>1 DEF Database
<1>3. /\ d.table = T /\ d.aside = A /\ d.pointer = p
      /\ e.table = T /\ e.aside = A /\ e.pointer = p
  BY <1>1, <1>2, IsDatabase
<1>4. Schema(e)
  <2>1. \E T2, A2, l2, p2 : e = Database(T2, A2, l2, p2)
    BY <1>2
  <2> QED BY <1>3, <2>1 DEF Schema
<1>5. Grows(d, d)
  BY GrowsSame
<1>6. Grows(d, e)
  BY <1>3, <1>5 DEF Grows
<1> QED BY <1>3, <1>4, <1>6

LEMMA SpanStep ==
    ASSUME NEW d, Schema(d), NEW t \in DOMAIN d.table, NEW rs, d.table[t].rows \subseteq rs,
           NEW e, e = [d EXCEPT !.table[t].rows = rs]
    PROVE  Schema(e) /\ Grows(d, e)
<1>1. PICK sh, cs : sh = d.table[t].shape /\ cs = d.table[t].cols
  OBVIOUS
<1>2. e = [d EXCEPT !.table[t] = Tab(sh, cs, rs)]
  BY <1>1, RowsEdit
<1>3. sh \in Nat /\ sh <= Top(t) /\ d.table[t].shape <= sh
  BY <1>1, ShapeBound
<1>4. d.table[t].cols \subseteq cs /\ ("kept" \in d.table[t].rows => "kept" \in rs)
  BY <1>1
<1> QED BY <1>2, <1>3, <1>4, EditStep

\* What a serving server writes leaves the tables as they are.
LEMMA ServingGrows ==
    ASSUME Schema(db), NEW p, WriteSpan(p) \/ \E v \in Versions : Promote(p, v) \/ Relabel(p, v)
    PROVE  Schema(db') /\ Grows(db, db') /\ UNCHANGED <<backend, begun, ledger, prog, cut, overlapped, crashes>>
<1>1. CASE WriteSpan(p)
  <2>1. PICK e : e = db'
    OBVIOUS
  <2>2. "spans" \in DOMAIN db.table /\ e = [db EXCEPT !.table["spans"].rows = @ \union {"running"}]
    BY <1>1, <2>1 DEF WriteSpan
  <2>4. PICK t, rs : t = "spans" /\ rs = db.table[t].rows \union {"running"}
    OBVIOUS
  <2>5. t \in DOMAIN db.table /\ e = [db EXCEPT !.table[t].rows = rs] /\ db.table[t].rows \subseteq rs
    BY <2>2, <2>4
  <2>3. Schema(e) /\ Grows(db, e)
    BY <2>5, SpanStep
  <2> QED BY <1>1, <2>1, <2>3 DEF WriteSpan
<1>2. ASSUME NEW v \in Versions, Promote(p, v)
      PROVE  Schema(db') /\ Grows(db, db') /\ UNCHANGED <<backend, begun, ledger, prog, cut, overlapped, crashes>>
  <2>1. db' = [db EXCEPT !.pointer = v]
    BY <1>2 DEF Promote
  <2>2. Schema([db EXCEPT !.pointer = v]) /\ Grows(db, [db EXCEPT !.pointer = v])
    BY BackfillStep
  <2> QED BY <1>2, <2>1, <2>2 DEF Promote
<1>3. ASSUME NEW v \in Versions, Relabel(p, v)
      PROVE  Schema(db') /\ Grows(db, db') /\ UNCHANGED <<backend, begun, ledger, prog, cut, overlapped, crashes>>
  <2>1. PICK e : e = db' /\ e = [db EXCEPT !.label = v]
    BY <1>3 DEF Relabel
  <2>2. Schema(e) /\ Grows(db, e)
    BY <2>1, LabelStep
  <2> QED BY <1>3, <2>1, <2>2 DEF Relabel
<1> QED BY <1>1, <1>2, <1>3

\* The rows are kept by every step: the statements of a rebuild by their order, everything
\* else because it adds.
LEMMA StepRows == RowInv /\ [BootNext]_bootVars => RowInv'
<1> SUFFICES ASSUME RowInv, [BootNext]_bootVars PROVE RowInv'
  OBVIOUS
<1>0. Placed
  BY DEF RowInv
<1>1. ASSUME NEW p \in Programs, Start(p) PROVE RowInv'
  <2>1. prog' = [prog EXCEPT ![p] = Proc("migrating", Pending(p), 1)] /\ Pending(p) \in SUBSET (1..25)
    BY <1>0, <1>1, StartMove
  <2>2. UNCHANGED <<backend, begun, db>>
    BY <1>1 DEF Start
  <2> QED BY <2>1, <2>2, FirstUnitRows
<1>2. ASSUME NEW p \in Programs, Up(p) PROVE RowInv'
  BY <1>2, UpRows
<1>3. ASSUME NEW p \in Programs, LogMigration(p) PROVE RowInv'
  <2>1. UNCHANGED <<backend, begun, db>>
    BY <1>3 DEF LogMigration
  <2>2. CASE prog' = [prog EXCEPT ![p] = Off("failed")]
    <3>1. prog' = [prog EXCEPT ![p] = Proc("failed", {}, 1)] /\ {} \in SUBSET (1..25)
      BY <2>2, OffMove
    <3> QED BY <2>1, <3>1, FirstUnitRows
  <2>3. CASE prog' = [prog EXCEPT ![p].todo = @ \ {Now(p)}, ![p].unit = 1]
    <3>1. PICK m : m = Now(p)
      OBVIOUS
    <3>2. prog' = [prog EXCEPT ![p] = Proc(prog[p].at, prog[p].todo \ {m}, 1)]
      BY <1>0, <2>3, <3>1, NextMigrationMove
    <3>3. prog[p].todo \ {m} \in SUBSET (1..25)
      BY <1>0, PlaceIs
    <3> QED BY <2>1, <3>2, <3>3, FirstUnitRows
  <2> QED BY <1>3, <2>2, <2>3 DEF LogMigration
<1>4. ASSUME NEW p \in Programs, NEW a, prog' = [prog EXCEPT ![p] = Off(a)], UNCHANGED <<backend, begun, db>>
      PROVE  RowInv'
  <2>1. prog' = [prog EXCEPT ![p] = Proc(a, {}, 1)] /\ {} \in SUBSET (1..25)
    BY <1>4, OffMove
  <2> QED BY <1>4, <2>1, FirstUnitRows
<1>5. ASSUME NEW p \in Programs, Listen(p) \/ Exit(p) \/ Crash(p) PROVE RowInv'
  BY <1>4, <1>5 DEF Listen, Exit, Crash
<1>6. ASSUME NEW p, WriteSpan(p) \/ \E v \in Versions : Promote(p, v) \/ Relabel(p, v) PROVE RowInv'
  <2>1. Schema(db') /\ Grows(db, db') /\ UNCHANGED <<backend, begun, prog>>
    BY <1>6, ServingGrows DEF RowInv
  <2>2. PICK P, d, e, b : P = prog /\ d = db /\ e = db' /\ b = backend
    OBVIOUS
  <2>3. \A t \in Rebuilt : RowsAt(b, begun, e, P, t)
    BY <2>1, <2>2, GrowRows DEF RowInv
  <2>4. Placed'
    BY <1>0, <2>1 DEF Placed
  <2> QED BY <2>1, <2>2, <2>3, <2>4 DEF RowInv
<1>7. CASE UNCHANGED bootVars
  BY <1>7 DEF RowInv, Placed, bootVars
<1> QED BY <1>1, <1>2, <1>3, <1>5, <1>6, <1>7 DEF BootNext, Rests

\* The invariant holds.
LEMMA RowsHold == BootSpec => []RowInv
<1>1. BootInit => RowInv
  BY InitRows
<1>2. RowInv /\ [BootNext]_bootVars => RowInv'
  BY StepRows
<1> QED BY <1>1, <1>2, PTL DEF BootSpec

\* No crash and no second program loses a row: the four statements of a rebuild, which no
\* transaction covers on SQLite, have the rows in one of two tables at every moment, and no
\* other program can rename a table whose old form is still there.
THEOREM RowsAreKept == BootSpec => []NoRowLost
<1>1. RowInv => NoRowLost
  <2> SUFFICES ASSUME RowInv, NEW t \in Rebuilt,
                      begun >= CASE t \in {"spans", "runs"} -> 1 [] t = "ab_test_results" -> 11 [] OTHER -> 12
               PROVE  Kept(t, db)
    BY DEF NoRowLost, Kept
  <2>1. First(t) <= begun
    BY DEF First, Rebuilt, RowInv
  <2> QED BY <2>1 DEF RowInv, RowsAt
<1> QED BY <1>1, RowsHold, PTL

-----------------------------------------------------------------------------
(* Boot.  The ledger and the programs.                                     *)

\* The first column of migration 2, who records it, and who is past it.
HasOptions(d) == "logs" \in DOMAIN d.table /\ "ollama_options" \in d.table["logs"].cols
Recorded(m) == \E x \in {"sql", "js"} : <<m, x>> \in ledger
PastOptions(p) == prog[p].at = "migrating" /\ prog[p].todo # {} /\ Min(prog[p].todo) = 2 /\ prog[p].unit > 1

\* While no two programs migrate at once: the one that does has all that is not recorded
\* before it, migrations are recorded in their order, and no two kinds of build record
\* migration 2, whose column can be added once.
InStep ==
    /\ \A p, q \in Programs : prog[p].at = "migrating" /\ prog[q].at = "migrating" => p = q
    /\ \A p \in Programs : prog[p].at = "migrating" => prog[p].todo = Pending(p)
    /\ \A x \in {"sql", "js"}, m \in 1..25 : <<m, x>> \in ledger => \A k \in 1..m : <<k, x>> \in ledger
    /\ ~(<<2, "sql">> \in ledger /\ <<2, "js">> \in ledger)
    /\ \A p \in Programs : PastOptions(p) => ~Recorded(2)

\* The column of migration 2 is there when it is recorded or about to be.
LedgerInv ==
    /\ ledger \subseteq (1..25) \X {"sql", "js"} /\ moves \in Nat
    /\ Recorded(2) => HasOptions(db)
    /\ \A p \in Programs : PastOptions(p) => HasOptions(db)
    /\ ~overlapped => InStep

\* The table logs is never moved aside, and keeps its columns.
LEMMA NotAside == ASSUME NEW d, Schema(d) PROVE "logs" \notin DOMAIN d.aside
  BY DEF Schema, Rebuilt

LEMMA OptionsGrow == ASSUME NEW d, NEW e, Grows(d, e), HasOptions(d) PROVE HasOptions(e)
  BY DEF Grows, HasOptions

\* A statement keeps the pointer, unless it is the backfill, and the columns of logs.
LEMMA StatementKeeps ==
    ASSUME NEW m \in 1..25, NEW s \in Legal("sqlite", m), NEW d, Schema(d), Works(s, d), NEW e, e = Effect(s, d)
    PROVE  /\ HasOptions(d) => HasOptions(e)
           /\ m # 21 => e.pointer = d.pointer
<1>1. Fits("sqlite", m, s.does, s.table, s.arg) /\ s.does \in Doings /\ m \in Nat
  BY LegalParts
<1>2. s.does \in Gentle \/ s.does = "rename" \/ s.does = "create" \/ s.does = "copy" \/ s.does = "drop"
  BY <1>1 DEF Doings, Parts
<1>3. CASE s.does \in Gentle
  <2>1. Grows(d, e) /\ (s.does # "backfill" => e.pointer = d.pointer)
    BY <1>3, GentleStep
  <2>2. s.does = "backfill" => m = 21
    BY <1>1 DEF Fits
  <2> QED BY <2>1, <2>2, OptionsGrow
<1>4. CASE s.does = "rename"
  <2>1. s.table \in Rebuilt
    BY <1>1, <1>4 DEF Fits, Gentle
  <2>2. /\ e.pointer = d.pointer
        /\ DOMAIN e.table = DOMAIN d.table \ {s.table}
        /\ \A x \in DOMAIN d.table \ {s.table} : e.table[x] = d.table[x]
    BY <1>4, <2>1, RenameStep
  <2>3. s.table # "logs"
    BY <2>1 DEF Rebuilt
  <2> QED BY <2>2, <2>3 DEF HasOptions
<1>5. CASE s.does = "create"
  BY <1>1, <1>5, CreateStep, OptionsGrow
<1>6. CASE s.does = "copy"
  BY <1>6, CopyStep, OptionsGrow
<1>7. CASE s.does = "drop"
  BY <1>7, DropStep DEF HasOptions
<1> QED BY <1>2, <1>3, <1>4, <1>5, <1>6, <1>7

\* A unit of a script.
LEMMA UnitKeeps ==
    ASSUME Placed, backend \in Databases, Schema(db), NEW p \in Programs, Migrating(p), prog[p].unit <= Len(Left(p)),
           NEW e \in Outcomes(Left(p)[prog[p].unit], db)
    PROVE  /\ HasOptions(db) => HasOptions(e)
           /\ Now(p) # 21 => e.pointer = db.pointer
           /\ Now(p) = 2 /\ prog[p].unit = 1 => ~HasOptions(db) /\ HasOptions(e)
<1>1. PICK m, S, i : PlaceAt(p, m, S, i)
  BY UnitIs
<1>2. m \in 1..25 /\ m = Now(p) /\ S = Scripts[backend][m] /\ i = prog[p].unit /\ i \in 1..Len(S)
  BY <1>1 DEF PlaceAt
<1>10. m \in 1..25
  BY <1>2
<1>11. m \in Nat
  BY <1>10
<1>3. PICK a : a = Stmt("add", "logs", "ollama_options")
  OBVIOUS
<1>4. a.does = "add" /\ a.table = "logs" /\ a.arg = "ollama_options"
  BY <1>3, StmtParts
<1>5. m = 2 /\ i = 1 => S[i][1] = a /\ Len(S[i]) > 0
  BY <1>2, <1>3, OptionsFirst
<1>6. ASSUME Works(a, db) PROVE ~HasOptions(db)
  BY <1>4, <1>6 DEF Works, HasOptions
<1>7. ASSUME Schema(e), InEffect(a, e) PROVE HasOptions(e)
  BY <1>4, <1>7, NotAside DEF InEffect, HasOptions
<1>8. CASE backend = "sqlite"
  <2>1. PICK s : SqliteStep(db, e, m, S, i, s)
    BY <1>1, <1>8, SqliteUp
  <2>2. s \in Legal("sqlite", m) /\ s = S[i][1] /\ Works(s, db) /\ e = Effect(s, db)
    BY <2>1 DEF SqliteStep
  <2>6. PICK d : d = db
    OBVIOUS
  <2>3. (HasOptions(db) => HasOptions(e)) /\ (m # 21 => e.pointer = db.pointer)
    <3>1. Schema(d) /\ Works(s, d) /\ e = Effect(s, d)
      BY <2>2, <2>6
    <3>2. (HasOptions(d) => HasOptions(e)) /\ (m # 21 => e.pointer = d.pointer)
      BY <1>10, <2>2, <3>1, StatementKeeps
    <3> QED BY <2>6, <3>2
  <2>4. ASSUME m = 2, i = 1 PROVE ~HasOptions(db) /\ HasOptions(e)
    <3>1. s = a /\ s.does \in Gentle
      BY <1>4, <1>5, <2>2, <2>4 DEF Gentle
    <3>2. Schema(e) /\ InEffect(s, e)
      BY <1>10, <1>11, <2>2, <3>1, GentleStep
    <3> QED BY <1>6, <1>7, <2>2, <3>1, <3>2
  <2> QED BY <1>2, <2>3, <2>4
<1>9. CASE backend = "postgres"
  <2>1. Added(m, S[i], db, e)
    BY <1>1, <1>9, PostgresUp
  <2>2. Schema(e) /\ Grows(db, e) /\ (m # 21 => e.pointer = db.pointer)
    BY <2>1 DEF Added
  <2>3. ASSUME m = 2, i = 1 PROVE ~HasOptions(db) /\ HasOptions(e)
    <3>1. PICK unit : unit = S[i]
      OBVIOUS
    <3>2. unit \in Seq(Legal("postgres", m)) /\ unit[1] = a /\ Len(unit) > 0
      BY <1>2, <1>5, <1>9, <2>3, <3>1, PostgresUnits
    <3>3. 1 \in 1..Len(unit)
      <4>1. Len(unit) \in Nat
        BY <3>2
      <4> QED BY <3>2, <4>1
    <3>4. Works(a, db) /\ InEffect(a, e)
      BY <2>1, <3>1, <3>2, <3>3 DEF Added
    <3> QED BY <1>6, <1>7, <2>2, <3>4
  <2> QED BY <1>2, <2>2, <2>3, OptionsGrow
<1> QED BY <1>8, <1>9 DEF Databases

\* The invariant of a boot.
Rigid == RowInv /\ LedgerInv

\* The two suffixes.
LEMMA SuffixIs == ASSUME NEW p \in Programs PROVE Suffix(p) \in {"sql", "js"}
  BY DEF Suffix

\* A program stops, or comes to the start of its first migration.
LEMMA HaltInStep ==
    ASSUME Rigid, NEW p \in Programs, NEW a, a # "migrating", prog' = [prog EXCEPT ![p] = Off(a)],
           UNCHANGED <<db, ledger, overlapped, moves>>
    PROVE  LedgerInv'
<1>1. prog' = [prog EXCEPT ![p] = Proc(a, {}, 1)] /\ Placed
  BY OffMove DEF Rigid, RowInv
<1>2. PICK r : r = Proc(a, {}, 1)
  OBVIOUS
<1>3. r.at = a
  BY <1>2, ProcParts
<1>4. IsProc(r)
  <2>1. PICK u \in Nat : u = 1 /\ u >= 1
    OBVIOUS
  <2>2. {} \in SUBSET (1..25)
    OBVIOUS
  <2>3. PICK T : T = {}
    OBVIOUS
  <2>4. T \in SUBSET (1..25)
    BY <2>2, <2>3
  <2> QED BY <1>2, <2>1, <2>3, <2>4, ProcIs
<1>5. prog'[p] = r /\ \A q \in Programs \ {p} : prog'[q] = prog[q]
  BY <1>1, <1>2, <1>4, Moved
<1>6. ASSUME NEW q \in Programs
      PROVE  /\ prog'[q].at = "migrating" => prog'[q] = prog[q] /\ prog[q].at = "migrating"
             /\ PastOptions(q)' => PastOptions(q)
  <2>1. CASE q = p
    BY <1>3, <1>5, <2>1 DEF PastOptions
  <2>2. CASE q # p
    BY <1>5, <2>2 DEF PastOptions
  <2> QED BY <2>1, <2>2
<1>7. \A q \in Programs : Pending(q)' = Pending(q)
  BY DEF Pending, Suffix
<1>8. \A m : Recorded(m)' = Recorded(m)
  BY DEF Recorded
<1>9. InStep => InStep'
  BY <1>6, <1>7, <1>8 DEF InStep
<1> QED BY <1>6, <1>8, <1>9 DEF Rigid, LedgerInv

\* A program starts with what is not recorded.
LEMMA StartInStep ==
    ASSUME Rigid, NEW p \in Programs, Start(p) PROVE LedgerInv'
<1>1. prog' = [prog EXCEPT ![p] = Proc("migrating", Pending(p), 1)] /\ Pending(p) \in SUBSET (1..25) /\ Placed
  BY StartMove DEF Rigid, RowInv
<1>2. PICK T, r : T = Pending(p) /\ r = Proc("migrating", T, 1)
  OBVIOUS
<1>3. r.at = "migrating" /\ r.todo = T /\ r.unit = 1
  BY <1>2, ProcParts
<1>4. IsProc(r)
  <2>1. PICK u \in Nat : u = 1 /\ u >= 1
    OBVIOUS
  <2>2. T \in SUBSET (1..25)
    BY <1>1, <1>2
  <2> QED BY <1>2, <2>1, <2>2, ProcIs
<1>5. prog'[p] = r /\ \A q \in Programs \ {p} : prog'[q] = prog[q]
  BY <1>1, <1>2, <1>4, Moved
<1>6. UNCHANGED <<db, ledger, moves>>
  BY DEF Start
<1>7. \A q \in Programs : PastOptions(q)' => PastOptions(q)
  <2> TAKE q \in Programs
  <2>1. CASE q = p
    BY <1>3, <1>5, <2>1 DEF PastOptions
  <2>2. CASE q # p
    BY <1>5, <2>2 DEF PastOptions
  <2> QED BY <2>1, <2>2
<1>8. (\A q \in Programs : Pending(q)' = Pending(q)) /\ \A m : Recorded(m)' = Recorded(m)
  BY <1>6 DEF Pending, Suffix, Recorded
<1>9. ASSUME ~overlapped' PROVE InStep'
  <2>1. ~overlapped /\ \A q \in Programs \ {p} : prog[q].at # "migrating"
    BY <1>9 DEF Start
  <2>2. InStep
    BY <2>1 DEF Rigid, LedgerInv
  <2>3. \A q \in Programs : prog'[q].at = "migrating" => q = p
    BY <1>5, <2>1
  <2>4. \A q \in Programs : prog'[q].at = "migrating" => prog'[q].todo = Pending(q)'
    BY <1>2, <1>3, <1>5, <1>8, <2>3
  <2> QED BY <1>6, <1>7, <1>8, <2>2, <2>3, <2>4 DEF InStep
<1> QED BY <1>6, <1>7, <1>8, <1>9 DEF Rigid, LedgerInv

\* A unit of a migration commits.
LEMMA UnitInStep ==
    ASSUME Rigid, NEW p \in Programs, Up(p), db' \in Outcomes(Left(p)[prog[p].unit], db),
           prog' = [prog EXCEPT ![p].unit = @ + 1]
    PROVE  LedgerInv'
<1>1. Placed /\ backend \in Databases /\ Schema(db) /\ Migrating(p) /\ prog[p].unit <= Len(Left(p))
  BY DEF Rigid, RowInv, Up
<1>2. UNCHANGED <<ledger, overlapped, moves>>
  BY DEF Up
<1>16. PICK n \in Nat, todo \in SUBSET (1..25) : n = prog[p].unit /\ todo = prog[p].todo /\ n >= 1
  BY <1>1, PlaceIs
<1>3. PICK a : n = prog[p].unit /\ todo = prog[p].todo /\ a = prog[p].at /\ n >= 1
  BY <1>16
<1>4. PICK r : r = Proc(a, todo, n + 1)
  OBVIOUS
<1>5. IsProc(r)
  <2>1. n + 1 \in Nat /\ n + 1 >= 1
    OBVIOUS
  <2> QED BY <1>4, <2>1, ProcIs
<1>6. prog' = [prog EXCEPT ![p] = r]
  BY <1>1, <1>3, <1>4, NextUnitMove
<1>7. prog'[p] = r /\ \A q \in Programs \ {p} : prog'[q] = prog[q]
  BY <1>1, <1>5, <1>6, Moved
<1>8. r.at = a /\ r.todo = todo /\ r.unit = n + 1
  BY <1>4, ProcParts
<1>9. PICK e : e = db' /\ e \in Outcomes(Left(p)[prog[p].unit], db)
  OBVIOUS
<1>10. /\ HasOptions(db) => HasOptions(e)
       /\ Now(p) = 2 /\ prog[p].unit = 1 => ~HasOptions(db) /\ HasOptions(e)
  BY <1>1, <1>9, UnitKeeps
<1>11. ASSUME PastOptions(p)' PROVE PastOptions(p) \/ (Now(p) = 2 /\ prog[p].unit = 1)
  <2>1. a = "migrating" /\ todo # {} /\ Min(todo) = 2
    BY <1>7, <1>8, <1>11 DEF PastOptions
  <2> QED BY <1>3, <2>1 DEF PastOptions, Now
<1>12. \A q \in Programs \ {p} : PastOptions(q)' => PastOptions(q)
  BY <1>7 DEF PastOptions
<1>13. \A q \in Programs : PastOptions(q)' => HasOptions(e)
  BY <1>10, <1>11, <1>12 DEF Rigid, LedgerInv
<1>14. (\A q \in Programs : Pending(q)' = Pending(q)) /\ \A m : Recorded(m)' = Recorded(m)
  BY <1>2 DEF Pending, Suffix, Recorded
<1>15. ASSUME ~overlapped PROVE InStep'
  <2>1. InStep
    BY <1>15 DEF Rigid, LedgerInv
  <2>2. \A q \in Programs : prog'[q].at = prog[q].at /\ prog'[q].todo = prog[q].todo
    BY <1>3, <1>7, <1>8
  <2>3. \A q \in Programs : PastOptions(q)' => ~Recorded(2)
    BY <1>10, <1>11, <1>12, <2>1 DEF Rigid, LedgerInv, InStep
  <2> QED BY <1>2, <1>14, <2>1, <2>2, <2>3 DEF InStep
<1> QED BY <1>2, <1>9, <1>10, <1>13, <1>14, <1>15 DEF Rigid, LedgerInv

\* A migration is recorded: the least of those the program had left.
LEMMA RecordInStep ==
    ASSUME Rigid, NEW p \in Programs, LogMigration(p), <<Now(p), Suffix(p)>> \notin ledger PROVE LedgerInv'
<1>1. Placed /\ backend \in Databases /\ Migrating(p) /\ prog[p].unit > Len(Left(p))
  BY DEF Rigid, RowInv, LogMigration
<1>2. PICK m, x : m = Now(p) /\ x = Suffix(p)
  OBVIOUS
<1>3. m \in prog[p].todo /\ m \in 1..25 /\ \A k \in prog[p].todo : m <= k
  BY <1>1, <1>2, NowIs DEF Migrating
<1>4. x \in {"sql", "js"} /\ <<m, x>> \notin ledger
  BY <1>2, SuffixIs
<1>5. ledger' = ledger \union {<<m, x>>} /\ prog' = [prog EXCEPT ![p].todo = @ \ {m}, ![p].unit = 1]
      /\ UNCHANGED <<db, overlapped, moves>>
  BY <1>2 DEF LogMigration
<1>6. PICK T, r : T = prog[p].todo \ {m} /\ r = Proc(prog[p].at, T, 1)
  OBVIOUS
<1>7. prog' = [prog EXCEPT ![p] = r]
  BY <1>1, <1>5, <1>6, NextMigrationMove
<1>8. IsProc(r)
  <2>1. PICK u \in Nat : u = 1 /\ u >= 1
    OBVIOUS
  <2>2. T \in SUBSET (1..25)
    BY <1>1, <1>6, PlaceIs
  <2> QED BY <1>6, <2>1, <2>2, ProcIs
<1>9. prog'[p] = r /\ \A q \in Programs \ {p} : prog'[q] = prog[q]
  BY <1>1, <1>7, <1>8, Moved
<1>10. r.at = prog[p].at /\ r.todo = T /\ r.unit = 1
  BY <1>6, ProcParts
<1>11. \A q \in Programs : PastOptions(q)' => q # p /\ PastOptions(q)
  BY <1>9, <1>10 DEF PastOptions
<1>12. m = 2 => PastOptions(p)
  <2>1. ASSUME m = 2 PROVE prog[p].unit > 1
    <3>1. PICK S : S = Scripts[backend][2]
      OBVIOUS
    <3>2. Len(S) > 0 /\ Len(S) \in Nat
      <4>1. Len(S) > 0
        BY <1>1, <3>1, OptionsFirst
      <4>2. 2 \in 1..25
        OBVIOUS
      <4>3. Len(S) \in Nat
        BY <1>1, <3>1, <4>2, SqliteUnits, PostgresUnits DEF Databases
      <4> QED BY <4>1, <4>3
    <3>3. Left(p) = S
      BY <1>2, <2>1, <3>1 DEF Left
    <3>4. prog[p].unit \in Nat
      BY <1>1, PlaceIs
    <3> QED BY <1>1, <3>2, <3>3, <3>4
  <2> QED BY <1>1, <1>2, <2>1 DEF PastOptions, Migrating, Now
<1>13. Recorded(2)' => Recorded(2) \/ m = 2
  BY <1>4, <1>5 DEF Recorded
<1>14. Recorded(2)' => HasOptions(db)
  BY <1>12, <1>13 DEF Rigid, LedgerInv
<1>15. ASSUME ~overlapped PROVE InStep'
  <2>1. InStep
    BY <1>15 DEF Rigid, LedgerInv
  <2>2. \A q \in Programs : prog'[q].at = prog[q].at
    BY <1>9, <1>10
  <2>3. \A q \in Programs : prog[q].at = "migrating" => q = p
    BY <1>1, <2>1 DEF InStep, Migrating
  <2>4. prog[p].todo = Pending(p)
    BY <1>1, <2>1 DEF InStep, Migrating
  <2>5. T = Pending(p)'
    BY <1>2, <1>5, <1>6, <2>4 DEF Pending, Suffix
  <2>6. \A q \in Programs : prog'[q].at = "migrating" => prog'[q].todo = Pending(q)'
    BY <1>9, <1>10, <2>2, <2>3, <2>5
  <2>7. ASSUME NEW y \in {"sql", "js"}, NEW k \in 1..25, <<k, y>> \in ledger', NEW j \in 1..k PROVE <<j, y>> \in ledger'
    <3>1. CASE <<k, y>> \in ledger
      BY <1>5, <2>1, <2>7, <3>1 DEF InStep
    <3>2. CASE k = m /\ y = x
      <4>1. CASE j = m
        BY <1>5, <3>2, <4>1
      <4>2. CASE j # m
        <5>1. j \in 1..25 /\ ~(m <= j)
          BY <1>3, <3>2, <4>2
        <5>2. j \notin Pending(p)
          BY <1>3, <2>4, <5>1
        <5> QED BY <1>2, <1>5, <3>2, <5>1, <5>2 DEF Pending
      <4> QED BY <4>1, <4>2
    <3> QED BY <1>5, <2>7, <3>1, <3>2
  <2>8. m = 2 => ~Recorded(2)
    BY <1>12, <2>1 DEF InStep
  <2>9. ~(<<2, "sql">> \in ledger' /\ <<2, "js">> \in ledger')
    BY <1>4, <1>5, <2>1, <2>8 DEF InStep, Recorded
  <2>10. \A q \in Programs : ~PastOptions(q)'
    BY <1>11, <2>3 DEF PastOptions
  <2> QED BY <2>2, <2>3, <2>6, <2>7, <2>9, <2>10 DEF InStep
<1>16. \A q \in Programs : PastOptions(q)' => HasOptions(db)
  BY <1>11 DEF Rigid, LedgerInv
<1>17. ledger' \subseteq (1..25) \X {"sql", "js"}
  BY <1>3, <1>4, <1>5 DEF Rigid, LedgerInv
<1> QED BY <1>5, <1>14, <1>15, <1>16, <1>17 DEF Rigid, LedgerInv

\* A deployment has recorded its migrations as a compiled server does.
LEMMA InitLedger == BootInit => LedgerInv
<1> SUFFICES ASSUME BootInit PROVE LedgerInv
  OBVIOUS
<1>1. PICK b \in Databases, k \in 0..25 : b = backend /\ k = begun
  BY InitTables
<1>2. ledger = (1..k) \X {"js"} /\ moves = 0
  BY <1>1 DEF BootInit
<1>3. \A m, x : <<m, x>> \in ledger <=> m \in 1..k /\ x = "js"
  BY <1>2
<1>4. \A p \in Programs : prog[p].at # "migrating"
  BY DEF BootInit, Off
<1>5. \A p \in Programs : ~PastOptions(p)
  BY <1>4 DEF PastOptions
<1>6. ASSUME Recorded(2) PROVE HasOptions(db)
  <2>1. 2 \in 1..k
    BY <1>3, <1>6 DEF Recorded
  <2>2. PICK a : a = Stmt("add", "logs", "ollama_options")
    OBVIOUS
  <2>3. a \in Statements[b][2]
    BY <2>2, OptionsFirst
  <2>4. \A m \in 1..k : \A s \in Statements[b][m] : InEffect(s, db)
    BY <1>1, InitTables
  <2>5. InEffect(a, db) /\ Schema(db)
    BY <2>1, <2>3, <2>4, InitTables
  <2>6. a.does = "add" /\ a.table = "logs" /\ a.arg = "ollama_options"
    BY <2>2, StmtParts
  <2> QED BY <2>5, <2>6, NotAside DEF InEffect, HasOptions
<1>7. InStep
  <2>1. ASSUME NEW x \in {"sql", "js"}, NEW m \in 1..25, <<m, x>> \in ledger, NEW j \in 1..m PROVE <<j, x>> \in ledger
    BY <1>3, <2>1
  <2> QED BY <1>3, <1>4, <1>5, <2>1 DEF InStep
<1>8. ledger \subseteq (1..25) \X {"sql", "js"}
  BY <1>2
<1>9. moves \in Nat
  BY <1>2
<1> QED BY <1>5, <1>6, <1>7, <1>8, <1>9 DEF LedgerInv

\* What a serving server does counts as a move and keeps the ledger.
LEMMA ServingMoves ==
    ASSUME LedgerInv, NEW p, WriteSpan(p) \/ \E v \in Versions : Promote(p, v) \/ Relabel(p, v)
    PROVE  prog[p].at = "serving" /\ moves' \in Nat /\ moves' # moves
<1>1. moves' = moves + 1 /\ Serves(p)
  BY DEF WriteSpan, Promote, Relabel
<1>2. PICK n \in Nat : n = moves
  BY DEF LedgerInv
<1>3. n + 1 \in Nat /\ n + 1 # n
  OBVIOUS
<1> QED BY <1>1, <1>2, <1>3 DEF Serves

\* Every step keeps the ledger in step.
LEMMA StepLedger == Rigid /\ [BootNext]_bootVars => LedgerInv'
<1> SUFFICES ASSUME Rigid, [BootNext]_bootVars PROVE LedgerInv'
  OBVIOUS
<1>0. Schema(db) /\ LedgerInv
  BY DEF Rigid, RowInv
<1>1. ASSUME NEW p \in Programs, Start(p) PROVE LedgerInv'
  BY <1>1, StartInStep
<1>2. ASSUME NEW p \in Programs, NEW a, a # "migrating", prog' = [prog EXCEPT ![p] = Off(a)],
             UNCHANGED <<db, ledger, overlapped, moves>>
      PROVE  LedgerInv'
  BY <1>2, HaltInStep
<1>3. ASSUME NEW p \in Programs, Up(p) PROVE LedgerInv'
  <2>1. CASE prog' = [prog EXCEPT ![p] = Off("failed")] /\ UNCHANGED db
    BY <1>2, <1>3, <2>1 DEF Up
  <2>2. CASE db' \in Outcomes(Left(p)[prog[p].unit], db) /\ prog' = [prog EXCEPT ![p].unit = @ + 1]
    BY <1>3, <2>2, UnitInStep
  <2> QED BY <1>3, <2>1, <2>2 DEF Up
<1>4. ASSUME NEW p \in Programs, LogMigration(p) PROVE LedgerInv'
  <2>1. CASE <<Now(p), Suffix(p)>> \in ledger
    BY <1>2, <1>4, <2>1 DEF LogMigration
  <2>2. CASE <<Now(p), Suffix(p)>> \notin ledger
    BY <1>4, <2>2, RecordInStep
  <2> QED BY <2>1, <2>2
<1>5. ASSUME NEW p \in Programs, Listen(p) \/ Exit(p) \/ Crash(p) PROVE LedgerInv'
  BY <1>2, <1>5 DEF Listen, Exit, Crash
<1>6. ASSUME NEW p, WriteSpan(p) \/ \E v \in Versions : Promote(p, v) \/ Relabel(p, v) PROVE LedgerInv'
  <2>1. Grows(db, db') /\ UNCHANGED <<ledger, prog, overlapped>> /\ moves' \in Nat
    BY <1>0, <1>6, ServingGrows, ServingMoves
  <2>2. HasOptions(db) => HasOptions(db')
    BY <2>1, OptionsGrow
  <2>3. /\ \A q \in Programs : PastOptions(q)' <=> PastOptions(q)
        /\ \A q \in Programs : Pending(q)' = Pending(q)
        /\ \A m : Recorded(m)' <=> Recorded(m)
    BY <2>1 DEF PastOptions, Pending, Suffix, Recorded
  <2>4. InStep => InStep'
    BY <2>1, <2>3 DEF InStep
  <2> QED BY <1>0, <2>1, <2>2, <2>3, <2>4 DEF LedgerInv
<1>7. CASE UNCHANGED bootVars
  <2>1. UNCHANGED <<ledger, prog, overlapped, db, moves>>
    BY <1>7 DEF bootVars
  <2>3. /\ \A q \in Programs : PastOptions(q)' <=> PastOptions(q)
        /\ \A q \in Programs : Pending(q)' = Pending(q)
        /\ \A m : Recorded(m)' <=> Recorded(m)
    BY <2>1 DEF PastOptions, Pending, Suffix, Recorded
  <2>4. InStep => InStep'
    BY <2>1, <2>3 DEF InStep
  <2> QED BY <1>0, <2>1, <2>3, <2>4 DEF LedgerInv
<1> QED BY <1>1, <1>3, <1>4, <1>5, <1>6, <1>7 DEF BootNext, Rests

\* Both invariants hold.
LEMMA RigidHolds == BootSpec => []Rigid
<1>1. BootInit => Rigid
  BY InitRows, InitLedger DEF Rigid
<1>2. Rigid /\ [BootNext]_bootVars => Rigid'
  BY StepRows, StepLedger DEF Rigid
<1> QED BY <1>1, <1>2, PTL DEF BootSpec

\* The step that the property is about.
Spared ==
    db'.pointer # db.pointer =>
        \/ \E p \in Servers : prog[p].at = "serving" /\ moves' # moves
        \/ overlapped \/ <<21, "js">> \notin ledger

\* A unit that sets the pointers is the backfill, which a build that has not recorded it
\* runs: the other build has, and both would have recorded migration 2.
LEMMA UpSpares == ASSUME Rigid, NEW p \in Programs, Up(p) PROVE Spared
<1> SUFFICES ASSUME db'.pointer # db.pointer, ~overlapped, <<21, "js">> \in ledger PROVE FALSE
  BY DEF Spared
<1>1. Placed /\ backend \in Databases /\ Schema(db) /\ Migrating(p) /\ prog[p].unit <= Len(Left(p))
  BY DEF Rigid, RowInv, Up
<1>2. db' \in Outcomes(Left(p)[prog[p].unit], db)
  BY DEF Up
<1>3. Now(p) = 21
  BY <1>1, <1>2, UnitKeeps
<1>4. InStep
  BY DEF Rigid, LedgerInv
<1>5. prog[p].todo = Pending(p) /\ 21 \in prog[p].todo /\ \A k \in prog[p].todo : 21 <= k
  BY <1>1, <1>3, <1>4, NowIs DEF Migrating, InStep
<1>6. PICK x \in {"sql", "js"} : x = Suffix(p)
  BY SuffixIs
<1>7. <<21, x>> \notin ledger /\ <<2, x>> \in ledger
  <2>1. 2 \in 1..25 /\ ~(21 <= 2)
    OBVIOUS
  <2> QED BY <1>5, <1>6, <2>1 DEF Pending
<1>8. <<2, "js">> \in ledger
  <2>1. 21 \in 1..25 /\ 2 \in 1..21
    OBVIOUS
  <2> QED BY <1>4, <2>1 DEF InStep
<1>9. x = "sql"
  BY <1>6, <1>7
<1> QED BY <1>4, <1>7, <1>8, <1>9 DEF InStep

\* A promoted version stays promoted through later boots: the backfill of migration 21 runs
\* again only for a build that records its migrations under another suffix, and such a
\* build
\* cannot pass migration 2, whose column is there.
THEOREM PromotionsAreSpared == BootSpec => BackfillSparesPromotions
<1>1. ASSUME Rigid, [BootNext]_bootVars PROVE [Spared]_bootVars
  <2>1. ASSUME NEW p \in Programs, Up(p) PROVE Spared
    BY <1>1, <2>1, UpSpares
  <2>2. ASSUME UNCHANGED db PROVE Spared
    BY <2>2 DEF Spared
  <2>3. ASSUME NEW p \in Programs, Start(p) \/ LogMigration(p) \/ Listen(p) \/ Exit(p) \/ Crash(p) PROVE Spared
    BY <2>2, <2>3 DEF Start, LogMigration, Listen, Exit, Crash
  <2>4. ASSUME NEW p \in Servers, WriteSpan(p) \/ \E v \in Versions : Promote(p, v) \/ Relabel(p, v) PROVE Spared
    BY <1>1, <2>4, ServingMoves DEF Rigid, Spared
  <2>5. CASE UNCHANGED bootVars
    BY <2>5
  <2> QED BY <1>1, <2>1, <2>3, <2>4, <2>5 DEF BootNext, Rests
<1> QED BY <1>1, RigidHolds, PTL DEF BootSpec, BackfillSparesPromotions, Spared

-----------------------------------------------------------------------------
(* Boot.  What is recorded is in effect.                                   *)

\* The columns that the statements in F add to table t are among cs.
Covers(F, t, cs) == \A f \in F : f.table = t /\ f.does \in Adds => f.arg \in cs

\* What the next part s of a rebuild in migration m relies on, if the statements in F are to
\* stay in effect: their columns are in the old table before the copy, and the new table has
\* the constraints of the migration and, after the copy, the columns.
Ready(F, d, m, s) ==
    /\ s.does \in {"create", "copy"} => Covers(F, s.table, d.aside[s.table].cols)
    /\ s.does \in {"copy", "drop"} => s.table \in DOMAIN d.table /\ m <= d.table[s.table].shape
    /\ s.does = "drop" => Covers(F, s.table, d.table[s.table].cols)

\* The next part relies on no more when fewer statements are in effect, and on no less in a
\* database that has grown.
LEMMA ReadyFewer ==
    ASSUME NEW F, NEW G, NEW s, NEW d, NEW m, NEW n, Ready(F, d, m, n), G \subseteq F \union {s}, s.does \notin Adds
    PROVE  Ready(G, d, m, n)
<1>1. ASSUME NEW t, NEW cs, Covers(F, t, cs) PROVE Covers(G, t, cs)
  BY <1>1 DEF Covers
<1> QED BY <1>1 DEF Ready

LEMMA ReadyGrows ==
    ASSUME NEW F, NEW G, G \subseteq F, NEW d, NEW e, Schema(d), Schema(e), Grows(d, e), NEW m \in Nat, NEW s, Ready(F, d, m, s)
    PROVE  Ready(G, e, m, s)
<1>1. PICK t : t = s.table
  OBVIOUS
<1>2. \A cs, cz : Covers(F, t, cs) /\ cs \subseteq cz => Covers(G, t, cz)
  BY DEF Covers
<1>3. s.does \in {"create", "copy"} => Covers(G, t, e.aside[t].cols)
  BY <1>1, <1>2 DEF Ready, Grows
<1>4. ASSUME s.does \in {"copy", "drop"} PROVE t \in DOMAIN e.table /\ m <= e.table[t].shape
  <2>1. t \in DOMAIN d.table /\ m <= d.table[t].shape
    BY <1>1, <1>4 DEF Ready
  <2>2. t \in DOMAIN e.table /\ d.table[t].shape <= e.table[t].shape
    BY <2>1 DEF Grows
  <2>3. d.table[t].shape \in Nat /\ e.table[t].shape \in Nat
    BY <2>1, <2>2, ShapeIsNat
  <2> QED BY <2>1, <2>2, <2>3
<1>5. ASSUME s.does = "drop" PROVE Covers(G, t, e.table[t].cols)
  <2>1. t \in DOMAIN d.table /\ Covers(F, t, d.table[t].cols)
    BY <1>1, <1>5 DEF Ready
  <2>2. d.table[t].cols \subseteq e.table[t].cols
    BY <2>1 DEF Grows
  <2> QED BY <1>2, <2>1, <2>2
<1> QED BY <1>1, <1>3, <1>4, <1>5 DEF Ready

\* What the next part relies on once s is done.
Readied(F, e, m, s) ==
    \A n : n.does \in Parts /\ s.does = Before(n.does) /\ n.table = s.table => Ready(F, e, m, n) /\ s.does \notin Adds

\* What a statement on SQLite is given, when nobody else migrates.
Given(F, d, m, s) ==
    /\ \A f \in F : InEffect(f, d) /\ \E k \in Nat : f \in Legal("sqlite", k) /\ (s.does = "drop" => k <= m)
    /\ s.does \in Parts => s.table \in DOMAIN d.aside /\ Ready(F, d, m, s)

\* Each kind of statement leaves what is in effect in effect, comes into effect itself, and
\* prepares the next part of its rebuild.
LEMMA GentleApplied ==
    ASSUME NEW m \in 1..25, NEW s \in Legal("sqlite", m), s.does \in Gentle, NEW d, Schema(d), Works(s, d), NEW e, e = Effect(s, d),
           NEW F, Given(F, d, m, s)
    PROVE  (\A f \in F : InEffect(f, e)) /\ InEffect(s, e) /\ Readied(F, e, m, s)
<1>1. Schema(e) /\ Grows(d, e) /\ InEffect(s, e)
  BY GentleStep
<1>2. ASSUME NEW f \in F PROVE InEffect(f, e)
  <2>1. PICK k \in Nat : f \in Legal("sqlite", k)
    BY DEF Given
  <2>2. InEffect(f, d)
    BY DEF Given
  <2> QED BY <1>1, <2>1, <2>2, EffectStays
<1>3. Readied(F, e, m, s)
  BY DEF Readied, Before, Gentle, Parts
<1> QED BY <1>1, <1>2, <1>3

LEMMA RenameApplied ==
    ASSUME NEW m \in 1..25, NEW s \in Legal("sqlite", m), s.does = "rename", NEW d, Schema(d), Works(s, d), NEW e, e = Effect(s, d),
           NEW F, Given(F, d, m, s)
    PROVE  (\A f \in F : InEffect(f, e)) /\ InEffect(s, e) /\ Readied(F, e, m, s)
<1>0. s.table \in Rebuilt
  BY LegalParts DEF Fits, Gentle
<1>1. PICK t : t = s.table
  OBVIOUS
<1>2. /\ t \in DOMAIN d.table /\ t \notin DOMAIN d.aside
      /\ DOMAIN e.table = DOMAIN d.table \ {t} /\ DOMAIN e.aside = DOMAIN d.aside \union {t}
      /\ e.aside[t] = d.table[t]
      /\ \A x \in DOMAIN d.table \ {t} : e.table[x] = d.table[x]
  BY <1>0, <1>1, RenameStep
<1>3. \A f \in F : InEffect(f, d)
  BY DEF Given
<1>4. ASSUME NEW f \in F PROVE InEffect(f, e)
  <2>1. CASE f.table \in DOMAIN e.aside
    BY <2>1 DEF InEffect
  <2>2. CASE f.table \notin DOMAIN e.aside
    BY <1>2, <1>3, <2>2 DEF InEffect
  <2> QED BY <2>1, <2>2
<1>5. InEffect(s, e)
  BY <1>1, <1>2 DEF InEffect
<1>6. Covers(F, t, e.aside[t].cols)
  BY <1>2, <1>3 DEF Covers, InEffect, Adds
<1>7. Readied(F, e, m, s)
  <2> SUFFICES ASSUME NEW n, n.does \in Parts, s.does = Before(n.does), n.table = s.table
               PROVE  Ready(F, e, m, n) /\ s.does \notin Adds
    BY DEF Readied
  <2>1. n.does = "create"
    BY DEF Before
  <2> QED BY <1>1, <1>6, <2>1 DEF Ready, Adds
<1> QED BY <1>4, <1>5, <1>7

LEMMA CreateApplied ==
    ASSUME NEW m \in 1..25, NEW s \in Legal("sqlite", m), s.does = "create", NEW d, Schema(d), Works(s, d), NEW e, e = Effect(s, d),
           NEW F, Given(F, d, m, s)
    PROVE  (\A f \in F : InEffect(f, e)) /\ InEffect(s, e) /\ Readied(F, e, m, s)
<1>0. m \in Nat
  BY MigrationIsNat
<1>1. Schema(e) /\ Grows(d, e) /\ s.table \in DOMAIN e.table /\ e.table[s.table].shape = m
  BY <1>0, CreateStep
<1>2. ASSUME NEW f \in F PROVE InEffect(f, e)
  <2>1. PICK k \in Nat : f \in Legal("sqlite", k)
    BY DEF Given
  <2>2. InEffect(f, d)
    BY DEF Given
  <2> QED BY <1>1, <2>1, <2>2, EffectStays
<1>3. s.table \in DOMAIN d.aside /\ Ready(F, d, m, s)
  BY DEF Given, Parts
<1>4. InEffect(s, e)
  BY <1>1, <1>3 DEF InEffect, Grows
<1>5. Readied(F, e, m, s)
  <2> SUFFICES ASSUME NEW n, n.does \in Parts, s.does = Before(n.does), n.table = s.table
               PROVE  Ready(F, e, m, n) /\ s.does \notin Adds
    BY DEF Readied
  <2>1. n.does = "copy"
    BY DEF Before
  <2>2. Covers(F, s.table, e.aside[s.table].cols)
    BY <1>1, <1>3 DEF Ready, Grows
  <2>3. m <= e.table[s.table].shape
    BY <1>0, <1>1
  <2> QED BY <1>1, <2>1, <2>2, <2>3 DEF Ready, Adds
<1> QED BY <1>2, <1>4, <1>5

LEMMA CopyApplied ==
    ASSUME NEW m \in 1..25, NEW s \in Legal("sqlite", m), s.does = "copy", NEW d, Schema(d), Works(s, d), NEW e, e = Effect(s, d),
           NEW F, Given(F, d, m, s)
    PROVE  (\A f \in F : InEffect(f, e)) /\ InEffect(s, e) /\ Readied(F, e, m, s)
<1>1. /\ Schema(e) /\ Grows(d, e) /\ s.table \in DOMAIN e.table
      /\ e.table[s.table].shape = d.table[s.table].shape /\ e.table[s.table].cols = d.aside[s.table].cols
  BY CopyStep
<1>2. ASSUME NEW f \in F PROVE InEffect(f, e)
  <2>1. PICK k \in Nat : f \in Legal("sqlite", k)
    BY DEF Given
  <2>2. InEffect(f, d)
    BY DEF Given
  <2> QED BY <1>1, <2>1, <2>2, EffectStays
<1>3. s.table \in DOMAIN d.aside /\ Ready(F, d, m, s)
  BY DEF Given, Parts
<1>4. InEffect(s, e)
  BY <1>1, <1>3 DEF InEffect, Grows
<1>5. Readied(F, e, m, s)
  <2> SUFFICES ASSUME NEW n, n.does \in Parts, s.does = Before(n.does), n.table = s.table
               PROVE  Ready(F, e, m, n) /\ s.does \notin Adds
    BY DEF Readied
  <2>1. n.does = "drop"
    BY DEF Before, Parts
  <2>2. Covers(F, s.table, e.table[s.table].cols) /\ m <= e.table[s.table].shape
    BY <1>1, <1>3 DEF Ready
  <2> QED BY <1>1, <2>1, <2>2 DEF Ready, Adds
<1> QED BY <1>2, <1>4, <1>5

LEMMA DropApplied ==
    ASSUME NEW m \in 1..25, NEW s \in Legal("sqlite", m), s.does = "drop", NEW d, Schema(d), Works(s, d), NEW e, e = Effect(s, d),
           NEW F, Given(F, d, m, s)
    PROVE  (\A f \in F : InEffect(f, e)) /\ InEffect(s, e) /\ Readied(F, e, m, s)
<1>1. PICK t : t = s.table
  OBVIOUS
<1>2. e.table = d.table /\ DOMAIN e.aside = DOMAIN d.aside \ {t}
  BY <1>1, DropStep
<1>3. t \in DOMAIN d.table /\ m <= d.table[t].shape /\ Covers(F, t, d.table[t].cols)
  BY <1>1 DEF Given, Parts, Ready
<1>4. d.table[t].shape \in Nat /\ m \in Nat
  BY <1>3, ShapeIsNat
<1>5. ASSUME NEW f \in F PROVE InEffect(f, e)
  <2>1. InEffect(f, d)
    BY DEF Given
  <2>2. CASE f.table # t
    BY <1>2, <2>1, <2>2 DEF InEffect
  <2>3. CASE f.table = t
    <3>1. PICK k \in Nat : f \in Legal("sqlite", k) /\ k <= m
      BY DEF Given
    <3>2. f.does \in Shapes => f.arg = k
      <4>1. Fits("sqlite", k, f.does, f.table, f.arg)
        BY <3>1, LegalParts, Zenon
      <4> QED BY <4>1 DEF Fits, Shapes
    <3>3. f.does \in Shapes => d.table[t].shape >= f.arg
      BY <1>3, <1>4, <3>1, <3>2
    <3>4. f.does \in Adds => f.arg \in d.table[t].cols
      BY <1>3, <2>3 DEF Covers
    <3> QED BY <1>2, <1>3, <2>3, <3>3, <3>4 DEF InEffect, Adds, Shapes
  <2> QED BY <2>2, <2>3
<1>6. InEffect(s, e)
  BY <1>1, <1>2, <1>3 DEF InEffect
<1>7. Readied(F, e, m, s)
  BY DEF Readied, Before, Parts
<1> QED BY <1>5, <1>6, <1>7

\* Whatever the statement does.
LEMMA StatementApplied ==
    ASSUME NEW m \in 1..25, NEW s \in Legal("sqlite", m), NEW d, Schema(d), Works(s, d), NEW e, e = Effect(s, d),
           NEW F, Given(F, d, m, s)
    PROVE  (\A f \in F : InEffect(f, e)) /\ InEffect(s, e) /\ Readied(F, e, m, s)
<1>1. s.does \in Gentle \/ s.does = "rename" \/ s.does = "create" \/ s.does = "copy" \/ s.does = "drop"
  BY LegalParts DEF Doings, Parts
<1> QED BY <1>1, GentleApplied, RenameApplied, CreateApplied, CopyApplied, DropApplied

\* A program is past unit i of migration m; so is the database if that is recorded.
Passed(r, m, i) == r.at = "migrating" /\ r.todo # {} /\ Min(r.todo) = m /\ i < r.unit
OwedAt(L, P, m, i) == (\E x \in {"sql", "js"} : <<m, x>> \in L) \/ \E p \in Programs : Passed(P[p], m, i)

\* The statements whose effect is owed.
InUnit(b, m, i, s) == \E j \in 1..Len(Scripts[b][m][i]) : s = Scripts[b][m][i][j]
Every(b) == UNION {Legal(b, m) : m \in 1..25}
DueOf(b, L, P) ==
    {s \in Every(b) : \E m \in 1..25 : \E i \in 1..Len(Scripts[b][m]) : OwedAt(L, P, m, i) /\ InUnit(b, m, i, s)}

\* The program's next statement, on SQLite, is this part of a rebuild.
AtPart(r, s) ==
    /\ r.at = "migrating" /\ r.todo # {} /\ r.unit <= Len(Scripts["sqlite"][Min(r.todo)])
    /\ s = Scripts["sqlite"][Min(r.todo)][r.unit][1] /\ s.does \in Parts

\* What is owed is in effect, and a program within a rebuild finds what its next part
\* relies on.
AppliedAt(b, ov, d, F, P) ==
    /\ b = "postgres" \/ ~ov => \A s \in F : InEffect(s, d)
    /\ b = "sqlite" /\ ~ov => \A p \in Programs : \A s : AtPart(P[p], s) => Ready(F, d, Min(P[p].todo), s)

\* This holds of the boot: of any two programs on PostgreSQL, of one after the other on
\* SQLite.
AppliedInv == AppliedAt(backend, overlapped, db, DueOf(backend, ledger, prog), prog)

\* The statements of a unit are statements of its migration.
LEMMA UnitLegal ==
    ASSUME NEW b \in Databases, NEW m \in 1..25, NEW i \in 1..Len(Scripts[b][m]), NEW s, InUnit(b, m, i, s)
    PROVE  s \in Legal(b, m) /\ s \in Every(b) /\ s \in Statements[b][m] /\ (b = "sqlite" => s = Scripts[b][m][i][1])
<1>1. PICK S : S = Scripts[b][m]
  OBVIOUS
<1>2. PICK j \in 1..Len(S[i]) : s = S[i][j]
  BY <1>1 DEF InUnit
<1>3. CASE b = "sqlite"
  <2>1. Single(S[i]) /\ S[i][1] \in Legal(b, m) /\ DOMAIN S = 1..Len(S)
    BY <1>1, <1>3, SqliteUnits
  <2>2. PICK a : a = S[i][1]
    OBVIOUS
  <2>3. DOMAIN <<a>> = 1..1 /\ Len(<<a>>) = 1
    OBVIOUS
  <2>4. j = 1 /\ j \in DOMAIN S[i]
    BY <1>2, <2>1, <2>2, <2>3 DEF Single
  <2>5. Has(S, s)
    BY <1>1, <1>2, <2>1, <2>4 DEF Has
  <2> QED BY <1>1, <1>2, <2>1, <2>4, <2>5, HasIs DEF Every
<1>4. CASE b = "postgres"
  <2>1. S[i] \in Seq(Legal(b, m)) /\ DOMAIN S = 1..Len(S)
    BY <1>1, <1>4, PostgresUnits
  <2>2. PICK u : u = S[i]
    OBVIOUS
  <2>3. u[j] \in Legal(b, m) /\ j \in DOMAIN u
    BY <1>2, <2>1, <2>2
  <2>5. Has(S, s)
    BY <1>1, <1>2, <2>1, <2>2, <2>3 DEF Has
  <2> QED BY <1>1, <1>2, <1>4, <2>2, <2>3, <2>5, HasIs DEF Every
<1> QED BY <1>3, <1>4 DEF Databases

\* A statement whose effect is owed is one of a migration.
LEMMA DueIs ==
    ASSUME NEW b \in Databases, NEW L, NEW P, NEW s \in DueOf(b, L, P)
    PROVE  \E m \in 1..25 : \E i \in 1..Len(Scripts[b][m]) :
               OwedAt(L, P, m, i) /\ InUnit(b, m, i, s) /\ s \in Legal(b, m)
<1>1. PICK m \in 1..25 : \E i \in 1..Len(Scripts[b][m]) : OwedAt(L, P, m, i) /\ InUnit(b, m, i, s)
  BY DEF DueOf
<1>2. PICK i \in 1..Len(Scripts[b][m]) : OwedAt(L, P, m, i) /\ InUnit(b, m, i, s)
  BY <1>1
<1> QED BY <1>2, UnitLegal

\* What is owed less of is due less.
LEMMA DueLess ==
    ASSUME NEW b, NEW L, NEW P, NEW M, NEW Q,
           \A m \in 1..25 : \A i \in 1..Len(Scripts[b][m]) : OwedAt(M, Q, m, i) => OwedAt(L, P, m, i)
    PROVE  DueOf(b, M, Q) \subseteq DueOf(b, L, P)
  BY Zenon DEF DueOf

\* One more unit is passed.
LEMMA DueMore ==
    ASSUME NEW b \in Databases, NEW L, NEW P, NEW Q, NEW n, NEW j,
           \A m \in 1..25 : \A i \in 1..Len(Scripts[b][m]) :
               OwedAt(L, Q, m, i) => OwedAt(L, P, m, i) \/ (m = n /\ i = j)
    PROVE  DueOf(b, L, Q) \subseteq DueOf(b, L, P) \union {s \in Every(b) : InUnit(b, n, j, s)}
<1> SUFFICES ASSUME NEW s \in DueOf(b, L, Q), s \notin DueOf(b, L, P) PROVE s \in Every(b) /\ InUnit(b, n, j, s)
  OBVIOUS
<1>1. PICK m \in 1..25 : \E i \in 1..Len(Scripts[b][m]) : OwedAt(L, Q, m, i) /\ InUnit(b, m, i, s)
  BY DEF DueOf
<1>2. PICK i \in 1..Len(Scripts[b][m]) : OwedAt(L, Q, m, i) /\ InUnit(b, m, i, s)
  BY <1>1
<1>3. s \in Every(b)
  BY DEF DueOf
<1>4. ~OwedAt(L, P, m, i)
  BY <1>2, <1>3 DEF DueOf
<1> QED BY <1>2, <1>3, <1>4

\* A step that loses nothing, and moves no program within a rebuild.
Grown(b, ov, ow, d, e, F, G, P, Q) ==
    /\ b \in Databases /\ Schema(d) /\ Schema(e) /\ Grows(d, e)
    /\ G \subseteq F /\ F \subseteq Every(b) /\ (ov => ow)
    /\ \A p \in Programs : \A s : AtPart(Q[p], s) => Q[p] = P[p] /\ Min(P[p].todo) \in Nat

\* Such a step keeps the invariant.
LEMMA GrowApplied ==
    ASSUME NEW b, NEW ov, NEW ow, NEW d, NEW e, NEW P, NEW Q, NEW F, NEW G,
           Grown(b, ov, ow, d, e, F, G, P, Q), AppliedAt(b, ov, d, F, P)
    PROVE  AppliedAt(b, ow, e, G, Q)
<1> USE DEF Grown
<1>1. ASSUME b = "postgres" \/ ~ow, NEW s \in G PROVE InEffect(s, e)
  <2>1. InEffect(s, d)
    BY <1>1 DEF AppliedAt
  <2>2. PICK m \in 1..25 : s \in Legal(b, m)
    BY <1>1 DEF Every
  <2>3. m \in Nat
    BY MigrationIsNat
  <2> QED BY <2>1, <2>2, <2>3, EffectStays
<1>2. ASSUME b = "sqlite", ~ow, NEW p \in Programs, NEW s, AtPart(Q[p], s) PROVE Ready(G, e, Min(Q[p].todo), s)
  <2>1. Q[p] = P[p] /\ Min(P[p].todo) \in Nat
    BY <1>2
  <2>2. Ready(F, d, Min(P[p].todo), s)
    BY <1>2, <2>1 DEF AppliedAt
  <2>3. PICK m \in Nat : m = Min(P[p].todo)
    BY <2>1
  <2> QED BY <2>1, <2>2, <2>3, ReadyGrows
<1> QED BY <1>1, <1>2 DEF AppliedAt

\* A deployment has in effect what its ledger records.
LEMMA InitApplied == BootInit => AppliedInv
<1> SUFFICES ASSUME BootInit PROVE AppliedInv
  OBVIOUS
<1>1. PICK b \in Databases, k \in 0..25 : b = backend /\ k = begun
  BY InitTables
<1>2. PICK L, P, d : L = ledger /\ P = prog /\ d = db
  OBVIOUS
<1>3. \A m, x : <<m, x>> \in L <=> m \in 1..k /\ x = "js"
  BY <1>1, <1>2 DEF BootInit
<1>4. \A p \in Programs : P[p].at # "migrating"
  BY <1>2 DEF BootInit, Off
<1>5. \A m \in 1..k : \A s \in Statements[b][m] : InEffect(s, d)
  BY <1>1, <1>2, InitTables
<1>6. ASSUME NEW s \in DueOf(b, L, P) PROVE InEffect(s, d)
  <2>1. PICK m \in 1..25 : \E i \in 1..Len(Scripts[b][m]) : OwedAt(L, P, m, i) /\ InUnit(b, m, i, s)
    BY DueIs
  <2>2. PICK i \in 1..Len(Scripts[b][m]) : OwedAt(L, P, m, i) /\ InUnit(b, m, i, s)
    BY <2>1
  <2>3. m \in 1..k
    BY <1>3, <1>4, <2>2 DEF OwedAt, Passed
  <2>4. s \in Statements[b][m]
    BY <2>2, UnitLegal
  <2> QED BY <1>5, <2>3, <2>4
<1>7. AppliedAt(b, overlapped, d, DueOf(b, L, P), P)
  BY <1>4, <1>6 DEF AppliedAt, AtPart
<1> QED BY <1>1, <1>2, <1>7 DEF AppliedInv

\* At the first unit of a migration nothing of it is owed, and no rebuild is under way.
LEMMA FirstOwes ==
    ASSUME NEW r, r.todo \in SUBSET (1..25), r.unit = 1
    PROVE  (\A m : \A i \in Nat : i >= 1 => ~Passed(r, m, i)) /\ \A s : ~AtPart(r, s)
<1>1. \A m : \A i \in Nat : i >= 1 => ~Passed(r, m, i)
  BY DEF Passed
<1>2. ASSUME NEW s, AtPart(r, s) PROVE FALSE
  <2>1. Doing("sqlite", r, s.table, Parts)
    BY <1>2 DEF AtPart, Doing
  <2> QED BY <2>1, AtFirst
<1> QED BY <1>1, <1>2

\* The number of the migration that a program is at.
LEMMA MinIs ==
    ASSUME Placed, NEW p \in Programs, prog[p].todo # {} PROVE Min(prog[p].todo) \in Nat
<1>1. Now(p) \in 1..25
  BY NowIs
<1> QED BY <1>1 DEF Now

\* A program comes to a first unit or stops; it may have recorded the migration it was at.
LEMMA FirstUnitApplied ==
    ASSUME RowInv, AppliedInv, NEW p \in Programs, NEW a, NEW todo \in SUBSET (1..25), prog' = [prog EXCEPT ![p] = Proc(a, todo, 1)],
           UNCHANGED <<backend, db>>, overlapped => overlapped',
           \A m \in 1..25 : Recorded(m)' => Recorded(m) \/ (Migrating(p) /\ m = Now(p) /\ prog[p].unit > Len(Left(p)))
    PROVE  AppliedInv'
<1>1. prog'[p].todo = todo /\ prog'[p].unit = 1 /\ \A q \in Programs \ {p} : prog'[q] = prog[q]
  <2>1. PICK u \in Nat : u = 1 /\ u >= 1
    OBVIOUS
  <2>2. PICK r : r = Proc(a, todo, u)
    OBVIOUS
  <2>3. IsProc(r) /\ r.todo = todo /\ r.unit = u
    <3>1. IsProc(r)
      BY <2>1, <2>2, ProcIs
    <3>2. r.todo = todo /\ r.unit = u
      BY <2>2, ProcParts
    <3> QED BY <3>1, <3>2
  <2>4. prog' = [prog EXCEPT ![p] = r] /\ Placed
    BY <2>1, <2>2 DEF RowInv
  <2>5. prog'[p] = r /\ \A q \in Programs \ {p} : prog'[q] = prog[q]
    BY <2>3, <2>4, Moved
  <2> QED BY <2>1, <2>3, <2>5
<1>2. PICK b, L, M, P, Q, d, ov, ow :
         b = backend /\ L = ledger /\ M = ledger' /\ P = prog /\ Q = prog' /\ d = db /\ ov = overlapped /\ ow = overlapped'
  OBVIOUS
<1>3. b \in Databases /\ Schema(d) /\ Placed
  BY <1>2 DEF RowInv
<1>4. (\A m : \A i \in Nat : i >= 1 => ~Passed(Q[p], m, i)) /\ \A s : ~AtPart(Q[p], s)
  <2>1. PICK r : r = Q[p]
    OBVIOUS
  <2> QED BY <1>1, <1>2, <2>1, FirstOwes
<1>5. ASSUME NEW m \in 1..25, NEW i \in 1..Len(Scripts[b][m]), OwedAt(M, Q, m, i) PROVE OwedAt(L, P, m, i)
  <2>1. PICK n \in Nat : n = Len(Scripts[b][m])
    <3>1. PICK S : S = Scripts[b][m]
      OBVIOUS
    <3>2. CASE b = "sqlite"
      BY <3>1, <3>2, SqliteUnits
    <3>3. CASE b = "postgres"
      BY <3>1, <3>3, PostgresUnits
    <3> QED BY <1>3, <3>2, <3>3 DEF Databases
  <2>2. i \in 1..n
    BY <2>1
  <2>3. i \in Nat /\ i >= 1 /\ i <= n
    BY <2>2
  <2>4. CASE \E x \in {"sql", "js"} : <<m, x>> \in M
    <3>1. Recorded(m)'
      BY <1>2, <2>4 DEF Recorded
    <3>2. CASE Recorded(m)
      BY <1>2, <3>2 DEF Recorded, OwedAt
    <3>3. CASE Migrating(p) /\ m = Now(p) /\ prog[p].unit > Len(Left(p))
      <4>1. Len(Left(p)) = n
        BY <1>2, <2>1, <3>3 DEF Left
      <4>2. PICK u \in Nat : u = prog[p].unit
        BY <1>3, PlaceIs
      <4>3. i < prog[p].unit
        BY <2>3, <3>3, <4>1, <4>2, Beyond
      <4>4. Passed(P[p], m, i)
        BY <1>2, <3>3, <4>3 DEF Passed, Migrating, Now
      <4> QED BY <4>4 DEF OwedAt
    <3> QED BY <3>1, <3>2, <3>3
  <2>5. ASSUME NEW q \in Programs, Passed(Q[q], m, i) PROVE OwedAt(L, P, m, i)
    <3>1. q # p
      BY <1>4, <2>3, <2>5
    <3>2. Q[q] = P[q]
      BY <1>1, <1>2, <3>1
    <3> QED BY <2>5, <3>2 DEF OwedAt
  <2> QED BY <1>5, <2>4, <2>5 DEF OwedAt
<1>6. PICK F, G : F = DueOf(b, L, P) /\ G = DueOf(b, M, Q)
  OBVIOUS
<1>7. G \subseteq F
  BY <1>5, <1>6, DueLess
<1>8. F \subseteq Every(b)
  BY <1>6 DEF DueOf
<1>9. ASSUME NEW q \in Programs, NEW s, AtPart(Q[q], s) PROVE Q[q] = P[q] /\ Min(P[q].todo) \in Nat
  <2>1. Q[q] = P[q]
    BY <1>1, <1>2, <1>4, <1>9
  <2> QED BY <1>2, <1>3, <1>9, <2>1, MinIs DEF AtPart
<1>10. AppliedAt(b, ov, d, F, P) /\ (ov => ow) /\ Grows(d, d)
  BY <1>2, <1>3, <1>6, GrowsSame DEF AppliedInv
<1>12. Grown(b, ov, ow, d, d, F, G, P, Q)
  BY <1>3, <1>7, <1>8, <1>9, <1>10 DEF Grown
<1>11. AppliedAt(b, ow, d, G, Q)
  BY <1>10, <1>12, GrowApplied
<1> QED BY <1>2, <1>6, <1>11 DEF AppliedInv

\* A serving server writes.
LEMMA ServingApplied ==
    ASSUME RowInv, AppliedInv, Schema(db'), Grows(db, db'), UNCHANGED <<backend, ledger, prog, overlapped>>
    PROVE  AppliedInv'
<1>1. PICK b, L, P, d, e, ov, F :
         b = backend /\ L = ledger /\ P = prog /\ d = db /\ e = db' /\ ov = overlapped /\ F = DueOf(b, L, P)
  OBVIOUS
<1>2. b \in Databases /\ Schema(d) /\ Schema(e) /\ Grows(d, e) /\ Placed /\ F \subseteq Every(b)
  BY <1>1 DEF RowInv, DueOf
<1>3. AppliedAt(b, ov, d, F, P)
  BY <1>1 DEF AppliedInv
<1>4. \A p \in Programs : \A s : AtPart(P[p], s) => Min(P[p].todo) \in Nat
  BY <1>1, <1>2, MinIs DEF AtPart
<1>6. Grown(b, ov, ov, d, e, F, F, P, P)
  BY <1>2, <1>4 DEF Grown
<1>5. AppliedAt(b, ov, e, F, P)
  BY <1>3, <1>6, GrowApplied
<1> QED BY <1>1, <1>5 DEF AppliedInv

\* Nothing after the migration that a program is at is recorded, beyond migration 2.
LEMMA RecordedBefore ==
    ASSUME LedgerInv, InStep, Placed, NEW p \in Programs, Migrating(p), Now(p) > 2, NEW k \in 1..25, Recorded(k)
    PROVE  k <= Now(p)
<1> SUFFICES ASSUME ~(k <= Now(p)) PROVE FALSE
  OBVIOUS
<1>1. PICK m \in 1..25 : m = Now(p)
  BY NowIs DEF Migrating
<1>2. prog[p].todo = Pending(p) /\ m \in prog[p].todo /\ \A j \in prog[p].todo : m <= j
  BY <1>1, NowIs DEF Migrating, InStep
<1>3. PICK x \in {"sql", "js"} : x = Suffix(p)
  BY SuffixIs
<1>4. <<m, x>> \notin ledger /\ <<2, x>> \in ledger
  <2>1. 2 \in 1..25 /\ ~(m <= 2)
    BY <1>1
  <2> QED BY <1>2, <1>3, <2>1 DEF Pending
<1>5. PICK y \in {"sql", "js"} : <<k, y>> \in ledger
  BY DEF Recorded
<1>6. m \in 1..k /\ 2 \in 1..k
  BY <1>1
<1>7. <<m, y>> \in ledger /\ <<2, y>> \in ledger
  BY <1>5, <1>6 DEF InStep
<1> QED BY <1>4, <1>7 DEF InStep

\* Program p passes unit i of migration m.
Passes(P, Q, p, m, i) ==
    /\ \A q \in Programs \ {p} : Q[q] = P[q]
    /\ m \in 1..25 /\ i \in Nat /\ Q[p].at = "migrating" /\ P[p].at = "migrating" /\ P[p].todo # {}
    /\ Min(P[p].todo) = m /\ Min(Q[p].todo) = m /\ P[p].unit = i /\ Q[p].unit = i + 1

\* One program's next unit makes its own statements owed, and no others.
LEMMA UnitDue ==
    ASSUME NEW b \in Databases, NEW L, NEW P, NEW Q, NEW p \in Programs, NEW m, NEW i, Passes(P, Q, p, m, i)
    PROVE  DueOf(b, L, Q) \subseteq DueOf(b, L, P) \union {s \in Every(b) : InUnit(b, m, i, s)}
<1>1. ASSUME NEW k \in 1..25, NEW j \in 1..Len(Scripts[b][k]), OwedAt(L, Q, k, j)
      PROVE  OwedAt(L, P, k, j) \/ (k = m /\ j = i)
  <2>1. PICK n \in Nat : n = Len(Scripts[b][k])
    <3>1. PICK S : S = Scripts[b][k]
      OBVIOUS
    <3>2. CASE b = "sqlite"
      BY <3>1, <3>2, SqliteUnits
    <3>3. CASE b = "postgres"
      BY <3>1, <3>3, PostgresUnits
    <3> QED BY <3>2, <3>3 DEF Databases
  <2>2. j \in 1..n
    BY <2>1
  <2>3. j \in Nat
    BY <2>2
  <2>4. CASE \E x \in {"sql", "js"} : <<k, x>> \in L
    BY <2>4 DEF OwedAt
  <2>5. ASSUME NEW q \in Programs, Passed(Q[q], k, j) PROVE OwedAt(L, P, k, j) \/ (k = m /\ j = i)
    <3>1. CASE q = p
      <4>1. k = m /\ j < i + 1 /\ i \in Nat
        BY <2>5, <3>1 DEF Passed, Passes
      <4>2. j < i \/ j = i
        BY <2>3, <4>1
      <4>3. j < i => Passed(P[p], k, j)
        BY <4>1 DEF Passed, Passes
      <4> QED BY <4>1, <4>2, <4>3 DEF OwedAt
    <3>2. CASE q # p
      BY <2>5, <3>2 DEF Passes, OwedAt
    <3> QED BY <3>1, <3>2
  <2> QED BY <1>1, <2>4, <2>5 DEF OwedAt
<1> QED BY <1>1, DueMore

\* A unit on PostgreSQL, whoever else migrates.
LEMMA PostgresApplied ==
    ASSUME NEW L, NEW P, NEW Q, NEW p \in Programs, NEW m, NEW i, Passes(P, Q, p, m, i), i \in 1..Len(Scripts["postgres"][m]),
           NEW d, NEW e, Schema(d), NEW ov, AppliedAt("postgres", ov, d, DueOf("postgres", L, P), P),
           Added(m, Scripts["postgres"][m][i], d, e)
    PROVE  AppliedAt("postgres", ov, e, DueOf("postgres", L, Q), Q)
<1>1. PICK b : b = "postgres" /\ b \in Databases
  BY DEF Databases
<1>2. m \in 1..25
  BY DEF Passes
<1>3. ASSUME NEW s \in DueOf(b, L, Q) PROVE InEffect(s, e)
  <2>1. s \in DueOf(b, L, P) \/ InUnit(b, m, i, s)
    BY <1>1, UnitDue
  <2>2. CASE s \in DueOf(b, L, P)
    <3>1. PICK k \in 1..25 : s \in Legal(b, k)
      BY <2>2 DEF DueOf, Every
    <3>2. k \in Nat
      BY MigrationIsNat
    <3>3. InEffect(s, d)
      BY <1>1, <2>2 DEF AppliedAt
    <3>4. Schema(e) /\ Grows(d, e)
      BY DEF Added
    <3> QED BY <3>1, <3>2, <3>3, <3>4, EffectStays
  <2>3. CASE InUnit(b, m, i, s)
    BY <1>1, <2>3 DEF Added, InUnit
  <2> QED BY <2>1, <2>2, <2>3
<1>4. b # "sqlite"
  BY <1>1
<1>5. AppliedAt(b, ov, e, DueOf(b, L, Q), Q)
  BY <1>3, <1>4 DEF AppliedAt
<1> QED BY <1>1, <1>5

\* A unit on SQLite, when nobody else migrates.
LEMMA SqliteApplied ==
    ASSUME NEW L, NEW P, NEW Q, NEW p \in Programs, NEW m, NEW S, NEW i, NEW s, Passes(P, Q, p, m, i), RunsOne(P, Q, p, m, S, i, s),
           \A q \in Programs : P[q].at = "migrating" => q = p,
           NEW d, NEW e, Schema(d), Works(s, d), e = Effect(s, d), s \in Legal("sqlite", m),
           Given(DueOf("sqlite", L, P), d, m, s)
    PROVE  AppliedAt("sqlite", FALSE, e, DueOf("sqlite", L, Q), Q)
<1>1. PICK b : b = "sqlite" /\ b \in Databases
  BY DEF Databases
<1>2. /\ \A q \in Programs \ {p} : Q[q] = P[q]
      /\ m \in 1..25 /\ S = Scripts["sqlite"][m] /\ i \in 1..Len(S) /\ s = S[i][1]
      /\ Min(Q[p].todo) = m /\ Q[p].unit = i + 1
  BY DEF RunsOne
<1>3. PICK F, G : F = DueOf(b, L, P) /\ G = DueOf(b, L, Q)
  OBVIOUS
<1>4. G \subseteq F \union {s}
  <2>1. G \subseteq F \union {x \in Every(b) : InUnit(b, m, i, x)}
    BY <1>1, <1>3, UnitDue
  <2>2. \A x : InUnit(b, m, i, x) => x = s
    BY ZenonT(40), <1>1, <1>2, UnitLegal
  <2> QED BY <2>1, <2>2
<1>5. (\A f \in F : InEffect(f, e)) /\ InEffect(s, e) /\ Readied(F, e, m, s)
  BY <1>1, <1>2, <1>3, StatementApplied
<1>6. ASSUME NEW q \in Programs, NEW n, AtPart(Q[q], n) PROVE Ready(G, e, Min(Q[q].todo), n)
  <2>1. q = p
    BY <1>2, <1>6 DEF AtPart
  <2>2. i + 1 <= Len(S) /\ n = S[i + 1][1] /\ n.does \in Parts
    BY <1>2, <1>6, <2>1 DEF AtPart
  <2>3. Len(S) \in Nat /\ \A j \in 1..Len(S) : S[j][1].does \in Parts =>
                 /\ j > 1 /\ S[j - 1][1].does = Before(S[j][1].does) /\ S[j - 1][1].table = S[j][1].table
    <3>1. PICK k, T : k \in 1..25 /\ k = m /\ T = S /\ T = Scripts["sqlite"][k]
      BY <1>2
    <3>2. Len(T) \in Nat /\ \A j \in 1..Len(T) : T[j][1].does \in Parts =>
                 /\ j > 1 /\ T[j - 1][1].does = Before(T[j][1].does) /\ T[j - 1][1].table = T[j][1].table
      BY <3>1, SqliteUnits
    <3> QED BY <3>1, <3>2
  <2>4. i + 1 \in 1..Len(S) /\ (i + 1) - 1 = i
    <3>1. i \in Nat
      BY DEF Passes
    <3> QED BY <2>2, <2>3, <3>1
  <2>5. s.does = Before(n.does) /\ s.table = n.table
    BY ZenonT(40), <1>2, <2>2, <2>3, <2>4
  <2>6. Ready(F, e, m, n) /\ s.does \notin Adds
    BY <1>5, <2>2, <2>5 DEF Readied
  <2> QED BY <1>2, <1>4, <2>1, <2>6, ReadyFewer
<1>7. AppliedAt(b, FALSE, e, G, Q)
  BY <1>4, <1>5, <1>6 DEF AppliedAt
<1> QED BY <1>1, <1>3, <1>7

\* A program on SQLite, alone, comes to a statement.
LEMMA UpGiven ==
    ASSUME Rigid, AppliedInv, backend = "sqlite", ~overlapped, NEW p \in Programs, Migrating(p),
           NEW m, NEW S, NEW i, PlaceAt(p, m, S, i), NEW s, s = S[i][1], s \in Legal("sqlite", m)
    PROVE  Given(DueOf("sqlite", ledger, prog), db, m, s)
<1>1. Placed /\ LedgerInv /\ InStep
  BY DEF Rigid, RowInv, LedgerInv
<1>2. m \in 1..25 /\ m = Now(p) /\ S = Scripts["sqlite"][m] /\ i \in 1..Len(S) /\ i = prog[p].unit /\ Min(prog[p].todo) = m
  BY DEF PlaceAt
<1>3. Fits("sqlite", m, s.does, s.table, s.arg)
  BY <1>2, LegalParts
<1>4. PICK b, L, P, d, F : b = "sqlite" /\ L = ledger /\ P = prog /\ d = db /\ F = DueOf(b, L, P)
  OBVIOUS
<1>5. AppliedAt(b, FALSE, d, F, P) /\ b \in Databases
  <2>1. overlapped = FALSE \/ AppliedAt(b, FALSE, d, F, P)
    BY <1>4 DEF AppliedInv, AppliedAt
  <2> QED BY <1>4, <2>1 DEF AppliedInv, AppliedAt, Databases
<1>6. ASSUME NEW f \in F PROVE InEffect(f, d) /\ \E k \in Nat : f \in Legal("sqlite", k) /\ (s.does = "drop" => k <= m)
  <2>1. InEffect(f, d)
    BY <1>4, <1>5 DEF AppliedAt
  <2>2. PICK k \in 1..25 : \E j \in 1..Len(Scripts[b][k]) : OwedAt(L, P, k, j) /\ f \in Legal(b, k)
    BY <1>4, <1>5, <1>6, DueIs
  <2>3. PICK j : OwedAt(L, P, k, j) /\ f \in Legal(b, k)
    BY <2>2
  <2>4. ASSUME s.does = "drop" PROVE k <= m
    <3>1. Now(p) > 2
      BY <1>2, <1>3, <2>4 DEF Fits, Parts
    <3>2. CASE Recorded(k)
      BY <1>1, <1>2, <3>1, <3>2, RecordedBefore
    <3>3. CASE \E q \in Programs : Passed(P[q], k, j)
      <4>1. PICK q \in Programs : P[q].at = "migrating" /\ Min(P[q].todo) = k
        BY <3>3 DEF Passed
      <4>2. q = p
        BY <1>1, <1>4, <4>1 DEF InStep, Migrating
      <4>3. k = m
        BY <1>2, <1>4, <4>1, <4>2
      <4>4. \A x \in 1..25 : x <= x
        OBVIOUS
      <4> QED BY <4>3, <4>4
    <3> QED BY <1>4, <2>3, <3>2, <3>3 DEF OwedAt, Recorded
  <2>5. k \in Nat
    BY MigrationIsNat
  <2> QED BY <1>4, <2>1, <2>3, <2>4, <2>5
<1>7. ASSUME s.does \in Parts PROVE s.table \in DOMAIN d.aside /\ Ready(F, d, m, s)
  <2>1. i <= Len(S)
    <3>1. Len(S) \in Nat
      BY <1>2, SqliteUnits
    <3> QED BY <1>2, <3>1
  <2>2. AtPart(P[p], s)
    BY <1>2, <1>4, <1>7, <2>1 DEF AtPart, Migrating
  <2>3. Ready(F, d, m, s)
    BY <1>2, <1>4, <1>5, <2>2 DEF AppliedAt
  <2>4. s.table \in Rebuilt
    BY <1>3, <1>7 DEF Fits, Parts, Gentle
  <2>5. Doing("sqlite", P[p], s.table, Parts)
    BY <2>2 DEF AtPart, Doing
  <2>6. RowsAt(b, begun, d, P, s.table)
    BY <1>4, <2>4 DEF Rigid, RowInv
  <2>7. s.table \in DOMAIN d.aside
    BY <1>4, <2>5, <2>6 DEF RowsAt
  <2> QED BY <2>3, <2>7
<1> QED BY <1>4, <1>6, <1>7 DEF Given

\* A unit commits.
LEMMA UpApplied ==
    ASSUME Rigid, AppliedInv, NEW p \in Programs, Up(p), db' \in Outcomes(Left(p)[prog[p].unit], db),
           prog' = [prog EXCEPT ![p].unit = @ + 1]
    PROVE  AppliedInv'
<1>1. Placed /\ backend \in Databases /\ Schema(db) /\ Migrating(p) /\ prog[p].unit <= Len(Left(p))
  BY DEF Rigid, RowInv, Up
<1>2. UNCHANGED <<backend, ledger, overlapped>>
  BY DEF Up
<1>3. PICK m, S, i : PlaceAt(p, m, S, i)
  BY <1>1, UnitIs
<1>4. /\ prog'[p] = Proc(prog[p].at, prog[p].todo, prog[p].unit + 1)
      /\ \A q \in Programs \ {p} : prog'[q] = prog[q]
  <2>1. PICK n \in Nat, todo \in SUBSET (1..25) : n = prog[p].unit /\ todo = prog[p].todo
    BY <1>1, PlaceIs
  <2>2. PICK a : a = prog[p].at
    OBVIOUS
  <2>3. n + 1 \in Nat /\ n + 1 >= 1
    OBVIOUS
  <2>4. PICK r : r = Proc(a, todo, n + 1)
    OBVIOUS
  <2>5. IsProc(r)
    BY <2>3, <2>4, ProcIs
  <2>6. prog' = [prog EXCEPT ![p] = r]
    BY <1>1, <2>1, <2>2, <2>4, NextUnitMove
  <2>7. prog'[p] = r /\ \A q \in Programs \ {p} : prog'[q] = prog[q]
    BY <1>1, <2>5, <2>6, Moved
  <2> QED BY <2>1, <2>2, <2>4, <2>7
<1>5. prog'[p].at = prog[p].at /\ prog'[p].todo = prog[p].todo /\ prog'[p].unit = prog[p].unit + 1
  BY <1>4, ProcParts
<1>6. PICK b, L, P, Q, d, e, ov :
         b = backend /\ L = ledger /\ P = prog /\ Q = prog' /\ d = db /\ e = db' /\ ov = overlapped
  OBVIOUS
<1>7. e \in Outcomes(Left(p)[prog[p].unit], d) /\ Schema(d)
  BY <1>1, <1>6
<1>8. Passes(P, Q, p, m, i)
  BY <1>1, <1>3, <1>4, <1>5, <1>6 DEF Passes, PlaceAt, Migrating
<1>9. AppliedAt(b, ov, d, DueOf(b, L, P), P)
  BY <1>6 DEF AppliedInv
<1>10. CASE b = "postgres"
  <2>1. Added(m, S[i], d, e) /\ i \in 1..Len(S) /\ S = Scripts["postgres"][m]
    BY <1>1, <1>3, <1>6, <1>7, <1>10, PostgresUp DEF PlaceAt
  <2>2. AppliedAt("postgres", ov, d, DueOf("postgres", L, P), P)
    BY <1>9, <1>10
  <2>3. AppliedAt("postgres", ov, e, DueOf("postgres", L, Q), Q)
    BY <1>7, <1>8, <2>1, <2>2, PostgresApplied
  <2> QED BY <1>2, <1>6, <1>10, <2>3 DEF AppliedInv
<1>11. CASE b = "sqlite" /\ ov
  <2>1. AppliedAt(b, ov, e, DueOf(b, L, Q), Q)
    BY <1>11 DEF AppliedAt
  <2> QED BY <1>2, <1>6, <2>1 DEF AppliedInv
<1>12. CASE b = "sqlite" /\ ~ov
  <2>1. PICK s : SqliteStep(d, e, m, S, i, s)
    BY <1>1, <1>3, <1>6, <1>7, <1>12, SqliteUp
  <2>2. s \in Legal("sqlite", m) /\ s = S[i][1] /\ Works(s, d) /\ e = Effect(s, d)
    BY <2>1 DEF SqliteStep
  <2>3. RunsOne(P, Q, p, m, S, i, s)
    BY <1>1, <1>3, <1>4, <1>5, <1>6, <1>12, <2>2 DEF Migrating, PlaceAt, RunsOne
  <2>4. Given(DueOf("sqlite", L, P), d, m, s)
    BY <1>1, <1>3, <1>6, <1>12, <2>2, UpGiven
  <2>5. \A q \in Programs : P[q].at = "migrating" => q = p
    BY <1>1, <1>6, <1>12 DEF Rigid, LedgerInv, InStep, Migrating
  <2>6. AppliedAt("sqlite", FALSE, e, DueOf("sqlite", L, Q), Q)
    BY <1>7, <1>8, <2>2, <2>3, <2>4, <2>5, SqliteApplied
  <2>7. AppliedAt(b, ov, e, DueOf(b, L, Q), Q)
    BY <1>12, <2>6 DEF AppliedAt
  <2> QED BY <1>2, <1>6, <2>7 DEF AppliedInv
<1> QED BY <1>1, <1>6, <1>10, <1>11, <1>12 DEF Databases

\* A step that leaves the ledger of migrations as it is.
LEMMA SameLedger == ASSUME UNCHANGED ledger PROVE \A m \in 1..25 : Recorded(m)' => Recorded(m)
  BY DEF Recorded

\* A migration is recorded.
LEMMA RecordApplied ==
    ASSUME RowInv, AppliedInv, NEW p \in Programs, LogMigration(p) PROVE AppliedInv'
<1>1. Placed /\ Migrating(p) /\ prog[p].unit > Len(Left(p)) /\ UNCHANGED <<backend, db, overlapped>>
  BY DEF RowInv, LogMigration
<1>2. CASE prog' = [prog EXCEPT ![p] = Off("failed")] /\ UNCHANGED ledger
  <2>1. prog' = [prog EXCEPT ![p] = Proc("failed", {}, 1)] /\ {} \in SUBSET (1..25)
    BY <1>2, OffMove
  <2>2. \A m \in 1..25 : Recorded(m)' => Recorded(m)
    BY <1>2, SameLedger
  <2> QED BY <1>1, <2>1, <2>2, FirstUnitApplied
<1>3. CASE /\ ledger' = ledger \union {<<Now(p), Suffix(p)>>}
           /\ prog' = [prog EXCEPT ![p].todo = @ \ {Now(p)}, ![p].unit = 1]
  <2>1. PICK m : m = Now(p)
    OBVIOUS
  <2>2. prog' = [prog EXCEPT ![p] = Proc(prog[p].at, prog[p].todo \ {m}, 1)]
    BY <1>1, <1>3, <2>1, NextMigrationMove
  <2>3. prog[p].todo \ {m} \in SUBSET (1..25)
    BY <1>1, PlaceIs
  <2>4. \A k \in 1..25 : Recorded(k)' => Recorded(k) \/ k = Now(p)
    BY <1>3 DEF Recorded
  <2> QED BY <1>1, <2>2, <2>3, <2>4, FirstUnitApplied
<1> QED BY <1>2, <1>3 DEF LogMigration

\* What is owed stays in effect at every step.
LEMMA StepApplied == Rigid /\ AppliedInv /\ [BootNext]_bootVars => AppliedInv'
<1> SUFFICES ASSUME Rigid, AppliedInv, [BootNext]_bootVars PROVE AppliedInv'
  OBVIOUS
<1>0. RowInv /\ Placed /\ Schema(db)
  BY DEF Rigid, RowInv
<1>1. ASSUME NEW p \in Programs, Start(p) PROVE AppliedInv'
  <2>1. prog' = [prog EXCEPT ![p] = Proc("migrating", Pending(p), 1)] /\ Pending(p) \in SUBSET (1..25)
    BY <1>0, <1>1, StartMove
  <2>2. UNCHANGED <<backend, db, ledger>> /\ (overlapped => overlapped')
    BY <1>1 DEF Start
  <2>3. \A m \in 1..25 : Recorded(m)' => Recorded(m)
    BY <2>2, SameLedger
  <2> QED BY <1>0, <2>1, <2>2, <2>3, FirstUnitApplied
<1>2. ASSUME NEW p \in Programs, NEW a, prog' = [prog EXCEPT ![p] = Off(a)], UNCHANGED <<backend, db, ledger, overlapped>>
      PROVE  AppliedInv'
  <2>1. prog' = [prog EXCEPT ![p] = Proc(a, {}, 1)] /\ {} \in SUBSET (1..25)
    BY <1>2, OffMove
  <2>2. \A m \in 1..25 : Recorded(m)' => Recorded(m)
    BY <1>2, SameLedger
  <2> QED BY <1>0, <1>2, <2>1, <2>2, FirstUnitApplied
<1>3. ASSUME NEW p \in Programs, Up(p) PROVE AppliedInv'
  <2>1. CASE prog' = [prog EXCEPT ![p] = Off("failed")] /\ UNCHANGED db
    BY <1>2, <1>3, <2>1 DEF Up
  <2>2. CASE db' \in Outcomes(Left(p)[prog[p].unit], db) /\ prog' = [prog EXCEPT ![p].unit = @ + 1]
    BY <1>3, <2>2, UpApplied
  <2> QED BY <1>3, <2>1, <2>2 DEF Up
<1>4. ASSUME NEW p \in Programs, LogMigration(p) PROVE AppliedInv'
  BY <1>0, <1>4, RecordApplied
<1>5. ASSUME NEW p \in Programs, Listen(p) \/ Exit(p) \/ Crash(p) PROVE AppliedInv'
  BY <1>2, <1>5 DEF Listen, Exit, Crash
<1>6. ASSUME NEW p, WriteSpan(p) \/ \E v \in Versions : Promote(p, v) \/ Relabel(p, v) PROVE AppliedInv'
  <2>1. Schema(db') /\ Grows(db, db') /\ UNCHANGED <<backend, ledger, prog, overlapped>>
    BY <1>0, <1>6, ServingGrows
  <2> QED BY <1>0, <2>1, ServingApplied
<1>7. CASE UNCHANGED bootVars
  <2>1. UNCHANGED <<backend, ledger, prog, overlapped, db>>
    BY <1>7 DEF bootVars
  <2>2. Schema(db') /\ Grows(db, db')
    BY <1>0, <2>1, GrowsSame
  <2> QED BY <1>0, <2>1, <2>2, ServingApplied
<1> QED BY <1>1, <1>3, <1>4, <1>5, <1>6, <1>7 DEF BootNext, Rests

\* It does so from the start.
LEMMA AppliedHolds == BootSpec => [](Rigid /\ AppliedInv)
<1>1. BootInit => AppliedInv
  BY InitApplied
<1>2. Rigid /\ AppliedInv /\ [BootNext]_bootVars => AppliedInv'
  BY StepApplied
<1> QED BY <1>1, <1>2, RigidHolds, PTL DEF BootSpec

\* What the migrations table records is in the schema, whatever crashed: a migration is
\* recorded
\* after its last unit, and no later statement takes back what an earlier one gave: a
\* rebuild
\* moves every column over, and gives at least the constraints that were there.
THEOREM RecordsAreApplied == BootSpec => []RecordedIsApplied
<1>1. Rigid /\ AppliedInv => RecordedIsApplied
  <2> SUFFICES ASSUME Rigid, AppliedInv, backend = "postgres" \/ ~overlapped, NEW m \in 1..25,
                      NEW x \in {"sql", "js"}, <<m, x>> \in ledger, NEW s \in Statements[backend][m]
               PROVE  InEffect(s, db)
    BY DEF RecordedIsApplied
  <2>1. PICK b, S : b \in Databases /\ b = backend /\ S = Scripts[b][m]
    BY DEF Rigid, RowInv
  <2>2. Has(S, s)
    BY <2>1, HasIs
  <2>3. PICK i \in DOMAIN S : \E j \in DOMAIN S[i] : S[i][j] = s
    BY <2>2 DEF Has
  <2>4. PICK j \in DOMAIN S[i] : S[i][j] = s
    BY <2>3
  <2>5. i \in 1..Len(S) /\ j \in 1..Len(S[i])
    <3>1. CASE b = "sqlite"
      <4>1. DOMAIN S = 1..Len(S) /\ Single(S[i])
        BY <2>1, <3>1, SqliteUnits
      <4>2. PICK a : S[i] = <<a>>
        BY <4>1 DEF Single
      <4>3. DOMAIN <<a>> = 1..Len(<<a>>)
        OBVIOUS
      <4> QED BY <2>4, <4>1, <4>2, <4>3
    <3>2. CASE b = "postgres"
      <4>1. DOMAIN S = 1..Len(S) /\ S[i] \in Seq(Legal(b, m))
        BY <2>1, <3>2, PostgresUnits
      <4>2. DOMAIN S[i] = 1..Len(S[i])
        BY <4>1
      <4> QED BY <2>4, <4>1, <4>2
    <3> QED BY <3>1, <3>2 DEF Databases
  <2>6. InUnit(b, m, i, s)
    BY <2>1, <2>4, <2>5 DEF InUnit
  <2>7. s \in Every(b)
    BY <2>1, <2>5, <2>6, UnitLegal
  <2>8. s \in DueOf(b, ledger, prog)
    BY <2>1, <2>5, <2>6, <2>7 DEF DueOf, OwedAt
  <2> QED BY <2>1, <2>8 DEF AppliedInv, AppliedAt
<1> QED BY <1>1, AppliedHolds, PTL
=============================================================================
