------------------------------ MODULE RateLimit ------------------------------
(***************************************************************************)
(* rateLimitPerKey for one API key in one workspace.                       *)
(*                                                                         *)
(* Every router is mounted at '/' and runs the middleware for each request *)
(* that reaches it, so a request for a later router is checked once by     *)
(* every router before it: `Passes' checks (createApp).                    *)
(*                                                                         *)
(* Time is counted in half windows: the window of tick t starts at         *)
(* WindowStart(t).  A check reads the clock once, at its start.  The       *)
(* SQLite check is one synchronous transaction; on PostgreSQL its          *)
(* statements run on the pool, each on its own, outside the transaction    *)
(* that was opened for them; Redis executes INCR and EXPIRE in one round   *)
(* trip.                                                                   *)
(*                                                                         *)
(* store is the database: "sqlite", "shared" (SQLite whose one connection  *)
(* a createPrompt with a networked driver keeps in a transaction) or       *)
(* "postgres".  Where Redis is configured each check asks again whether    *)
(* its client is usable, and counts there or in the database: the two      *)
(* counters of a window know nothing of each other.                        *)
(***************************************************************************)
EXTENDS Naturals, FiniteSets

CONSTANTS
    Requests,
    MaxRequests,  \* RATE_LIMIT_MAX_REQUESTS
    Passes,       \* routers the request traverses, its own included
    Stores,       \* the databases a deployment may have
    MaxTime,      \* bound: ticks
    MaxSwitches,  \* bound: times Redis comes or goes
    MaxFailures,  \* bound: failed checks, and losses of what Redis counted
    NoRow

ASSUME RateAssumption ==
    /\ MaxRequests \in Nat \ {0}
    /\ Passes \in Nat \ {0}
    /\ Stores \subseteq {"sqlite", "shared", "postgres"}
    /\ MaxTime \in Nat /\ MaxSwitches \in Nat /\ MaxFailures \in Nat
    /\ NoRow \notin [start : Nat, count : Nat]

VARIABLES
    store,      \* the database of this deployment: chosen at start, never changed
    redis,      \* "none": not configured; whether getRedisClient() returns the client
    switches,   \* times Redis has come or gone
    now,
    row,        \* the key's row in rate_limits: window_start and count
    hits,       \* Redis: the counter of each window
    writerTx,   \* SQLite: another handler's transaction is open on the connection
    pc, stamp,  \* the check a request is in and the time it read
    passed,     \* checks a request has passed
    reply,
    refusedBy,  \* the counter on which a request got its 429
    admitted,   \* history: checks the database admitted, by the tick they read
    viaRedis,   \* history: those that Redis admitted
    failures

deploymentVars == <<store, redis, switches>>
limiterVars == <<store, redis, switches, now, row, hits, writerTx, pc, stamp, passed, reply,
                 refusedBy, admitted, viaRedis, failures>>

Time == 0..MaxTime
WindowStart(t) == t - (t % 2)

RowSet == [start : Time, count : Nat]

LimiterTypeOK ==
    /\ store \in Stores
    /\ redis \in {"none", "up", "down"}
    /\ switches \in 0..MaxSwitches
    /\ now \in Time
    /\ row \in RowSet \union {NoRow}
    /\ hits \in [Time -> Nat]
    /\ writerTx \in BOOLEAN
    /\ pc \in [Requests -> {"new", "update", "select", "insert", "incr", "next", "done"}]
    /\ stamp \in [Requests -> Time]
    /\ passed \in [Requests -> 0..Passes]
    /\ reply \in [Requests -> {"none", "handled", "429", "500"}]
    /\ refusedBy \in [Requests -> {"none", "redis", "database"}]
    /\ admitted \in [Time -> Nat]
    /\ viaRedis \in [Time -> Nat]
    /\ failures \in 0..MaxFailures

LimiterInit ==
    /\ store \in Stores
    /\ redis \in {"none", "up", "down"}
    /\ switches = 0
    /\ now = 0
    /\ row = NoRow
    /\ hits = [t \in Time |-> 0]
    /\ writerTx = FALSE
    /\ pc = [r \in Requests |-> "new"]
    /\ stamp = [r \in Requests |-> 0]
    /\ passed = [r \in Requests |-> 0]
    /\ reply = [r \in Requests |-> "none"]
    /\ refusedBy = [r \in Requests |-> "none"]
    /\ admitted = [t \in Time |-> 0]
    /\ viaRedis = [t \in Time |-> 0]
    /\ failures = 0

Tick == /\ now < MaxTime
        /\ now' = now + 1
        /\ UNCHANGED <<deploymentVars, row, hits, writerTx, pc, stamp, passed, reply, refusedBy,
                       admitted, viaRedis, failures>>

\* The client connects, is ready, closes, reconnects or gives up; a server that comes
\* back may have lost its counters, which counts as a failure.
RedisSwitches ==
    /\ redis # "none"
    /\ redis' = IF redis = "up" THEN "down" ELSE "up"
    /\ switches < MaxSwitches /\ switches' = switches + 1
    /\ \/ UNCHANGED <<hits, failures>>
       \/ /\ failures < MaxFailures /\ failures' = failures + 1
          /\ hits' = [t \in Time |-> 0]
    /\ UNCHANGED <<store, now, row, writerTx, pc, stamp, passed, reply, refusedBy, admitted,
                   viaRedis>>

\* next()
Pass(r) ==
    /\ UNCHANGED refusedBy
    /\ passed' = [passed EXCEPT ![r] = @ + 1]
    /\ IF passed[r] + 1 = Passes
       THEN pc' = [pc EXCEPT ![r] = "done"] /\ reply' = [reply EXCEPT ![r] = "handled"]
       ELSE pc' = [pc EXCEPT ![r] = "next"] /\ reply' = reply

\* The check read tick t.
Admit(r, t) ==
    /\ Pass(r)
    /\ admitted' = [admitted EXCEPT ![t] = @ + 1]
    /\ UNCHANGED viaRedis

AdmitByRedis(r, t) ==
    /\ Pass(r)
    /\ viaRedis' = [viaRedis EXCEPT ![t] = @ + 1]
    /\ UNCHANGED admitted

\* The check throws, or its pipeline is rejected.
Refuse(r, code) ==
    /\ pc' = [pc EXCEPT ![r] = "done"]
    /\ reply' = [reply EXCEPT ![r] = code]
    /\ UNCHANGED <<admitted, viaRedis, passed>>

\* AppError 429
Reject(r, counter) ==
    /\ Refuse(r, "429")
    /\ refusedBy' = [refusedBy EXCEPT ![r] = counter]

OnSqlite == store \in {"sqlite", "shared"}
Waiting(r) == pc[r] \in {"new", "next"}

\* getRedisClient() returns null, and the check takes the database.
StartsOnSqlite(r) ==
    /\ OnSqlite /\ redis # "up"
    /\ Waiting(r)
    /\ stamp' = [stamp EXCEPT ![r] = now]

-----------------------------------------------------------------------------
(* checkSqliteRateLimit, its three statements.                             *)

CanIncrement(t) == row # NoRow /\ row.start = WindowStart(t) /\ row.count < MaxRequests
Increment == row' = [row EXCEPT !.count = @ + 1]
WindowPassed(t) == row # NoRow => row.start < WindowStart(t)
Reset(t) == row' = [start |-> WindowStart(t), count |-> 1]

\* SQLite: BEGIN, the statements and COMMIT are one synchronous chain.
CheckSqlite(r) ==
    /\ StartsOnSqlite(r)
    /\ ~writerTx
    /\ \/ CanIncrement(now) /\ Increment /\ Admit(r, now)
       \/ ~CanIncrement(now) /\ WindowPassed(now) /\ Reset(now) /\ Admit(r, now)
       \/ ~CanIncrement(now) /\ ~WindowPassed(now) /\ row' = row /\ Reject(r, "database")
    /\ UNCHANGED <<deploymentVars, now, hits, writerTx, failures>>

\* Mutant: the catch branch refuses the request.
CheckFailsClosed(r) ==
    /\ StartsOnSqlite(r)
    /\ writerTx
    /\ Reject(r, "database")
    /\ UNCHANGED <<deploymentVars, now, row, hits, writerTx, failures>>

\* BEGIN raises because another handler's transaction is open; the catch branch
\* lets the request through.
CheckDuringWriterTx(r) ==
    /\ StartsOnSqlite(r)
    /\ writerTx
    /\ Admit(r, now)
    /\ UNCHANGED <<deploymentVars, now, row, hits, writerTx, failures>>

\* createPrompt with a networked driver: BEGIN .. COMMIT or ROLLBACK.  No check
\* writes in between, so the row is not affected by either.
WriterTx == /\ store = "shared"
            /\ writerTx' = ~writerTx
            /\ UNCHANGED <<deploymentVars, now, row, hits, pc, stamp, passed, reply, refusedBy,
                           admitted, viaRedis, failures>>

\* A check on Redis or PostgreSQL starts: it reads the clock, then awaits.
StartCheck(r) ==
    /\ Waiting(r)
    /\ stamp' = [stamp EXCEPT ![r] = now]
    /\ \/ /\ redis = "up"
          /\ pc' = [pc EXCEPT ![r] = "incr"]
       \/ /\ redis # "up" /\ store = "postgres"
          /\ pc' = [pc EXCEPT ![r] = "update"]
    /\ UNCHANGED <<deploymentVars, now, row, hits, writerTx, passed, reply, refusedBy, admitted,
                   viaRedis, failures>>

\* UPDATE .. SET count = count + 1 WHERE key, window_start, count < max
PgUpdate(r) ==
    /\ pc[r] = "update"
    /\ \/ CanIncrement(stamp[r]) /\ Increment /\ Admit(r, stamp[r])
       \/ /\ ~CanIncrement(stamp[r])
          /\ pc' = [pc EXCEPT ![r] = "select"]
          /\ UNCHANGED <<row, passed, reply, refusedBy, admitted, viaRedis>>
    /\ UNCHANGED <<deploymentVars, now, hits, writerTx, stamp, failures>>

\* SELECT window_start, count
PgSelect(r) ==
    /\ pc[r] = "select"
    /\ \/ /\ WindowPassed(stamp[r])
          /\ pc' = [pc EXCEPT ![r] = "insert"]
          /\ UNCHANGED <<passed, reply, refusedBy, admitted, viaRedis>>
       \/ ~WindowPassed(stamp[r]) /\ Reject(r, "database")
    /\ UNCHANGED <<deploymentVars, now, row, hits, writerTx, stamp, failures>>

\* INSERT .. ON CONFLICT(key) DO UPDATE SET window_start, count = 1
PgInsert(r) ==
    /\ pc[r] = "insert"
    /\ Reset(stamp[r])
    /\ Admit(r, stamp[r])
    /\ UNCHANGED <<deploymentVars, now, hits, writerTx, stamp, failures>>

\* Mutant: the counter as it was before INCR.
OverLimitBefore(w) == hits[w] > MaxRequests
OverLimit(w) == hits[w] + 1 > MaxRequests

\* checkRedisRateLimit: pipeline INCR, EXPIRE.  A command under way is answered even if
\* getRedisClient() returns null meanwhile.
RedisIncr(r) ==
    LET w == WindowStart(stamp[r]) IN
    /\ pc[r] = "incr"
    /\ hits' = [hits EXCEPT ![w] = @ + 1]
    /\ IF OverLimit(w) THEN Reject(r, "redis") ELSE AdmitByRedis(r, stamp[r])
    /\ UNCHANGED <<deploymentVars, now, row, writerTx, stamp, failures>>

\* A query of the database fails: the request is let through, by design.
CheckFails(r) ==
    /\ failures < MaxFailures
    /\ failures' = failures + 1
    /\ \/ StartsOnSqlite(r) /\ Admit(r, now)
       \/ /\ pc[r] \in {"update", "select", "insert"}
          /\ Admit(r, stamp[r])
          /\ UNCHANGED stamp
    /\ UNCHANGED <<deploymentVars, now, row, hits, writerTx>>

\* Redis answers an error for INCR or for EXPIRE, and the request is let through; or
\* the pipeline itself is rejected, which nobody catches, and it ends with 500.
RedisFails(r) ==
    LET w == WindowStart(stamp[r]) IN
    /\ failures < MaxFailures
    /\ failures' = failures + 1
    /\ pc[r] = "incr"
    /\ \E counted \in BOOLEAN :
          hits' = IF counted THEN [hits EXCEPT ![w] = @ + 1] ELSE hits
    /\ \/ AdmitByRedis(r, stamp[r])
       \/ Refuse(r, "500") /\ UNCHANGED refusedBy
    /\ UNCHANGED <<deploymentVars, now, row, writerTx, stamp>>

AllAnswered == (\A r \in Requests : pc[r] = "done") /\ UNCHANGED limiterVars

Check(r) ==
    \/ CheckSqlite(r) \/ CheckDuringWriterTx(r)
    \/ StartCheck(r) \/ PgUpdate(r) \/ PgSelect(r) \/ PgInsert(r)
    \/ RedisIncr(r) \/ RedisFails(r)
    \/ CheckFails(r)

LimiterNext == Tick \/ RedisSwitches \/ WriterTx \/ AllAnswered \/ \E r \in Requests : Check(r)

LimiterSpec == LimiterInit /\ [][LimiterNext]_limiterVars

-----------------------------------------------------------------------------
(* Properties.                                                             *)

\* The checks in the window that starts at w, by a history c.
CountIn(c, w) == c[w] + (IF w + 1 \in Time THEN c[w + 1] ELSE 0)

AdmittedIn(w) == CountIn(admitted, w)
RedisAdmittedIn(w) == CountIn(viaRedis, w)

\* "Max requests per window per API key": however the concurrent checks fall, a window
\* admits at most MaxRequests checks unless a store failed.  Not so: see WindowLimit.
AtMostMax ==
    failures = 0 =>
        \A t \in Time : AdmittedIn(WindowStart(t)) + RedisAdmittedIn(WindowStart(t)) <= MaxRequests

\* What is kept of it: each of the two counters, PostgreSQL's and a shared connection's
\* apart, admits at most the limit in a window; the window as a whole does so while Redis
\* neither comes nor goes, and twice the limit else.
WindowLimit ==
    failures = 0 => \A t \in Time :
        LET w == WindowStart(t) IN
        /\ RedisAdmittedIn(w) <= MaxRequests
        /\ store = "sqlite" => AdmittedIn(w) <= MaxRequests
        /\ switches = 0 /\ (store = "sqlite" \/ redis = "up") =>
              AdmittedIn(w) + RedisAdmittedIn(w) <= MaxRequests

\* No premature 429: a check is refused only when the counter it asked has admitted the
\* limit in its window.  Interleaved statements on PostgreSQL do refuse early.
NoPrematureReject ==
    failures = 0 => \A r \in Requests : reply[r] = "429" =>
        LET w == WindowStart(stamp[r]) IN
        /\ refusedBy[r] = "redis" => RedisAdmittedIn(w) >= MaxRequests
        /\ refusedBy[r] = "database" /\ store # "postgres" => AdmittedIn(w) >= MaxRequests

=============================================================================
