----------------------------- MODULE PromptServing -----------------------------
(***************************************************************************)
(* The versions of one prompt in one workspace, as readers get them:       *)
(* PromptService.getPrompt over the cache and the driver, against creates  *)
(* of further versions and promotions of A/B test winners.                 *)
(*                                                                         *)
(* Version tags are numbers in their lexicographic order; a version stands *)
(* for its content, whichever create of it wrote that (PromptRegistry).    *)
(* Two deployments: "local" is SQLite, the filesystem driver and the LRU   *)
(* cache, where a request is one synchronous chain; "networked" is         *)
(* PostgreSQL, S3 and Redis, where every step awaits the network and the   *)
(* service's statements run outside its transactions (PromptRegistry), so  *)
(* that creates of one version overlap.  `turn' is the chain that is still *)
(* running.                                                                *)
(***************************************************************************)
EXTENDS Naturals, FiniteSets, FiniteSetsExt

CONSTANTS
    Versions,     \* version tags
    Calls,        \* POST /v1/prompts: pairs of a version and a number
    Readers,      \* GET /v1/prompts/:name
    Deployments,
    Asked,        \* bound: versions requests name explicitly
    Promotable,   \* bound: versions an A/B test may promote
    MaxCreates,   \* bound: creates under way at once
    MaxFaults,    \* bound: failed steps and Redis outages
    Latest, None, Free

Tag(c) == c[1]

ASSUME ServingAssumption ==
    /\ Versions \subseteq Nat \ {0}
    /\ IsFiniteSet(Versions)
    /\ Deployments \subseteq {"local", "networked"}
    /\ Calls \subseteq Versions \X Nat
    /\ Asked \subseteq Versions /\ Promotable \subseteq Versions
    /\ MaxCreates \in Nat /\ MaxFaults \in Nat
    /\ {Latest, None} \intersect Versions = {} /\ Latest # None
    /\ Readers \intersect Calls = {} /\ Free \notin Calls \union Readers

VARIABLES
    deployment,  \* chosen at start, never changed
    active,      \* versions whose row is active
    pointer,     \* active_version_id of each row
    stored,      \* versions the driver has a content for
    redis, lru,  \* the two caches: key -> version, or None
    redisUp,     \* getRedisClient() returns the client
    reader,      \* requests in progress, and how the last one ended
    create,      \* where each call of createPrompt stands
    doomed,      \* the keys its invalidation is about to delete
    acked,       \* history: versions answered 201
    turn,
    faults

data  == <<active, pointer, stored>>
cache == <<redis, lru, redisUp>>
vars == <<deployment, data, cache, reader, create, doomed, acked, turn, faults>>

CacheKeys == Versions \union {Latest}
Ask == Asked \union {Latest}
Maybe(S) == S \union {None}

\* No request in progress; missing: the last one was told 404.
Idle(missing) ==
    [pc |-> "idle", use |-> Latest, got |-> None, expects |-> FALSE, missing |-> missing]

ReaderSet == [pc : {"idle", "membership", "pointer", "cache", "driver", "fill"},
              use : CacheKeys, got : Maybe(Versions), expects : BOOLEAN,
              missing : BOOLEAN]

TypeOK ==
    /\ deployment \in Deployments
    /\ active \in SUBSET Versions /\ stored \in SUBSET Versions
    /\ pointer \in [Versions -> Maybe(Versions)]
    /\ redis \in [CacheKeys -> Maybe(Versions)] /\ lru \in [CacheKeys -> Maybe(Versions)]
    /\ redisUp \in BOOLEAN
    /\ reader \in [Readers -> ReaderSet]
    /\ create \in [Calls -> {"none", "upsert", "write", "activate", "keys", "del", "done"}]
    /\ doomed \in [Calls -> SUBSET CacheKeys]
    /\ acked \in SUBSET Versions
    /\ turn \in Calls \union Readers \union {Free}
    /\ faults \in 0..MaxFaults

Init ==
    /\ deployment \in Deployments
    /\ active = {} /\ stored = {}
    /\ pointer = [v \in Versions |-> None]
    /\ redis = [k \in CacheKeys |-> None] /\ lru = [k \in CacheKeys |-> None]
    /\ redisUp = (deployment = "networked")
    /\ reader = [r \in Readers |-> Idle(FALSE)]
    /\ create = [c \in Calls |-> "none"]
    /\ doomed = [c \in Calls |-> {}]
    /\ acked = {}
    /\ turn = Free
    /\ faults = 0

Local == deployment = "local"
MayRun(p) == turn \in {Free, p}
Yield(p) == IF Local THEN p ELSE Free
Fault == faults < MaxFaults /\ faults' = faults + 1

-----------------------------------------------------------------------------
(* cache.service.ts                                                        *)

\* The cache a get, a set or an invalidation uses: Redis while its client is ready.
SetIn(k, v) ==
    IF redisUp THEN redis' = [redis EXCEPT ![k] = v] /\ UNCHANGED lru
               ELSE lru' = [lru EXCEPT ![k] = v] /\ UNCHANGED redis

\* A miss in Redis still looks into the LRU.
Lookup(k) == IF redisUp /\ redis[k] # None THEN redis[k] ELSE lru[k]

\* Mutant: the entry is stored without a lifetime.
SetWithoutTtl(k) == FALSE /\ UNCHANGED <<vars>>

\* SETEX: an entry in Redis ends after its 60 s, whoever reads it.
RedisExpires(k) ==
    /\ turn = Free /\ redis[k] # None
    /\ redis' = [redis EXCEPT ![k] = None]
    /\ UNCHANGED <<deployment, data, lru, redisUp, reader, create, doomed, acked, turn, faults>>

\* An entry in the LRU may end too (its TTL, or 500 other prompts), but every hit
\* renews it (updateAgeOnGet): it need not.
LruDrops(k) ==
    /\ turn = Free /\ lru[k] # None
    /\ lru' = [lru EXCEPT ![k] = None]
    /\ UNCHANGED <<deployment, data, redis, redisUp, reader, create, doomed, acked, turn, faults>>

\* The connection to Redis is lost, or comes back.
RedisOutage ==
    /\ ~Local /\ turn = Free
    /\ IF redisUp THEN Fault ELSE UNCHANGED faults
    /\ redisUp' = ~redisUp
    /\ UNCHANGED <<deployment, data, redis, lru, reader, create, doomed, acked, turn>>

-----------------------------------------------------------------------------
(* PromptService.getPrompt                                                 *)

Step(r, pc, use, got) ==
    /\ reader' = [reader EXCEPT ![r] = [@ EXCEPT !.pc = pc, !.use = use, !.got = got]]
    /\ turn' = Yield(r)
Answer(r, missing) ==
    /\ reader' = [reader EXCEPT ![r] = Idle(missing)]
    /\ turn' = Free
NotFound(r) == Answer(r, TRUE)
Ends(r) == Answer(r, FALSE)

Promoted == {v \in Versions : pointer[v] # None}

At(r, step) == reader[r].pc = step /\ MayRun(r)
ServingUnchanged == UNCHANGED <<deployment, data, create, doomed, acked>>

\* The version that was promoted, when only one ever was.
OnlyPromoted == IF Cardinality(Promoted) = 1 THEN CHOOSE v \in Promoted : TRUE ELSE None

\* A request for a version, or for none.  expects records whether such a version had been
\* acknowledged when it came.
Request(r, ask) ==
    /\ turn = Free /\ reader[r].pc = "idle"
    /\ reader' = [reader EXCEPT ![r] =
          [pc |-> "membership", use |-> ask, got |-> None, missing |-> FALSE,
           expects |-> IF ask = Latest THEN acked # {} ELSE ask \in acked]]
    /\ turn' = Yield(r)
    /\ ServingUnchanged
    /\ UNCHANGED <<cache, faults>>

\* Any active version of the prompt lets the request pass, for an explicit version too.
Membership(r) ==
    /\ At(r, "membership")
    /\ IF active = {} THEN NotFound(r)
       ELSE Step(r, IF reader[r].use = Latest THEN "pointer" ELSE "cache", reader[r].use, None)
    /\ ServingUnchanged /\ UNCHANGED <<cache, faults>>

\* active_version_id of whichever active row LIMIT 1 yields, if there is one still.
ActivePointer(r) ==
    /\ At(r, "pointer")
    /\ \/ active = {} /\ Step(r, "cache", Latest, None)
       \/ \E row \in active :
             Step(r, "cache", IF pointer[row] = None THEN Latest ELSE pointer[row], None)
    /\ ServingUnchanged /\ UNCHANGED <<cache, faults>>

CacheKey(r) == reader[r].use

GetCached(r) ==
    LET k == CacheKey(r) IN
    /\ At(r, "cache")
    /\ IF Lookup(k) # None
       THEN Ends(r)
       ELSE Step(r, "driver", reader[r].use, None)
    /\ ServingUnchanged /\ UNCHANGED <<cache, faults>>

\* What the driver takes for the latest version: the filesystem driver the last
\* file name, the S3 driver the first key.
DriverLatest == IF Local THEN Max(stored) ELSE Min(stored)

DriverGet(r) ==
    LET use == reader[r].use IN
    /\ At(r, "driver")
    /\ IF (use = Latest /\ stored = {}) \/ (use # Latest /\ use \notin stored)
       THEN NotFound(r)
       ELSE Step(r, "fill", use, IF use = Latest THEN DriverLatest ELSE use)
    /\ ServingUnchanged /\ UNCHANGED <<cache, faults>>

\* setCachedPrompt stores what was read, however long ago.
Fill(r) ==
    /\ At(r, "fill")
    /\ SetIn(CacheKey(r), reader[r].got)
    /\ Ends(r)
    /\ ServingUnchanged /\ UNCHANGED <<redisUp, faults>>

\* A failing query, Redis command or S3 listing is an error 500; a failing S3 read is
\* taken for a missing prompt.
ReadFails(r) ==
    /\ ~Local /\ MayRun(r) /\ reader[r].pc # "idle"
    /\ reader[r].pc \in {"cache", "fill"} => redisUp
    /\ Fault
    /\ \/ reader[r].pc = "driver" /\ NotFound(r)
       \/ (reader[r].pc = "driver" => reader[r].use = Latest) /\ Ends(r)
    /\ ServingUnchanged /\ UNCHANGED cache

Read(r) == \/ Membership(r) \/ ActivePointer(r) \/ GetCached(r)
           \/ DriverGet(r) \/ Fill(r) \/ ReadFails(r)

-----------------------------------------------------------------------------
(* PromptService.createPrompt                                              *)

CreateAt(c, step) == create[c] = step /\ MayRun(c)
CreateGoto(c, step) ==
    /\ create' = [create EXCEPT ![c] = step]
    /\ turn' = IF step = "done" THEN Free ELSE Yield(c)

Underway == {c \in Calls : create[c] \notin {"none", "done"}}

\* The duplicate check passes: no active row.
CreateBegin(c) ==
    /\ Cardinality(Underway) < MaxCreates
    /\ turn = Free /\ create[c] = "none" /\ Tag(c) \notin active
    /\ CreateGoto(c, "upsert")
    /\ UNCHANGED <<deployment, data, cache, reader, doomed, acked, faults>>

\* The pending row: a row that was activated since the check is pending again.
UpsertPending(c) ==
    /\ CreateAt(c, "upsert")
    /\ active' = active \ {Tag(c)}
    /\ CreateGoto(c, "write")
    /\ UNCHANGED <<deployment, pointer, stored, cache, reader, doomed, acked, faults>>

\* Mutant: the content is written after the call was answered.
WriteDeferred(c) ==
    /\ CreateAt(c, "write")
    /\ CreateGoto(c, "activate")
    /\ UNCHANGED <<deployment, data, cache, reader, doomed, acked, faults>>

WriteContent(c) ==
    /\ CreateAt(c, "write")
    /\ stored' = stored \union {Tag(c)}
    /\ CreateGoto(c, "activate")
    /\ UNCHANGED <<deployment, active, pointer, cache, reader, doomed, acked, faults>>

ActivateRow(c) ==
    /\ CreateAt(c, "activate")
    /\ active' = active \union {Tag(c)}
    /\ CreateGoto(c, "keys")
    /\ UNCHANGED <<deployment, pointer, stored, cache, reader, doomed, acked, faults>>

\* Mutant: nothing is deleted.
InvalidateNothing(c) ==
    /\ CreateAt(c, "keys")
    /\ CreateGoto(c, "done") /\ acked' = acked \union {Tag(c)}
    /\ UNCHANGED <<deployment, data, cache, reader, doomed, faults>>

\* invalidatePrompt: one loop over the LRU, but KEYS and then DEL in Redis, which
\* takes the keys found before.
Invalidate(c) ==
    /\ CreateAt(c, "keys")
    /\ IF redisUp /\ \E k \in CacheKeys : redis[k] # None
       THEN /\ doomed' = [doomed EXCEPT ![c] = {k \in CacheKeys : redis[k] # None}]
            /\ CreateGoto(c, "del")
            /\ UNCHANGED <<lru, acked>>
       ELSE /\ lru' = IF redisUp THEN lru ELSE [k \in CacheKeys |-> None]
            /\ CreateGoto(c, "done")
            /\ acked' = acked \union {Tag(c)}
            /\ UNCHANGED doomed
    /\ UNCHANGED <<deployment, data, redis, redisUp, reader, faults>>

DeleteKeys(c) ==
    /\ CreateAt(c, "del") /\ redisUp
    /\ redis' = [k \in CacheKeys |-> IF k \in doomed[c] THEN None ELSE redis[k]]
    /\ CreateGoto(c, "done")
    /\ doomed' = [doomed EXCEPT ![c] = {}]
    /\ acked' = acked \union {Tag(c)}
    /\ UNCHANGED <<deployment, data, lru, redisUp, reader, faults>>

\* A step fails and the call is answered 500.  The content stays where it is, and so does
\* a version that was active before the cache could be invalidated; a row that was made
\* pending stays so (locally the chain found it not active, and rolls back to that).
CreateFails(c) ==
    /\ MayRun(c) /\ c \in Underway
    /\ create[c] = "keys" => redisUp
    /\ Fault
    /\ \E written \in BOOLEAN :
          stored' = IF create[c] = "write" /\ written THEN stored \union {Tag(c)} ELSE stored
    /\ CreateGoto(c, "done")
    /\ doomed' = [doomed EXCEPT ![c] = {}]
    /\ UNCHANGED <<deployment, active, pointer, cache, reader, acked>>

Create(c) == \/ UpsertPending(c) \/ WriteContent(c) \/ ActivateRow(c)
             \/ Invalidate(c) \/ DeleteKeys(c) \/ CreateFails(c)

-----------------------------------------------------------------------------
\* ABTestService.promoteWinner as a reader sees it: the row of the promoted version
\* points to itself; pointers set before stay (Experiments has the other steps).
PromoteWinner(v) ==
    /\ turn = Free /\ v \in active
    /\ pointer' = [pointer EXCEPT ![v] = v]
    /\ UNCHANGED <<deployment, active, stored, cache, reader, create, doomed, acked, turn, faults>>

Next ==
    \/ RedisOutage \/ \E k \in CacheKeys : RedisExpires(k) \/ LruDrops(k)
    \/ \E r \in Readers : (\E ask \in Ask : Request(r, ask)) \/ Read(r)
    \/ \E c \in Calls : CreateBegin(c) \/ Create(c)
    \/ \E v \in Promotable : PromoteWinner(v)

Spec == Init /\ [][Next]_vars

\* Redis expires an entry when its time is up, and a request in progress goes on; nothing
\* forces a create to go on, a new request, the end of an outage or an expiry in the LRU.
FairSpec == /\ Spec
            /\ WF_vars(RedisExpires(Latest))
            /\ \A r \in Readers : WF_vars(Read(r))

-----------------------------------------------------------------------------
(* Properties.                                                             *)

\* A step, with none that failed so far, in which a reader is told that a prompt is missing
\* of which it expects a version.
ToldMissing(r) ==
    /\ ~reader[r].missing /\ reader'[r].missing
    /\ reader[r].expects
    /\ faults' = 0

\* A create of v has made its row pending, and has not activated it again.
Reset(v) == \E c \in Calls : Tag(c) = v /\ create[c] \in {"write", "activate"}

\* A version that was answered 201 before the request came is not reported missing, however
\* reads, creates, promotions and the cache interleave, unless a step failed; with one
\* exception.  Where creates of one version overlap, one that passed its duplicate check
\* before the other activated the row takes the row back to pending: a reader is told 404
\* while that is so of every version of the prompt that was answered 201.  It never is in
\* the local deployment.
AckedIsFound ==
    [][\A r \in Readers : ToldMissing(r) => ~Local /\ \A v \in acked : Reset(v)]_vars

\* Without the exception.  Refuted: create 1, create 1 again (both pass the check), the
\* first is answered 201, the second upserts, a reader comes.
AckedIsAlwaysFound == [][\A r \in Readers : ~ToldMissing(r)]_vars

\* In the local deployment a cached `latest' is never older than a version that was
\* answered 201: no fill outlives an invalidation.
CacheIsFresh ==
    Local /\ turn = Free /\ lru[Latest] # None => \A v \in acked : lru[Latest] >= v

\* "getPrompt active_version subquery now filters for active_version_id IS NOT NULL,
\* preventing wrong version from being served" (README.md): once one version has been
\* promoted, an unversioned read goes on with that version.
PromotedIsServed ==
    [][\A r \in Readers :
          reader[r].pc = "pointer" /\ reader'[r].pc = "cache" /\ OnlyPromoted # None
              => reader'[r].use = OnlyPromoted]_vars

\* A `latest' entry that another version outdated, put there by a fill that raced with
\* an invalidation or left by one that failed, does not last: when no more content is
\* written, Redis ends up without one however many readers keep asking for it.
StaleInRedis == redis[Latest] # None /\ stored # {} /\ redis[Latest] # DriverLatest
StalenessHeals == ~Local => <>[]~StaleInRedis
=============================================================================
