-------------------------- MODULE PromptServing_proofs --------------------------
(***************************************************************************)
(* PromptServing, for any number of versions, readers, faults and outages. *)
(*                                                                         *)
(* What a reader goes on with is a version the driver has: the one it      *)
(* expects, or one that was promoted.  Until a step fails, an acknowledged *)
(* version is active, or a create of it is about to activate it again.  In *)
(* the local deployment a request runs through: no create is half way, and *)
(* nothing is acknowledged between the read of the latest                  *)
(* version and its fill of the cache.                                      *)
(***************************************************************************)
EXTENDS PromptServing, FiniteSetTheorems, TLAPS

\* A version is acknowledged after its content is stored.
InOrder ==
    /\ acked \subseteq stored /\ active \subseteq stored /\ stored \subseteq Versions
    /\ DOMAIN create = Calls /\ DOMAIN pointer = Versions
    /\ \A c \in Calls : create[c] \in {"activate", "keys", "del"} => Tag(c) \in stored
    /\ \A v \in Versions : pointer[v] # None => pointer[v] \in stored

\* What was activated, for its create or for its client, is active or will be again.
Live(v) == v \in active \/ Reset(v)
Activated == acked \union {Tag(c) : c \in {d \in Calls : create[d] \in {"keys", "del"}}}
AllLive == faults = 0 => \A v \in Activated : Live(v)

\* The state of a reader, and what it may expect and goes on with: p is its step, u what it
\* looks up, e whether it expects a version, m whether the last one was missing; ac and st
\* are the versions acknowledged and stored.
Rec(p, u, g, e, m) == [pc |-> p, use |-> u, got |-> g, expects |-> e, missing |-> m]

Expects(p, u, e, ac, st) ==
    e => /\ ac # {}
         /\ p # "idle" => u \in st \union {Latest}

FoundInv ==
    /\ InOrder
    /\ AllLive
    /\ faults \in Nat
    /\ DOMAIN reader = Readers
    /\ \A r \in Readers : \E p, u, g, e, m :
          reader[r] = Rec(p, u, g, e, m) /\ Expects(p, u, e, acked, stored)

\* In the local deployment one chain runs, and what it fills in as the latest is the latest.
OneChain ==
    /\ \A r \in Readers : reader[r].pc # "idle" => turn = r
    /\ \A c \in Underway : turn = c

AtLeastAcked(n) == \A v \in acked : n >= v

FreshInv ==
    Local =>
        /\ ~redisUp /\ OneChain /\ DOMAIN lru = CacheKeys
        /\ \A r \in Readers : reader[r].pc = "fill" /\ reader[r].use = Latest => AtLeastAcked(reader[r].got)
        /\ lru[Latest] # None => AtLeastAcked(lru[Latest])

-----------------------------------------------------------------------------
\* A finite set of numbers has a greatest one: of the sets of what is above each of its
\* members one is minimal, and that is empty.
LEMMA MaxOf ==
    ASSUME NEW S, IsFiniteSet(S), S # {}, S \subseteq Nat
    PROVE  Max(S) \in S /\ \A y \in S : Max(S) >= y
<1> DEFINE Above(x) == {y \in S : y > x}
           All == {Above(x) : x \in S}
<1>1. IsWellFoundedOn(StrictSubsetOrdering(S), FiniteSubsetsOf(S))
  BY FS_StrictSubsetOrderingWellFounded
<1>2. All \subseteq FiniteSubsetsOf(S) /\ All # {}
  <2>1. FiniteSubsetsOf(S) = SUBSET S
    BY FS_FiniteSubsetsOfFinite
  <2>2. \A x \in S : Above(x) \in SUBSET S
    OBVIOUS
  <2>3. All \subseteq SUBSET S
    BY <2>2
  <2>4. PICK x \in S : TRUE
    OBVIOUS
  <2>5. Above(x) \in All
    OBVIOUS
  <2> QED BY <2>1, <2>3, <2>5
<1>3. PICK least \in All : \A T \in All : ~(<<T, least>> \in StrictSubsetOrdering(S))
  <2> HIDE DEF All
  <2> QED BY <1>1, <1>2, WFMin
<1>4. PICK m \in S : least = Above(m)
  OBVIOUS
<1>5. \A y \in S : m >= y
  <2> SUFFICES ASSUME NEW y \in S, ~(m >= y) PROVE FALSE
    OBVIOUS
  <2>1. m \in Nat /\ y \in Nat
    OBVIOUS
  <2>2. y > m
    BY <2>1
  <2>3. y \in Above(m) /\ y \notin Above(y)
    BY <2>1, <2>2
  <2>4. Above(y) \subseteq Above(m)
    <3> SUFFICES ASSUME NEW z \in S, z > y PROVE z > m
      OBVIOUS
    <3>1. z \in Nat
      OBVIOUS
    <3> QED BY <2>1, <2>2, <3>1
  <2>5. <<Above(y), Above(m)>> \in StrictSubsetOrdering(S)
    BY <2>3, <2>4 DEF StrictSubsetOrdering
  <2> QED BY <1>3, <1>4, <2>5
<1> QED BY <1>5 DEF Max

-----------------------------------------------------------------------------
LEMMA RecHas ==
    \A p, u, g, e, m :
        LET rec == Rec(p, u, g, e, m) IN
        rec.pc = p /\ rec.use = u /\ rec.got = g /\ rec.expects = e /\ rec.missing = m
  BY DEF Rec

\* The state of a reader.
LEMMA ReaderIs ==
    ASSUME FoundInv, NEW r \in Readers
    PROVE  \E u, g, e, m : /\ reader[r] = Rec(reader[r].pc, u, g, e, m)
                           /\ Expects(reader[r].pc, u, e, acked, stored)
                           /\ reader[r].use = u /\ reader[r].got = g /\ reader[r].expects = e
<1>1. PICK p, u, g, e, m : reader[r] = Rec(p, u, g, e, m) /\ Expects(p, u, e, acked, stored)
  BY DEF FoundInv
<1>2. reader[r].pc = p /\ reader[r].use = u /\ reader[r].got = g /\ reader[r].expects = e
  BY <1>1, RecHas
<1> QED BY <1>1, <1>2

Becomes(r, rec) == reader' = [reader EXCEPT ![r] = rec]

LEMMA StepIs ==
    ASSUME FoundInv, NEW r \in Readers, NEW q, NEW v, NEW h, Step(r, q, v, h),
           NEW p, NEW u, NEW g, NEW e, NEW m, reader[r] = Rec(p, u, g, e, m)
    PROVE  Becomes(r, Rec(q, v, h, e, m)) /\ turn' = Yield(r)
<1>1. PICK rec : rec = Rec(p, u, g, e, m)
  OBVIOUS
<1>2. [rec EXCEPT !.pc = q, !.use = v, !.got = h] = Rec(q, v, h, e, m)
  <2>1. [rec EXCEPT !.pc = q, !.use = v, !.got = h]
          = [[[rec EXCEPT !.pc = q] EXCEPT !.use = v] EXCEPT !.got = h]
    OBVIOUS
  <2>2. [Rec(p, u, g, e, m) EXCEPT !.pc = q] = Rec(q, u, g, e, m)
    BY DEF Rec
  <2>3. [Rec(q, u, g, e, m) EXCEPT !.use = v] = Rec(q, v, g, e, m)
    BY DEF Rec
  <2>4. [Rec(q, v, g, e, m) EXCEPT !.got = h] = Rec(q, v, h, e, m)
    BY DEF Rec
  <2> QED BY <1>1, <2>1, <2>2, <2>3, <2>4
<1>3. r \in DOMAIN reader
  BY DEF FoundInv
<1> QED BY <1>1, <1>2, <1>3 DEF Step, Becomes

LEMMA AnswerIs ==
    ASSUME FoundInv, NEW r \in Readers, NEW t, Answer(r, t)
    PROVE  Becomes(r, Rec("idle", Latest, None, FALSE, t)) /\ turn' = Free
  BY DEF Answer, Becomes, Idle, Rec

\* A request that ends expects nothing any more.
LEMMA EndedExpects == Expects("idle", Latest, FALSE, acked, stored)
  BY DEF Expects

\* A step of reader r.
LEMMA ReaderMoves ==
    ASSUME FoundInv, NEW r \in Readers,
           NEW p, NEW u, NEW g, NEW e, NEW m, Becomes(r, Rec(p, u, g, e, m)),
           Expects(p, u, e, acked, stored),
           UNCHANGED <<active, pointer, stored, create, acked>>,
           faults' \in Nat, faults' = 0 => faults = 0
    PROVE  FoundInv'
<1>1. InOrder' /\ AllLive'
  BY DEF FoundInv, InOrder, AllLive, Activated, Live, Reset
<1>2. DOMAIN reader' = Readers
  BY DEF FoundInv, Becomes
<1>3. ASSUME NEW q \in Readers
      PROVE  \E p1, u1, g1, e1, m1 :
               reader'[q] = Rec(p1, u1, g1, e1, m1) /\ Expects(p1, u1, e1, acked', stored')
  <2>1. CASE q = r
    BY <2>1 DEF FoundInv, Becomes
  <2>2. CASE q # r
    <3>1. reader'[q] = reader[q]
      BY <2>2 DEF FoundInv, Becomes
    <3> QED BY <3>1 DEF FoundInv
  <2> QED BY <2>1, <2>2
<1> QED BY <1>1, <1>2, <1>3 DEF FoundInv

\* A step of no reader: what they expect and go on with only becomes more.
LEMMA ReadersRest ==
    ASSUME FoundInv, UNCHANGED reader, InOrder', AllLive',
           acked \subseteq acked', stored \subseteq stored', faults' \in Nat
    PROVE  FoundInv'
<1>1. ASSUME NEW q \in Readers
      PROVE  \E p, u, g, e, m :
               reader'[q] = Rec(p, u, g, e, m) /\ Expects(p, u, e, acked', stored')
  <2>1. PICK p, u, g, e, m : reader[q] = Rec(p, u, g, e, m) /\ Expects(p, u, e, acked, stored)
    BY DEF FoundInv
  <2>2. Expects(p, u, e, acked', stored')
    BY <2>1 DEF Expects
  <2> QED BY <2>1, <2>2
<1> QED BY <1>1 DEF FoundInv

-----------------------------------------------------------------------------
(* Readers: a version that is expected is found.                            *)

LEMMA RequestFinds ==
    ASSUME FoundInv, NEW r \in Readers, NEW ask \in Ask, Request(r, ask) PROVE FoundInv'
<1>1. PICK e : /\ e = IF ask = Latest THEN acked # {} ELSE ask \in acked
               /\ Becomes(r, Rec("membership", ask, None, e, FALSE))
  <2>1. PICK e : e = IF ask = Latest THEN acked # {} ELSE ask \in acked
    OBVIOUS
  <2> QED BY <2>1 DEF Request, Becomes, Rec
<1>2. UNCHANGED <<active, pointer, stored, create, acked, faults>>
  BY DEF Request, ServingUnchanged, data
<1>3. Expects("membership", ask, e, acked, stored)
  BY <1>1 DEF Expects, FoundInv, InOrder
<1> QED BY <1>1, <1>2, <1>3, ReaderMoves DEF FoundInv

LEMMA MembershipFinds == ASSUME FoundInv, NEW r \in Readers, Membership(r) PROVE FoundInv'
<1>1. UNCHANGED <<active, pointer, stored, create, acked, faults>> /\ reader[r].pc = "membership"
  BY DEF Membership, ServingUnchanged, data, At
<1>2. PICK u, g, e, m : /\ reader[r] = Rec("membership", u, g, e, m)
                        /\ Expects("membership", u, e, acked, stored)
                        /\ reader[r].use = u
  BY <1>1, ReaderIs
<1>3. faults \in Nat
  BY DEF FoundInv
<1>4. CASE active = {}
  BY <1>1, <1>3, <1>4, AnswerIs, EndedExpects, ReaderMoves DEF Membership, NotFound
<1>5. CASE active # {}
  <2>1. PICK q : Step(r, q, u, None) /\ q = IF u = Latest THEN "pointer" ELSE "cache"
    BY <1>2, <1>5 DEF Membership
  <2>2. Becomes(r, Rec(q, u, None, e, m))
    BY <1>2, <2>1, StepIs
  <2>3. Expects(q, u, e, acked, stored)
    BY <1>2 DEF Expects
  <2> QED BY <1>1, <1>3, <2>2, <2>3, ReaderMoves
<1> QED BY <1>4, <1>5

\* What was promoted is stored.
LEMMA ActivePointerFinds == ASSUME FoundInv, NEW r \in Readers, ActivePointer(r) PROVE FoundInv'
<1>1. UNCHANGED <<active, pointer, stored, create, acked, faults>> /\ reader[r].pc = "pointer"
  BY DEF ActivePointer, ServingUnchanged, data, At
<1>2. PICK u, g, e, m : /\ reader[r] = Rec("pointer", u, g, e, m)
                        /\ Expects("pointer", u, e, acked, stored)
  BY <1>1, ReaderIs
<1>3. InOrder /\ faults \in Nat
  BY DEF FoundInv
<1>4. PICK v : Step(r, "cache", v, None) /\ v \in stored \union {Latest}
  <2>1. CASE Step(r, "cache", Latest, None)
    BY <2>1
  <2>2. ASSUME NEW row \in active, NEW v, v = IF pointer[row] = None THEN Latest ELSE pointer[row]
        PROVE  v \in stored \union {Latest}
    BY <1>3, <2>2 DEF InOrder
  <2> QED BY <2>1, <2>2 DEF ActivePointer
<1>5. Becomes(r, Rec("cache", v, None, e, m))
  BY <1>2, <1>4, StepIs
<1>6. Expects("cache", v, e, acked, stored)
  BY <1>2, <1>4 DEF Expects
<1> QED BY <1>1, <1>3, <1>5, <1>6, ReaderMoves

LEMMA GetCachedFinds == ASSUME FoundInv, NEW r \in Readers, GetCached(r) PROVE FoundInv'
<1>1. UNCHANGED <<active, pointer, stored, create, acked, faults>> /\ reader[r].pc = "cache"
  BY DEF GetCached, ServingUnchanged, data, At
<1>2. PICK u, g, e, m : /\ reader[r] = Rec("cache", u, g, e, m)
                        /\ Expects("cache", u, e, acked, stored)
                        /\ reader[r].use = u
  BY <1>1, ReaderIs
<1>3. faults \in Nat
  BY DEF FoundInv
<1>4. Answer(r, FALSE) \/ Step(r, "driver", u, None)
  BY <1>2 DEF GetCached, Ends
<1>5. CASE Answer(r, FALSE)
  BY <1>1, <1>3, <1>5, AnswerIs, EndedExpects, ReaderMoves
<1>6. CASE Step(r, "driver", u, None)
  <2>1. Becomes(r, Rec("driver", u, None, e, m))
    BY <1>2, <1>6, StepIs
  <2>2. Expects("driver", u, e, acked, stored)
    BY <1>2 DEF Expects
  <2> QED BY <1>1, <1>3, <2>1, <2>2, ReaderMoves
<1> QED BY <1>4, <1>5, <1>6

LEMMA DriverGetFinds == ASSUME FoundInv, NEW r \in Readers, DriverGet(r) PROVE FoundInv'
<1>1. UNCHANGED <<active, pointer, stored, create, acked, faults>> /\ reader[r].pc = "driver"
  BY DEF DriverGet, ServingUnchanged, data, At
<1>2. PICK u, g, e, m : /\ reader[r] = Rec("driver", u, g, e, m)
                        /\ Expects("driver", u, e, acked, stored)
                        /\ reader[r].use = u
  BY <1>1, ReaderIs
<1>3. faults \in Nat
  BY DEF FoundInv
<1>4. CASE (u = Latest /\ stored = {}) \/ (u # Latest /\ u \notin stored)
  <2>1. Answer(r, TRUE)
    BY <1>2, <1>4 DEF DriverGet, NotFound
  <2> QED BY <1>1, <1>3, <2>1, AnswerIs, EndedExpects, ReaderMoves
<1>5. CASE ~((u = Latest /\ stored = {}) \/ (u # Latest /\ u \notin stored))
  <2>1. PICK v : Step(r, "fill", u, v)
    BY <1>2, <1>5 DEF DriverGet
  <2>2. Becomes(r, Rec("fill", u, v, e, m))
    BY <1>2, <2>1, StepIs
  <2>3. Expects("fill", u, e, acked, stored)
    BY <1>2 DEF Expects
  <2> QED BY <1>1, <1>3, <2>2, <2>3, ReaderMoves
<1> QED BY <1>4, <1>5

LEMMA FillFinds == ASSUME FoundInv, NEW r \in Readers, Fill(r) PROVE FoundInv'
<1>1. UNCHANGED <<active, pointer, stored, create, acked, faults>> /\ faults \in Nat
  BY DEF Fill, ServingUnchanged, data, FoundInv
<1>2. Answer(r, FALSE)
  BY DEF Fill, Ends
<1> QED BY <1>1, <1>2, AnswerIs, EndedExpects, ReaderMoves

LEMMA ReadFailsFinds == ASSUME FoundInv, NEW r \in Readers, ReadFails(r) PROVE FoundInv'
<1>1. UNCHANGED <<active, pointer, stored, create, acked>> /\ faults' = faults + 1
  BY DEF ReadFails, ServingUnchanged, data, Fault
<1>2. faults' \in Nat /\ faults' # 0
  BY <1>1 DEF FoundInv
<1>3. PICK t : Answer(r, t)
  BY DEF ReadFails, NotFound, Ends
<1> QED BY <1>1, <1>2, <1>3, AnswerIs, EndedExpects, ReaderMoves

-----------------------------------------------------------------------------
(* Creates: a version is acknowledged last.                                 *)

\* A step of create c.
LEMMA CreateMoves ==
    ASSUME InOrder, NEW c \in Calls, NEW step, create' = [create EXCEPT ![c] = step],
           UNCHANGED pointer, stored' \in {stored, stored \union {Tag(c)}},
           active' \subseteq stored', acked' \subseteq stored',
           step \in {"activate", "keys", "del"} => Tag(c) \in stored'
    PROVE  InOrder' /\ Tag(c) \in Versions
<1>1. Tag(c) \in Versions
  BY ServingAssumption DEF Tag
<1>2. stored \subseteq stored' /\ stored' \subseteq Versions
  BY <1>1 DEF InOrder
<1>3. \A d \in Calls : create'[d] \in {"activate", "keys", "del"} => Tag(d) \in stored'
  BY <1>2 DEF InOrder
<1> QED BY <1>1, <1>2, <1>3 DEF InOrder

\* The same of what is live: step is where c goes.
LEMMA CreateLives ==
    ASSUME FoundInv, NEW c \in Calls, NEW step, create' = [create EXCEPT ![c] = step],
           active \ {Tag(c)} \subseteq active', acked' \subseteq acked \union {Tag(c)},
           UNCHANGED faults,
           \/ step = "upsert" /\ UNCHANGED <<active, acked>> /\ create[c] \notin {"write", "activate"}
           \/ step \in {"write", "activate"} /\ UNCHANGED acked
           \/ step = "keys" /\ Tag(c) \in active'
           \/ step \in {"del", "done"} /\ create[c] \in {"keys", "del"} /\ UNCHANGED active
    PROVE  AllLive'
<1> SUFFICES ASSUME faults = 0, NEW v \in Activated' PROVE Live(v)'
  BY DEF AllLive
<1>0. DOMAIN create = Calls /\ AllLive
  BY DEF FoundInv, InOrder
<1>1. CASE step \in {"write", "activate"} /\ v = Tag(c)
  BY <1>0, <1>1 DEF Live, Reset
<1>2. CASE step = "keys" /\ v = Tag(c)
  BY <1>2 DEF Live
<1>3. CASE v # Tag(c) \/ step \in {"upsert", "del", "done"}
  <2>1. v \in Activated
    <3>1. CASE v \in acked'
      BY <1>0, <1>3, <3>1 DEF Activated
    <3>2. CASE v \notin acked'
      <4>1. PICK d \in Calls : create'[d] \in {"keys", "del"} /\ Tag(d) = v
        BY <3>2 DEF Activated
      <4>2. create[d] \in {"keys", "del"}
        BY <1>0, <1>3, <4>1
      <4> QED BY <4>1, <4>2 DEF Activated
    <3> QED BY <3>1, <3>2
  <2>2. Live(v)
    BY <1>0, <2>1 DEF AllLive
  <2>3. CASE v \in active
    BY <1>3, <2>3 DEF Live
  <2>4. CASE Reset(v)
    <3>1. PICK d \in Calls : Tag(d) = v /\ create[d] \in {"write", "activate"}
      BY <2>4 DEF Reset
    <3>2. d # c
      BY <1>3, <3>1
    <3> QED BY <1>0, <3>1, <3>2 DEF Live, Reset
  <2> QED BY <2>2, <2>3, <2>4 DEF Live
<1> QED BY <1>1, <1>2, <1>3

LEMMA CreatesFind ==
    ASSUME FoundInv, NEW c \in Calls, CreateBegin(c) \/ Create(c) PROVE FoundInv'
<1>1. InOrder /\ faults \in Nat
  BY DEF FoundInv
<1>2. CASE CreateBegin(c)
  <2>1. /\ create' = [create EXCEPT ![c] = "upsert"] /\ create[c] = "none"
        /\ UNCHANGED <<active, pointer, stored, acked, reader, faults>>
    BY <1>2 DEF CreateBegin, CreateGoto, data
  <2>2. InOrder'
    BY <1>1, <2>1, CreateMoves DEF InOrder
  <2>3. AllLive'
    BY <2>1, CreateLives
  <2> QED BY <1>1, <2>1, <2>2, <2>3, ReadersRest
<1>3. CASE UpsertPending(c)
  <2>1. /\ create' = [create EXCEPT ![c] = "write"] /\ active' = active \ {Tag(c)}
        /\ UNCHANGED <<pointer, stored, acked, reader, faults>>
    BY <1>3 DEF UpsertPending, CreateGoto
  <2>2. InOrder'
    BY <1>1, <2>1, CreateMoves DEF InOrder
  <2>3. AllLive'
    BY <2>1, CreateLives
  <2> QED BY <1>1, <2>1, <2>2, <2>3, ReadersRest
<1>4. CASE WriteContent(c)
  <2>1. /\ create' = [create EXCEPT ![c] = "activate"] /\ stored' = stored \union {Tag(c)}
        /\ UNCHANGED <<active, pointer, acked, reader, faults>>
    BY <1>4 DEF WriteContent, CreateGoto
  <2>2. InOrder'
    BY <1>1, <2>1, CreateMoves DEF InOrder
  <2>3. AllLive'
    BY <2>1, CreateLives
  <2> QED BY <1>1, <2>1, <2>2, <2>3, ReadersRest
<1>5. CASE ActivateRow(c)
  <2>1. /\ create[c] = "activate" /\ create' = [create EXCEPT ![c] = "keys"]
        /\ active' = active \union {Tag(c)}
        /\ UNCHANGED <<pointer, stored, acked, reader, faults>>
    BY <1>5 DEF ActivateRow, CreateAt, CreateGoto
  <2>2. Tag(c) \in stored
    BY <1>1, <2>1 DEF InOrder
  <2>3. InOrder'
    BY <1>1, <2>1, <2>2, CreateMoves DEF InOrder
  <2>4. AllLive'
    BY <2>1, CreateLives
  <2> QED BY <1>1, <2>1, <2>3, <2>4, ReadersRest
<1>6. CASE Invalidate(c) \/ DeleteKeys(c)
  <2>1. /\ create[c] \in {"keys", "del"}
        /\ UNCHANGED <<active, pointer, stored, reader, faults>>
    BY <1>6 DEF Invalidate, DeleteKeys, CreateAt, data
  <2>2. PICK step \in {"del", "done"} : create' = [create EXCEPT ![c] = step]
    BY <1>6 DEF Invalidate, DeleteKeys, CreateGoto
  <2>3. acked' = acked \/ acked' = acked \union {Tag(c)}
    BY <1>6 DEF Invalidate, DeleteKeys
  <2>4. Tag(c) \in stored
    BY <1>1, <2>1 DEF InOrder
  <2>5. InOrder'
    BY <1>1, <2>1, <2>2, <2>3, <2>4, CreateMoves DEF InOrder
  <2>6. AllLive'
    BY <2>1, <2>2, <2>3, CreateLives
  <2> QED BY <1>1, <2>1, <2>3, <2>5, <2>6, ReadersRest
<1>7. CASE CreateFails(c)
  <2>1. /\ create' = [create EXCEPT ![c] = "done"] /\ faults' = faults + 1
        /\ stored' = stored \/ stored' = stored \union {Tag(c)}
        /\ UNCHANGED <<active, pointer, acked, reader>>
    BY <1>7 DEF CreateFails, Fault, CreateGoto
  <2>2. InOrder'
    BY <1>1, <2>1, CreateMoves DEF InOrder
  <2>3. faults' \in Nat /\ faults' # 0
    BY <1>1, <2>1
  <2> QED BY <1>1, <2>1, <2>2, <2>3, ReadersRest DEF AllLive
<1> QED BY <1>2, <1>3, <1>4, <1>5, <1>6, <1>7 DEF Create

\* Steps of the caches, of promotions and of nobody.
LEMMA OthersFind ==
    ASSUME FoundInv,
           \/ RedisOutage \/ \E k \in CacheKeys : RedisExpires(k) \/ LruDrops(k)
           \/ \E v \in Promotable : PromoteWinner(v)
           \/ UNCHANGED vars
    PROVE  FoundInv'
<1>1. /\ UNCHANGED <<active, stored, create, acked, reader>>
      /\ faults' = faults \/ faults' = faults + 1
  BY DEF RedisOutage, RedisExpires, LruDrops, PromoteWinner, Fault, data, vars
<1>2. pointer' = pointer \/ \E v \in active : pointer' = [pointer EXCEPT ![v] = v]
  BY DEF RedisOutage, RedisExpires, LruDrops, PromoteWinner, data, vars
<1>3. InOrder'
  BY <1>1, <1>2 DEF FoundInv, InOrder
<1>4. faults' \in Nat /\ (faults' = 0 => faults = 0)
  BY <1>1 DEF FoundInv
<1>5. AllLive'
  BY <1>1, <1>4 DEF FoundInv, AllLive, Activated, Live, Reset
<1> QED BY <1>1, <1>3, <1>4, <1>5, ReadersRest

\* FoundInv is an invariant.
THEOREM FoundInvIsInvariant == Spec => []FoundInv
<1>1. Init => FoundInv
  <2> SUFFICES ASSUME Init PROVE FoundInv
    OBVIOUS
  <2>1. \A r \in Readers : reader[r] = Rec("idle", Latest, None, FALSE, FALSE)
    BY DEF Init, Idle, Rec
  <2>2. Expects("idle", Latest, FALSE, acked, stored)
    BY EndedExpects
  <2>3. AllLive
    BY DEF Init, AllLive, Activated
  <2> QED BY <2>1, <2>2, <2>3 DEF Init, FoundInv, InOrder
<1>2. FoundInv /\ [Next]_vars => FoundInv'
  <2> SUFFICES ASSUME FoundInv, [Next]_vars PROVE FoundInv'
    OBVIOUS
  <2>1. ASSUME NEW r \in Readers, (\E ask \in Ask : Request(r, ask)) \/ Read(r) PROVE FoundInv'
    BY <2>1, RequestFinds, MembershipFinds, ActivePointerFinds, GetCachedFinds, DriverGetFinds,
       FillFinds, ReadFailsFinds DEF Read
  <2>2. ASSUME NEW c \in Calls, CreateBegin(c) \/ Create(c) PROVE FoundInv'
    BY <2>2, CreatesFind
  <2> QED BY <2>1, <2>2, OthersFind DEF Next
<1> QED BY <1>1, <1>2, PTL DEF Spec

-----------------------------------------------------------------------------
(* The local deployment: a cached latest is not older than what was acked.  *)

\* A step of reader r: nobody else is half way.
LEMMA LocalReader ==
    ASSUME FoundInv, FreshInv, Local, NEW r \in Readers, MayRun(r),
           NEW p, NEW u, NEW g, NEW e, NEW m, Becomes(r, Rec(p, u, g, e, m)),
           p # "idle" => turn' = r,
           UNCHANGED <<deployment, acked, create, redisUp>>,
           DOMAIN lru' = CacheKeys,
           p = "fill" /\ u = Latest => AtLeastAcked(g),
           lru'[Latest] # None => AtLeastAcked(lru'[Latest])
    PROVE  FreshInv'
<1>1. r \notin Calls /\ turn \in {Free, r} /\ Free \notin Readers \union Calls
  BY ServingAssumption DEF MayRun
<1>2. reader'[r] = Rec(p, u, g, e, m) /\ \A q \in Readers \ {r} : reader'[q] = reader[q]
  BY DEF FoundInv, Becomes
<1>3. reader'[r].pc = p /\ reader'[r].use = u /\ reader'[r].got = g
  BY <1>2, RecHas
<1>4. OneChain'
  <2>1. \A q \in Readers \ {r} : reader'[q].pc = "idle"
    BY <1>1, <1>2 DEF FreshInv, OneChain
  <2>2. Underway = {} /\ Underway' = Underway
    BY <1>1 DEF FreshInv, OneChain, Underway
  <2> QED BY <1>3, <2>1, <2>2 DEF OneChain
<1>5. ASSUME NEW q \in Readers, reader'[q].pc = "fill", reader'[q].use = Latest
      PROVE  AtLeastAcked(reader'[q].got)
  <2>1. q = r
    BY <1>1, <1>2, <1>5 DEF FreshInv, OneChain
  <2> QED BY <1>3, <1>5, <2>1
<1> QED BY <1>4, <1>5 DEF FreshInv, Local, AtLeastAcked

\* The steps of a reader that leave the cache alone.
LEMMA ReadsFresh ==
    ASSUME FoundInv, FreshInv, Local, NEW r \in Readers,
           \/ \E ask \in Ask : Request(r, ask)
           \/ Membership(r) \/ ActivePointer(r) \/ GetCached(r)
    PROVE  FreshInv'
<1>1. UNCHANGED <<deployment, acked, create, redisUp, lru>> /\ MayRun(r)
  BY DEF Request, Membership, ActivePointer, GetCached, ServingUnchanged, At, MayRun, cache
<1>2. PICK p, u, g, e, m : /\ Becomes(r, Rec(p, u, g, e, m)) /\ p # "fill"
                           /\ p # "idle" => turn' = r
  <2>1. CASE \E ask \in Ask : Request(r, ask)
    <3>1. PICK ask \in Ask : Request(r, ask)
      BY <2>1
    <3>2. PICK e : Becomes(r, Rec("membership", ask, None, e, FALSE))
      BY <3>1 DEF Request, Becomes, Rec
    <3>3. turn' = r
      BY <3>1 DEF Request, Yield
    <3> QED BY <3>2, <3>3
  <2>2. CASE Membership(r) \/ ActivePointer(r) \/ GetCached(r)
    <3>1. CASE \E t : Answer(r, t)
      <4>1. PICK t : Becomes(r, Rec("idle", Latest, None, FALSE, t))
        BY <3>1, AnswerIs
      <4> QED BY <4>1
    <3>2. ASSUME NEW q \in {"pointer", "cache", "driver"}, NEW v, NEW h, Step(r, q, v, h)
          PROVE  \E p, u, g, e, m : /\ Becomes(r, Rec(p, u, g, e, m)) /\ p # "fill"
                                    /\ p # "idle" => turn' = r
      <4>1. PICK p, u, g, e, m : reader[r] = Rec(p, u, g, e, m)
        BY ReaderIs
      <4>2. Becomes(r, Rec(q, v, h, e, m)) /\ turn' = r
        BY <3>2, <4>1, StepIs DEF Yield
      <4> QED BY <4>2
    <3>3. Membership(r) => \/ \E t : Answer(r, t)
                           \/ \E q \in {"pointer", "cache"} : \E v, h : Step(r, q, v, h)
      BY DEF Membership, NotFound
    <3>4. ActivePointer(r) => \E v, h : Step(r, "cache", v, h)
      BY DEF ActivePointer
    <3>5. GetCached(r) => (\E t : Answer(r, t)) \/ \E v, h : Step(r, "driver", v, h)
      BY DEF GetCached, Ends
    <3> QED BY <2>2, <3>1, <3>2, <3>3, <3>4, <3>5
  <2> QED BY <2>1, <2>2
<1>3. DOMAIN lru = CacheKeys /\ (lru[Latest] # None => AtLeastAcked(lru[Latest]))
  BY DEF FreshInv
<1> QED BY <1>1, <1>2, <1>3, LocalReader

\* What the driver takes for the latest is at least what was acknowledged, which is stored.
LEMMA DriverGetFresh ==
    ASSUME FoundInv, FreshInv, Local, NEW r \in Readers, DriverGet(r) PROVE FreshInv'
<1>1. UNCHANGED <<deployment, acked, create, redisUp, lru>> /\ MayRun(r)
  BY DEF DriverGet, ServingUnchanged, At, cache
<1>2. DOMAIN lru = CacheKeys /\ (lru[Latest] # None => AtLeastAcked(lru[Latest]))
  BY DEF FreshInv
<1>3. PICK p, u, g, e, m : reader[r] = Rec(p, u, g, e, m) /\ reader[r].use = u
  BY ReaderIs
<1>4. CASE (u = Latest /\ stored = {}) \/ (u # Latest /\ u \notin stored)
  <2>1. Becomes(r, Rec("idle", Latest, None, FALSE, TRUE))
    BY <1>3, <1>4, AnswerIs DEF DriverGet, NotFound
  <2> QED BY <1>1, <1>2, <2>1, LocalReader
<1>5. CASE ~((u = Latest /\ stored = {}) \/ (u # Latest /\ u \notin stored))
  <2>1. PICK v : /\ Step(r, "fill", u, v)
                 /\ u = Latest => v = Max(stored) /\ stored # {}
    BY <1>3, <1>5 DEF DriverGet, DriverLatest
  <2>2. Becomes(r, Rec("fill", u, v, e, m)) /\ turn' = r
    BY <1>3, <2>1, StepIs DEF Yield
  <2>3. acked \subseteq stored /\ IsFiniteSet(stored) /\ stored \subseteq Nat
    BY ServingAssumption, FS_Subset DEF FoundInv, InOrder
  <2>4. u = Latest => AtLeastAcked(v)
    BY <2>1, <2>3, MaxOf DEF AtLeastAcked
  <2> QED BY <1>1, <1>2, <2>2, <2>4, LocalReader
<1> QED BY <1>4, <1>5

LEMMA FillFresh ==
    ASSUME FoundInv, FreshInv, Local, NEW r \in Readers, Fill(r) PROVE FreshInv'
<1>1. /\ UNCHANGED <<deployment, acked, create, redisUp>> /\ MayRun(r)
      /\ reader[r].pc = "fill"
  BY DEF Fill, ServingUnchanged, At
<1>2. PICK p, u, g, e, m : /\ reader[r] = Rec(p, u, g, e, m)
                           /\ reader[r].use = u /\ reader[r].got = g
  BY ReaderIs
<1>3. lru' = [lru EXCEPT ![u] = g]
  BY <1>2 DEF Fill, SetIn, CacheKey, FreshInv
<1>4. Becomes(r, Rec("idle", Latest, None, FALSE, FALSE))
  BY AnswerIs DEF Fill, Ends
<1>5. DOMAIN lru' = CacheKeys
  BY <1>3 DEF FreshInv
<1>6. lru'[Latest] # None => AtLeastAcked(lru'[Latest])
  <2>1. Latest \in DOMAIN lru
    BY DEF FreshInv, CacheKeys
  <2>2. u = Latest => AtLeastAcked(g)
    BY <1>1, <1>2 DEF FreshInv
  <2> QED BY <1>3, <2>1, <2>2 DEF FreshInv
<1> QED BY <1>1, <1>4, <1>5, <1>6, LocalReader

\* A create clears the cache in the step that acknowledges it.
LEMMA CreatesFresh ==
    ASSUME FoundInv, FreshInv, Local, NEW c \in Calls, CreateBegin(c) \/ Create(c)
    PROVE  FreshInv'
<1>1. c \notin Readers /\ turn \in {Free, c} /\ Free \notin Readers \union Calls
  BY ServingAssumption
     DEF CreateBegin, Create, UpsertPending, WriteContent, ActivateRow, Invalidate, DeleteKeys,
         CreateFails, CreateAt, MayRun
<1>2. UNCHANGED <<deployment, redisUp, reader>> /\ ~redisUp
  BY DEF CreateBegin, Create, UpsertPending, WriteContent, ActivateRow, Invalidate, DeleteKeys,
         CreateFails, cache, FreshInv
<1>3. PICK step : /\ create' = [create EXCEPT ![c] = step]
                  /\ step # "done" => turn' = c
  BY DEF CreateBegin, Create, UpsertPending, WriteContent, ActivateRow, Invalidate, DeleteKeys,
         CreateFails, CreateGoto, Yield
<1>4. OneChain'
  <2>1. \A q \in Readers : reader'[q].pc = "idle"
    BY <1>1, <1>2 DEF FreshInv, OneChain
  <2>2. \A d \in Calls \ {c} : d \notin Underway'
    BY <1>1, <1>3 DEF FreshInv, OneChain, Underway
  <2>3. c \in Underway' => turn' = c
    BY <1>3 DEF Underway, FoundInv, InOrder
  <2> QED BY <2>1, <2>2, <2>3 DEF OneChain, Underway
<1>5. \/ UNCHANGED <<lru, acked>>
      \/ lru' = [k \in CacheKeys |-> None]
  BY <1>2 DEF CreateBegin, Create, UpsertPending, WriteContent, ActivateRow, Invalidate, DeleteKeys,
              CreateFails, cache
<1>6. DOMAIN lru' = CacheKeys /\ (lru[Latest] # None => AtLeastAcked(lru[Latest]))'
  BY <1>5 DEF FreshInv, CacheKeys, AtLeastAcked
<1>7. \A q \in Readers : reader'[q].pc # "fill"
  BY <1>1, <1>2 DEF FreshInv, OneChain
<1> QED BY <1>2, <1>4, <1>6, <1>7 DEF FreshInv, AtLeastAcked

\* Steps of the caches, of promotions and of nobody; what only the network does is not local.
LEMMA OthersFresh ==
    ASSUME FoundInv, FreshInv, Local,
           \/ RedisOutage \/ \E k \in CacheKeys : RedisExpires(k) \/ LruDrops(k)
           \/ \E v \in Promotable : PromoteWinner(v)
           \/ UNCHANGED vars
    PROVE  FreshInv'
<1>1. /\ UNCHANGED <<deployment, acked, create, reader, redisUp, turn>>
      /\ lru' = lru \/ \E k \in CacheKeys : lru' = [lru EXCEPT ![k] = None]
  BY DEF RedisOutage, RedisExpires, LruDrops, PromoteWinner, cache, vars
<1>2. Latest \in DOMAIN lru
  BY DEF FreshInv, CacheKeys
<1>3. DOMAIN lru' = CacheKeys /\ lru'[Latest] \in {lru[Latest], None}
  BY <1>1, <1>2 DEF FreshInv
<1>4. OneChain'
  BY <1>1 DEF FreshInv, OneChain, Underway
<1> QED BY <1>1, <1>3, <1>4 DEF FreshInv, AtLeastAcked

\* FreshInv is an invariant.
THEOREM FreshInvIsInvariant == Spec => []FreshInv
<1>1. Init => FreshInv
  <2> SUFFICES ASSUME Init, Local PROVE FreshInv
    BY DEF FreshInv
  <2>1. (\A r \in Readers : reader[r].pc = "idle") /\ Underway = {}
    BY DEF Init, Idle, Underway
  <2>2. DOMAIN lru = CacheKeys /\ lru[Latest] = None
    BY DEF Init, CacheKeys
  <2> QED BY <2>1, <2>2 DEF Init, FreshInv, Local, OneChain
<1>2. FoundInv /\ FreshInv /\ [Next]_vars => FreshInv'
  <2> SUFFICES ASSUME FoundInv, FreshInv, [Next]_vars PROVE FreshInv'
    OBVIOUS
  <2>1. CASE ~Local
    <3>1. UNCHANGED deployment
      BY DEF Next, RedisOutage, RedisExpires, LruDrops, Request, Read, Membership, ActivePointer,
         GetCached, DriverGet, Fill, ReadFails, ServingUnchanged, CreateBegin, Create, UpsertPending,
         WriteContent, ActivateRow, Invalidate, DeleteKeys, CreateFails, PromoteWinner, vars
    <3> QED BY <2>1, <3>1 DEF FreshInv, Local
  <2>2. CASE Local
    <3>1. ASSUME NEW r \in Readers, (\E ask \in Ask : Request(r, ask)) \/ Read(r) PROVE FreshInv'
      <4>1. ~ReadFails(r)
        BY <2>2 DEF ReadFails
      <4> QED BY <2>2, <3>1, <4>1, ReadsFresh, DriverGetFresh, FillFresh DEF Read
    <3>2. ASSUME NEW c \in Calls, CreateBegin(c) \/ Create(c) PROVE FreshInv'
      BY <2>2, <3>2, CreatesFresh
    <3> QED BY <2>2, <3>1, <3>2, OthersFresh DEF Next
  <2> QED BY <2>1, <2>2
<1> QED BY <1>1, <1>2, FoundInvIsInvariant, PTL DEF Spec

\* In the local deployment, for any number of readers and versions, no fill of the cache
\* outlives the invalidation of a create that was answered before.
THEOREM LocalCacheIsFresh == Spec => []CacheIsFresh
<1>1. FreshInv => CacheIsFresh
  BY DEF FreshInv, CacheIsFresh, AtLeastAcked
<1> QED BY <1>1, FreshInvIsInvariant, PTL

-----------------------------------------------------------------------------
(* Who is told that a prompt is missing.                                    *)

\* The reader that is told so is the one that moves, and its row or its content is missing.
LEMMA MissingAt ==
    ASSUME FoundInv, Next, NEW r \in Readers, ToldMissing(r)
    PROVE  \/ Membership(r) /\ active = {}
           \/ DriverGet(r) /\ NotFound(r)
<1>1. /\ reader' # reader /\ reader'[r] # reader[r] /\ ~reader[r].missing /\ reader'[r].missing
      /\ faults' = 0 /\ faults \in Nat
  BY DEF ToldMissing, FoundInv
<1>2. PICK q \in Readers : (\E ask \in Ask : Request(q, ask)) \/ Read(q)
  BY <1>1 DEF Next, RedisOutage, RedisExpires, LruDrops, CreateBegin, Create, UpsertPending,
              WriteContent, ActivateRow, Invalidate, DeleteKeys, CreateFails, PromoteWinner
<1>3. PICK rec : reader' = [reader EXCEPT ![q] = rec]
  BY <1>2 DEF Request, Read, Membership, ActivePointer, GetCached, DriverGet, Fill, ReadFails,
              Step, Answer, NotFound, Ends
<1>4. q = r
  BY <1>1, <1>3 DEF FoundInv
<1>5. ~ReadFails(r)
  BY <1>1 DEF ReadFails, Fault
<1>6. ASSUME NEW ask \in Ask, Request(r, ask) PROVE FALSE
  <2>1. reader'[r].missing = FALSE
    BY <1>6 DEF Request, FoundInv
  <2> QED BY <1>1, <2>1
<1>7. ASSUME NEW p, NEW u, NEW g, Step(r, p, u, g) PROVE FALSE
  <2>1. PICK q1, u1, g1, e, m : reader[r] = Rec(q1, u1, g1, e, m)
    BY DEF FoundInv
  <2>2. reader'[r] = Rec(p, u, g, e, m)
    BY <1>7, <2>1, StepIs DEF Becomes, FoundInv
  <2>3. reader'[r].missing = reader[r].missing
    BY <2>1, <2>2, RecHas
  <2> QED BY <1>1, <2>3
<1>8. ~Ends(r)
  <2>1. ASSUME Ends(r) PROVE FALSE
    <3>1. reader'[r].missing = FALSE
      BY <2>1 DEF Ends, Answer, Idle, FoundInv
    <3> QED BY <1>1, <3>1
  <2> QED BY <2>1
<1>9. Membership(r) \/ DriverGet(r)
  BY <1>2, <1>4, <1>5, <1>6, <1>7, <1>8 DEF Read, ActivePointer, GetCached, Fill
<1>10. Membership(r) => active = {}
  BY <1>7 DEF Membership
<1>11. DriverGet(r) => NotFound(r)
  BY <1>7 DEF DriverGet
<1> QED BY <1>9, <1>10, <1>11

\* For any number of versions, readers and overlapping creates: a version that was answered
\* 201 before a request came is not reported missing to it unless a step failed, or other
\* creates have taken back to pending every version that was answered so; and in the local
\* deployment never.
THEOREM AckedVersionsAreFound == Spec => AckedIsFound
<1>1. ASSUME FoundInv, FreshInv, [Next]_vars
      PROVE  [\A r \in Readers : ToldMissing(r) => ~Local /\ \A v \in acked : Reset(v)]_vars
  <2> SUFFICES ASSUME Next, NEW r \in Readers, ToldMissing(r)
               PROVE  ~Local /\ \A v \in acked : Reset(v)
    BY <1>1
  <2>1. InOrder /\ AllLive /\ faults \in Nat
    BY <1>1 DEF FoundInv
  <2>2. PICK u, g, e, m : /\ Expects(reader[r].pc, u, e, acked, stored)
                          /\ reader[r].use = u /\ reader[r].expects = e
    BY <1>1, ReaderIs
  <2>3. acked # {} /\ (reader[r].pc # "idle" => u \in stored \union {Latest})
    BY <2>2 DEF Expects, ToldMissing
  <2>4. ~DriverGet(r)
    <3>1. ASSUME DriverGet(r) PROVE FALSE
      <4>1. reader[r].pc = "driver" /\ stored # {} /\ (u # Latest => u \in stored)
        BY <2>1, <2>3, <3>1 DEF DriverGet, At, InOrder
      <4>2. \E v : Step(r, "fill", u, v)
        BY <2>2, <3>1, <4>1 DEF DriverGet
      <4>3. PICK v, q1, u1, g1, e1, m1 :
              Step(r, "fill", u, v) /\ reader[r] = Rec(q1, u1, g1, e1, m1)
        BY <1>1, <4>2 DEF FoundInv
      <4>4. reader'[r] = Rec("fill", u, v, e1, m1)
        BY <1>1, <4>3, StepIs DEF Becomes, FoundInv
      <4>5. reader'[r].missing = reader[r].missing
        BY <4>3, <4>4, RecHas
      <4> QED BY <4>5 DEF ToldMissing
    <3> QED BY <3>1
  <2>5. Membership(r) /\ active = {}
    BY <1>1, <2>4, MissingAt
  <2>6. UNCHANGED faults /\ MayRun(r)
    BY <2>5 DEF Membership, At
  <2>7. \A v \in acked : Reset(v)
    BY <2>1, <2>5, <2>6 DEF ToldMissing, AllLive, Activated, Live
  <2>8. ~Local
    <3>1. ASSUME Local PROVE FALSE
      <4>1. PICK c \in Calls : create[c] \in {"write", "activate"}
        BY <2>3, <2>7 DEF Reset
      <4>2. turn = c
        BY <1>1, <3>1, <4>1 DEF FreshInv, OneChain, Underway
      <4> QED BY <2>6, <4>2, ServingAssumption DEF MayRun
    <3> QED BY <3>1
  <2> QED BY <2>7, <2>8
<1> QED BY <1>1, FoundInvIsInvariant, FreshInvIsInvariant, PTL DEF Spec, AckedIsFound
=============================================================================
