--------------------------- MODULE Playground_proofs ---------------------------
(***************************************************************************)
(* Playground, for any number of requests and any budget, and Streams, for *)
(* answers of any length, any number of runs and any cut of the bytes.     *)
(*                                                                         *)
(* Playground.  The spend alone is not inductive: what counts is the spend *)
(* plus the requests that may still add to it.  A request that passes the  *)
(* check does so below the budget and is counted in the peak; from then on *)
(* it is in flight, and a log entry only moves it from one side to the     *)
(* other.                                                                  *)
(*                                                                         *)
(* Streams.  The invariant keeps no text: what a reader holds and what it  *)
(* has not read are given by the sequence of chunks that was written and   *)
(* by how far into it the reader is (Reading).  CutLines shows that any    *)
(* cut of a text gives its whole lines and keeps the beginning of the      *)
(* next; ReadsOn and WritesOn, which both ends use, follow from it.  Cut   *)
(* and OfType are recursive functions; what they yield for every text is   *)
(* shown by the least counterexample of an interval (Ascends).             *)
(***************************************************************************)
EXTENDS Playground, Streams, FiniteSetTheorems, WellFoundedInduction, TLAPS

-----------------------------------------------------------------------------
(* Playground.                                                             *)

Committed == logged \union InFlight

Counted ==
    /\ Cardinality(InFlight) <= peak
    /\ Cardinality(Committed) < Budget + peak

RequestAt(r) ==
    /\ pc[r] \in {"idle", "fire"} => bill[r] = 0 /\ r \notin running /\ r \notin metrics
    /\ pc[r] = "calling" => r \in running
    /\ r \in running => bill[r] <= IF r \in metrics THEN 1 ELSE 0
    /\ r \notin metrics => bill[r] <= 1
    /\ pc[r] = "log" => kind[r] = "chat" /\ bill[r] > 0
    /\ pc[r] = "stream" => kind[r] = "stream"
    /\ r \in logged => pc[r] = "done" /\ bill[r] > 0
    /\ kind[r] = "chat" /\ status[r] = "ok" => r \in logged

IInv == TypeOK /\ Counted /\ \A r \in Requests : RequestAt(r)

LEMMA FiniteCounts ==
    ASSUME NEW S \in SUBSET Requests
    PROVE  IsFiniteSet(S) /\ Cardinality(S) \in Nat
  BY PlaygroundAssumption, FS_Subset, FS_CardinalityType

LEMMA Smaller ==
    ASSUME NEW T \in SUBSET Requests, NEW S \in SUBSET T
    PROVE  Cardinality(S) <= Cardinality(T)
  BY FiniteCounts, FS_Subset

\* A step that brings no request into flight keeps the count.
LEMMA CountKept ==
    ASSUME IInv, InFlight' \subseteq InFlight, Committed' \subseteq Committed, UNCHANGED peak
    PROVE  Counted'
<1>1. InFlight \in SUBSET Requests /\ Committed \in SUBSET Requests
  BY DEF IInv, TypeOK, InFlight, Committed
<1>2. /\ Cardinality(InFlight) \in Nat /\ Cardinality(InFlight') \in Nat
      /\ Cardinality(Committed) \in Nat /\ Cardinality(Committed') \in Nat
  BY <1>1, FiniteCounts
<1>3. Cardinality(InFlight') <= Cardinality(InFlight) /\ Cardinality(Committed') <= Cardinality(Committed)
  BY <1>1, Smaller
<1> QED BY <1>2, <1>3, PlaygroundAssumption DEF IInv, TypeOK, Counted

\* A request that passes the check: below the budget, and counted in the peak.
LEMMA CountPassed ==
    ASSUME IInv, NEW r \in Requests, CheckBudget(r), ~OverBudget
    PROVE  Counted'
<1>1. /\ pc[r] = "idle" /\ pc' = [pc EXCEPT ![r] = "fire"] /\ UNCHANGED logged
      /\ peak' = IF Cardinality(InFlight \union {r}) > peak
                 THEN Cardinality(InFlight \union {r}) ELSE peak
  BY DEF CheckBudget, Goto
<1>2. InFlight' = InFlight \union {r}
  BY <1>1 DEF IInv, TypeOK, InFlight
<1>3. /\ InFlight' \in SUBSET Requests /\ logged \in SUBSET Requests
      /\ logged \intersect InFlight' \in SUBSET Requests
  BY <1>2 DEF IInv, TypeOK, InFlight
<1>4. /\ IsFiniteSet(InFlight') /\ Cardinality(InFlight') \in Nat
      /\ IsFiniteSet(logged) /\ Cardinality(logged) \in Nat
      /\ Cardinality(logged \intersect InFlight') \in Nat
  BY <1>3, FiniteCounts
<1>5. Cardinality(InFlight') <= peak'
  BY <1>1, <1>2, <1>4 DEF IInv, TypeOK
<1>6. Cardinality(Committed') <= Cardinality(logged) + Cardinality(InFlight')
  <2>1. Committed' = logged \union InFlight'
    BY <1>1 DEF Committed
  <2>2. Cardinality(logged \union InFlight')
           = Cardinality(logged) + Cardinality(InFlight') - Cardinality(logged \intersect InFlight')
    BY <1>4, FS_Union
  <2> QED BY <1>4, <2>1, <2>2
<1>7. Cardinality(logged) < Budget
  BY <1>4, PlaygroundAssumption DEF OverBudget, Spend
<1>8. Committed' \in SUBSET Requests /\ Cardinality(Committed') \in Nat /\ peak' \in Nat
  <2>1. Committed' \in SUBSET Requests
    BY <1>1, <1>3 DEF Committed
  <2> QED BY <2>1, <1>1, <1>2, <1>4, FiniteCounts DEF IInv, TypeOK
<1> QED BY <1>4, <1>5, <1>6, <1>7, <1>8, PlaygroundAssumption DEF Counted

LEMMA InitInvariant == Init => IInv
<1> SUFFICES ASSUME Init PROVE IInv
  OBVIOUS
<1>1. TypeOK
  <2>1. bill \in [Requests -> 0..2] /\ peak \in Nat
    BY DEF Init
  <2> QED BY <2>1 DEF Init, TypeOK
<1>2. Counted
  <2>1. InFlight = {} /\ Committed = {}
    BY DEF Init, InFlight, Committed
  <2>2. Cardinality({}) = 0
    BY FS_EmptySet
  <2> QED BY <2>1, <2>2, PlaygroundAssumption DEF Init, Counted
<1>3. \A r \in Requests : RequestAt(r)
  BY DEF Init, RequestAt
<1> QED BY <1>1, <1>2, <1>3 DEF IInv

LEMMA StepInvariant == IInv /\ [Next]_vars => IInv'
<1> SUFFICES ASSUME IInv, [Next]_vars PROVE IInv'
  OBVIOUS
<1>1. ASSUME NEW r \in Requests, CheckBudget(r) PROVE IInv'
  <2>1. TypeOK'
    <3>1. InFlight \union {r} \in SUBSET Requests
      BY DEF InFlight
    <3>2. Cardinality(InFlight \union {r}) \in Nat
      BY <3>1, FiniteCounts
    <3> QED BY <1>1, <3>2 DEF IInv, TypeOK, CheckBudget, Goto, End, gate
  <2>2. Counted'
    <3>1. CASE OverBudget
      <4>1. InFlight' = InFlight /\ UNCHANGED <<logged, peak>>
        BY <1>1, <3>1 DEF IInv, TypeOK, CheckBudget, End, Goto, InFlight
      <4> QED BY <4>1, CountKept DEF Committed
    <3> QED BY <1>1, <3>1, CountPassed
  <2>3. \A q \in Requests : RequestAt(q)'
    BY <1>1 DEF IInv, TypeOK, RequestAt, CheckBudget, Goto, End, gate
  <2> QED BY <2>1, <2>2, <2>3 DEF IInv
<1>2. ASSUME NEW r \in Requests, Unusable(r) PROVE IInv'
  <2>1. TypeOK'
    BY <1>2 DEF IInv, TypeOK, RequestAt, Unusable, Goto, End, gate
  <2>2. InFlight' \subseteq InFlight /\ Committed' \subseteq Committed /\ UNCHANGED peak
    BY <1>2 DEF IInv, TypeOK, InFlight, Committed, Unusable, Goto, End
  <2>3. \A q \in Requests : RequestAt(q)'
    BY <1>2 DEF IInv, TypeOK, RequestAt, Unusable, Goto, End, gate
  <2> QED BY <2>1, <2>2, <2>3, CountKept DEF IInv
<1>3. ASSUME NEW r \in Requests, Fire(r) PROVE IInv'
  <2>1. TypeOK'
    BY <1>3 DEF IInv, TypeOK, RequestAt, Fire, Goto, End, GiveUp, gate
  <2>2. InFlight' \subseteq InFlight /\ Committed' \subseteq Committed /\ UNCHANGED peak
    BY <1>3 DEF IInv, TypeOK, InFlight, Committed, Fire, Goto, End, GiveUp
  <2>3. \A q \in Requests : RequestAt(q)'
    BY <1>3 DEF IInv, TypeOK, RequestAt, Fire, Goto, End, GiveUp, gate
  <2> QED BY <2>1, <2>2, <2>3, CountKept DEF IInv
<1>4. ASSUME NEW r \in Requests, Answered(r) PROVE IInv'
  <2>1. TypeOK'
    <3>1. bill' \in [Requests -> 0..2]
      BY <1>4 DEF IInv, TypeOK, RequestAt, Answered, Bill
    <3>2. breaker' \in {"closed", "open", "half"} /\ trial' \in BOOLEAN
      BY <1>4 DEF IInv, TypeOK, Answered, CountSuccess, gate
    <3> QED BY <1>4, <3>1, <3>2 DEF IInv, TypeOK, Answered, Goto
  <2>2. InFlight' \subseteq InFlight /\ Committed' \subseteq Committed /\ UNCHANGED peak
    BY <1>4 DEF IInv, TypeOK, InFlight, Committed, Answered, Goto, Bill, CountSuccess
  <2>3. \A q \in Requests : RequestAt(q)'
    BY <1>4 DEF IInv, TypeOK, RequestAt, Answered, Goto, Bill, CountSuccess, gate
  <2> QED BY <2>1, <2>2, <2>3, CountKept DEF IInv
<1>5. ASSUME NEW r \in Requests, CallFails(r) PROVE IInv'
  <2>1. TypeOK'
    BY <1>5 DEF IInv, TypeOK, RequestAt, CallFails, Goto, End, GiveUp, CountFailure, gate
  <2>2. InFlight' \subseteq InFlight /\ Committed' \subseteq Committed /\ UNCHANGED peak
    BY <1>5 DEF IInv, TypeOK, InFlight, Committed, CallFails, Goto, End, GiveUp, CountFailure
  <2>3. \A q \in Requests : RequestAt(q)'
    BY <1>5 DEF IInv, TypeOK, RequestAt, CallFails, Goto, End, GiveUp, CountFailure, gate
  <2> QED BY <2>1, <2>2, <2>3, CountKept DEF IInv
<1>6. ASSUME NEW r \in Requests, TimesOut(r) PROVE IInv'
  <2>1. TypeOK'
    BY <1>6 DEF IInv, TypeOK, RequestAt, TimesOut, Goto, End, GiveUp, CountFailure, gate
  <2>2. InFlight' \subseteq InFlight /\ Committed' \subseteq Committed /\ UNCHANGED peak
    BY <1>6 DEF IInv, TypeOK, InFlight, Committed, TimesOut, Goto, End, GiveUp, CountFailure
  <2>3. \A q \in Requests : RequestAt(q)'
    BY <1>6 DEF IInv, TypeOK, RequestAt, TimesOut, Goto, End, GiveUp, CountFailure, gate
  <2> QED BY <2>1, <2>2, <2>3, CountKept DEF IInv
<1>7. ASSUME NEW r \in Requests, LateAnswer(r) PROVE IInv'
  <2>1. TypeOK'
    BY <1>7 DEF IInv, TypeOK, RequestAt, LateAnswer, Bill, gate
  <2>2. InFlight' \subseteq InFlight /\ Committed' \subseteq Committed /\ UNCHANGED peak
    BY <1>7 DEF IInv, TypeOK, InFlight, Committed, LateAnswer, Bill
  <2>3. \A q \in Requests : RequestAt(q)'
    BY <1>7 DEF IInv, TypeOK, RequestAt, LateAnswer, Bill, gate
  <2> QED BY <2>1, <2>2, <2>3, CountKept DEF IInv
<1>8. ASSUME NEW r \in Requests, Log(r) PROVE IInv'
  <2>1. TypeOK'
    BY <1>8 DEF IInv, TypeOK, RequestAt, Log, Goto, End, gate
  <2>2. InFlight' \subseteq InFlight /\ Committed' \subseteq Committed /\ UNCHANGED peak
    BY <1>8 DEF IInv, TypeOK, InFlight, Committed, Log, Goto, End
  <2>3. \A q \in Requests : RequestAt(q)'
    BY <1>8 DEF IInv, TypeOK, RequestAt, Log, Goto, End, gate
  <2> QED BY <2>1, <2>2, <2>3, CountKept DEF IInv
<1>9. ASSUME NEW r \in Requests, StreamMetrics(r) PROVE IInv'
  <2>1. TypeOK'
    BY <1>9 DEF IInv, TypeOK, RequestAt, StreamMetrics, Bill, gate
  <2>2. InFlight' \subseteq InFlight /\ Committed' \subseteq Committed /\ UNCHANGED peak
    BY <1>9 DEF IInv, TypeOK, InFlight, Committed, StreamMetrics, Bill
  <2>3. \A q \in Requests : RequestAt(q)'
    BY <1>9 DEF IInv, TypeOK, RequestAt, StreamMetrics, Bill, gate
  <2> QED BY <2>1, <2>2, <2>3, CountKept DEF IInv
<1>10. ASSUME NEW r \in Requests, StreamDone(r) PROVE IInv'
  <2>1. TypeOK'
    BY <1>10 DEF IInv, TypeOK, RequestAt, StreamDone, Goto, End, gate
  <2>2. InFlight' \subseteq InFlight /\ Committed' \subseteq Committed /\ UNCHANGED peak
    BY <1>10 DEF IInv, TypeOK, InFlight, Committed, StreamDone, Goto, End
  <2>3. \A q \in Requests : RequestAt(q)'
    BY <1>10 DEF IInv, TypeOK, RequestAt, StreamDone, Goto, End, gate
  <2> QED BY <2>1, <2>2, <2>3, CountKept DEF IInv
<1>11. ASSUME NEW r \in Requests, StreamBreaks(r) PROVE IInv'
  <2>1. TypeOK'
    BY <1>11 DEF IInv, TypeOK, RequestAt, StreamBreaks, Goto, End, gate
  <2>2. InFlight' \subseteq InFlight /\ Committed' \subseteq Committed /\ UNCHANGED peak
    BY <1>11 DEF IInv, TypeOK, InFlight, Committed, StreamBreaks, Goto, End
  <2>3. \A q \in Requests : RequestAt(q)'
    BY <1>11 DEF IInv, TypeOK, RequestAt, StreamBreaks, Goto, End, gate
  <2> QED BY <2>1, <2>2, <2>3, CountKept DEF IInv
<1>12. CASE ResetTimeout \/ UNCHANGED vars
  <2>1. UNCHANGED <<kind, pc, status, bill, running, metrics, logged, peak>>
    BY <1>12 DEF ResetTimeout, vars
  <2>2. TypeOK'
    BY <1>12 DEF IInv, TypeOK, ResetTimeout, vars, gate
  <2>3. \A q \in Requests : RequestAt(q)'
    BY <2>1 DEF IInv, RequestAt
  <2> QED BY <2>1, <2>2, <2>3, CountKept DEF IInv, InFlight, Committed
<1> QED BY <1>1, <1>2, <1>3, <1>4, <1>5, <1>6, <1>7, <1>8, <1>9, <1>10, <1>11, <1>12 DEF Next

\* A request is billed at most twice (a stream and its connection test).
THEOREM TypeCorrect == Spec => []TypeOK
<1>1. IInv => TypeOK
  BY DEF IInv
<1> QED BY <1>1, InitInvariant, StepInvariant, PTL DEF Spec

\* Whatever the budget and the number of requests, the spend passes the budget by less
\* than the number of requests that were ever in flight together.
THEOREM OverspendBounded == Spec => []OverspendIsBounded
<1>1. ASSUME IInv PROVE OverspendIsBounded
  <2>1. Committed \in SUBSET Requests /\ logged \in SUBSET Committed
    BY <1>1 DEF IInv, TypeOK, Committed, InFlight
  <2>2. Cardinality(logged) <= Cardinality(Committed)
    BY <2>1, Smaller
  <2>3. Cardinality(logged) \in Nat /\ Cardinality(Committed) \in Nat
    BY <2>1, FiniteCounts
  <2> QED BY <1>1, <2>2, <2>3, PlaygroundAssumption DEF IInv, TypeOK, Counted, OverspendIsBounded, Spend
<1> QED BY <1>1, InitInvariant, StepInvariant, PTL DEF Spec

\* Every charge stands for a completion, and every completion that was answered is charged.
THEOREM ChargesAreRight == Spec => []ChargedAsAnswered
<1>1. IInv => ChargedAsAnswered
  BY DEF IInv, TypeOK, RequestAt, ChargedAsAnswered
<1> QED BY <1>1, InitInvariant, StepInvariant, PTL DEF Spec

-----------------------------------------------------------------------------
(* Streams: chunks and their text.                                         *)

Chunk == [type : {"token", "metrics", "done", "error"}, run : Nat, n : Nat]
Piece == {LF} \union [type : {"half"}, k : {1, 2}, chunk : Chunk]

\* The chunks after the first `from', up to the one at `to'.
Slice(chunks, from, to) == [i \in 1..(to - from) |-> chunks[from + i]]

\* Induction over an interval, from the minimum of a set of counterexamples.
LEMMA Ascends ==
    ASSUME NEW n \in Nat, NEW S, 0 \in S, \A i \in 1..n : i - 1 \in S => i \in S
    PROVE  \A i \in 0..n : i \in S
<1> DEFINE Gap == {i \in 0..n : i \notin S}
<1> SUFFICES ASSUME Gap # {} PROVE FALSE
  OBVIOUS
<1>1. IsWellFoundedOn(OpToRel(<, Nat), Nat)
  BY NatLessThanWellFounded
<1>2. PICK i \in Gap : \A j \in Gap : <<j, i>> \notin OpToRel(<, Nat)
  <2> HIDE DEF Gap
  <2>1. Gap \subseteq Nat
    BY DEF Gap
  <2> QED BY <1>1, <2>1, WFMin
<1>3. i \in 1..n /\ i - 1 \in 0..n
  OBVIOUS
<1>4. <<i - 1, i>> \in OpToRel(<, Nat)
  <2>1. OpToRel(<, Nat) = {ss \in Nat \X Nat : ss[1] < ss[2]}
    BY DEF OpToRel
  <2>2. i - 1 \in Nat /\ i \in Nat /\ i - 1 < i
    BY <1>3
  <2> QED BY <2>1, <2>2
<1> QED BY <1>2, <1>3, <1>4

\* Sequences with the same elements are the same.
LEMMA SameSequence ==
    ASSUME NEW S, NEW s \in Seq(S), NEW t \in Seq(S), Len(s) = Len(t),
           \A i \in 1..Len(s) : s[i] = t[i]
    PROVE  s = t
<1>1. s = [i \in 1..Len(s) |-> s[i]] /\ t = [i \in 1..Len(t) |-> t[i]]
  OBVIOUS
<1> QED BY <1>1

LEMMA Joined ==
    ASSUME NEW S, NEW s \in Seq(S), NEW t \in Seq(S)
    PROVE  /\ s \o t \in Seq(S) /\ Len(s \o t) = Len(s) + Len(t)
           /\ \A i \in 1..Len(s) : (s \o t)[i] = s[i]
           /\ \A i \in 1..Len(t) : (s \o t)[Len(s) + i] = t[i]
<1>1. s \o t \in Seq(S)
  OBVIOUS
<1>2. Len(s \o t) = Len(s) + Len(t)
  OBVIOUS
<1>3. \A i \in 1..Len(s) : (s \o t)[i] = s[i]
  OBVIOUS
<1>4. \A i \in 1..Len(t) : (s \o t)[Len(s) + i] = t[i]
  OBVIOUS
<1> QED BY <1>1, <1>2, <1>3, <1>4

LEMMA SliceIs ==
    ASSUME NEW w \in Seq(Chunk), NEW a \in Nat, NEW b \in a..Len(w)
    PROVE  /\ Slice(w, a, b) \in Seq(Chunk) /\ Len(Slice(w, a, b)) = b - a
           /\ \A i \in 1..(b - a) : a + i \in 1..Len(w) /\ Slice(w, a, b)[i] = w[a + i]
<1> DEFINE s == Slice(w, a, b)
           m == b - a
<1>1. m \in Nat /\ Len(w) \in Nat
  OBVIOUS
<1>2. \A i \in 1..m : a + i \in 1..Len(w)
  OBVIOUS
<1>3. \A i \in 1..m : w[a + i] \in Chunk
  BY <1>2
<1>4. s = [i \in 1..m |-> w[a + i]]
  BY DEF Slice
<1> HIDE DEF s, m
<1>5. s \in Seq(Chunk)
  BY <1>1, <1>3, <1>4
<1>6. Len(s) = m
  BY <1>1, <1>4
<1>7. \A i \in 1..m : s[i] = w[a + i]
  BY <1>4
<1> QED BY <1>2, <1>5, <1>6, <1>7 DEF s, m

LEMMA SliceGrows ==
    ASSUME NEW w \in Seq(Chunk), NEW a \in Nat, NEW l \in Nat \ {0}, a + l <= Len(w)
    PROVE  /\ Slice(w, a, a + (l - 1)) \o <<w[a + l]>> = Slice(w, a, a + l)
           /\ Append(Slice(w, a, a + (l - 1)), w[a + l]) = Slice(w, a, a + l)
<1>0. PICK j \in Nat : j = l - 1 /\ l = j + 1
  OBVIOUS
<1> DEFINE s == Slice(w, a, a + j)
           t == Slice(w, a, a + l)
           c == w[a + l]
           u == Append(s, c)
<1>1. a + j \in a..Len(w) /\ a + l \in a..Len(w) /\ a + l \in 1..Len(w)
      /\ (a + j) - a = j /\ (a + l) - a = j + 1 /\ a + (j + 1) = a + l
  BY <1>0
<1>2. s \in Seq(Chunk) /\ Len(s) = j /\ \A i \in 1..j : s[i] = w[a + i]
  <2> DEFINE b == a + j
  <2>1. b \in a..Len(w) /\ b - a = j
    BY <1>1
  <2> HIDE DEF b
  <2>2. /\ Slice(w, a, b) \in Seq(Chunk) /\ Len(Slice(w, a, b)) = b - a
        /\ \A i \in 1..(b - a) : a + i \in 1..Len(w) /\ Slice(w, a, b)[i] = w[a + i]
    BY <2>1, SliceIs
  <2> QED BY <2>1, <2>2 DEF b
<1>3. t \in Seq(Chunk) /\ Len(t) = j + 1 /\ \A i \in 1..(j + 1) : t[i] = w[a + i]
  <2> DEFINE b == a + l
  <2>1. b \in a..Len(w) /\ b - a = j + 1
    BY <1>1
  <2> HIDE DEF b
  <2>2. /\ Slice(w, a, b) \in Seq(Chunk) /\ Len(Slice(w, a, b)) = b - a
        /\ \A i \in 1..(b - a) : a + i \in 1..Len(w) /\ Slice(w, a, b)[i] = w[a + i]
    BY <2>1, SliceIs
  <2> QED BY <2>1, <2>2 DEF b
<1>4. c \in Chunk
  BY <1>1
<1>5. u \in Seq(Chunk) /\ Len(u) = j + 1
  <2> HIDE DEF s, c
  <2> QED BY <1>2, <1>4
<1>6. ASSUME NEW i \in 1..(j + 1) PROVE u[i] = t[i]
  <2>1. CASE i = j + 1
    <3>1. u[i] = c
      <4> HIDE DEF s, c
      <4> QED BY <1>2, <1>4, <2>1
    <3>2. t[i] = c
      <4> HIDE DEF t
      <4> QED BY <1>1, <1>3, <2>1
    <3> QED BY <3>1, <3>2
  <2>2. CASE i # j + 1
    <3>1. i \in 1..j
      BY <2>2
    <3>2. u[i] = s[i]
      <4> HIDE DEF s, c
      <4> QED BY <1>2, <1>4, <3>1
    <3> HIDE DEF u, s, t
    <3> QED BY <1>2, <1>3, <3>1, <3>2
  <2> QED BY <2>1, <2>2
<1>7. u = t
  <2> HIDE DEF u, t
  <2> QED BY <1>3, <1>5, <1>6, SameSequence
<1>8. s \o <<c>> = u
  <2> HIDE DEF s, c
  <2> QED BY <1>2, <1>4 DEF u
<1> QED BY <1>0, <1>7, <1>8

\* Of the three pieces of a line, which is at which place.
LEMMA LinesAre ==
    ASSUME NEW w \in Seq(Chunk)
    PROVE  /\ Lines(w) \in Seq(Piece) /\ Len(Lines(w)) = 3 * Len(w)
           /\ \A j \in 1..Len(w) : /\ Lines(w)[3 * j - 2] = Half(1, w[j])
                                   /\ Lines(w)[3 * j - 1] = Half(2, w[j])
                                   /\ Lines(w)[3 * j] = LF
<1> DEFINE N == Len(w)
<1>1. N \in Nat
  OBVIOUS
<1>2. ASSUME NEW i \in 1..(3 * N)
      PROVE (i + 2) \div 3 \in 1..N /\ (i + 2) % 3 \in 0..2
  <2> HIDE DEF N
  <2> QED BY <1>1
<1>3. ASSUME NEW c \in Chunk, NEW k \in 0..2 PROVE Line(c)[k + 1] \in Piece
  BY DEF Line, Half, LF, Piece
<1>4. ASSUME NEW i \in 1..(3 * N) PROVE Lines(w)[i] \in Piece
  <2>1. w[(i + 2) \div 3] \in Chunk
    BY <1>2
  <2>2. Lines(w)[i] = Line(w[(i + 2) \div 3])[((i + 2) % 3) + 1]
    BY DEF Lines
  <2> QED BY <1>2, <1>3, <2>1, <2>2
<1>5. Lines(w) \in Seq(Piece) /\ Len(Lines(w)) = 3 * N
  <2>1. DOMAIN Lines(w) = 1..(3 * N)
    BY DEF Lines
  <2>2. Lines(w) = [i \in 1..(3 * N) |-> Lines(w)[i]]
    BY DEF Lines
  <2>3. 3 * N \in Nat
    BY <1>1
  <2> HIDE DEF N
  <2> QED BY <1>4, <2>1, <2>2, <2>3
<1>6. ASSUME NEW j \in 1..N
      PROVE  /\ Lines(w)[3 * j - 2] = Half(1, w[j])
             /\ Lines(w)[3 * j - 1] = Half(2, w[j])
             /\ Lines(w)[3 * j] = LF
  <2>1. /\ 3 * j - 2 \in 1..(3 * N) /\ ((3 * j - 2) + 2) \div 3 = j /\ ((3 * j - 2) + 2) % 3 = 0
        /\ 3 * j - 1 \in 1..(3 * N) /\ ((3 * j - 1) + 2) \div 3 = j /\ ((3 * j - 1) + 2) % 3 = 1
        /\ 3 * j \in 1..(3 * N) /\ (3 * j + 2) \div 3 = j /\ (3 * j + 2) % 3 = 2
    <3> HIDE DEF N
    <3> QED BY <1>1
  <2>2. \A i \in 1..(3 * N) : Lines(w)[i] = Line(w[(i + 2) \div 3])[((i + 2) % 3) + 1]
    BY DEF Lines
  <2>3. Line(w[j])[0 + 1] = Half(1, w[j]) /\ Line(w[j])[1 + 1] = Half(2, w[j]) /\ Line(w[j])[2 + 1] = LF
    BY DEF Line
  <2> HIDE DEF N
  <2> QED BY <2>1, <2>2, <2>3
<1> QED BY <1>5, <1>6

\* Cut feeds the pieces one by one.
LEMMA CutIs ==
    ASSUME NEW text, Len(text) \in Nat
    PROVE  \E f : /\ f[0] = [chunks |-> <<>>, rest |-> <<>>]
                  /\ \A i \in 1..Len(text) : f[i] = Feed(f[i - 1], text[i])
                  /\ Cut(text) = f[Len(text)]
<1> DEFINE n == Len(text)
           nothing == [chunks |-> <<>>, rest |-> <<>>]
           Upto(i, g) == g = [j \in 0..i |-> IF j = 0 THEN nothing ELSE Feed(g[j - 1], text[j])]
           Reached == {i \in 0..n : \E g : Upto(i, g)}
<1>1. 0 \in Reached
  <2>1. Upto(0, [j \in 0..0 |-> nothing])
    <3> HIDE DEF nothing
    <3> QED BY SMT
  <2> HIDE DEF Upto
  <2> QED BY <2>1
<1>2. ASSUME NEW i \in 1..n, i - 1 \in Reached PROVE i \in Reached
  <2> HIDE DEF nothing
  <2>1. PICK g : Upto(i - 1, g)
    BY <1>2
  <2> DEFINE h == [j \in 0..i |-> IF j = i THEN Feed(g[i - 1], text[i]) ELSE g[j]]
  <2>2. ASSUME NEW j \in 0..i PROVE h[j] = IF j = 0 THEN nothing ELSE Feed(h[j - 1], text[j])
    <3>1. CASE j = i
      BY <3>1
    <3>2. CASE j # i
      <4>1. j \in 0..(i - 1) /\ (j # 0 => j - 1 \in 0..i /\ j - 1 # i)
        BY <3>2
      <4>2. h[j] = g[j] /\ (j # 0 => h[j - 1] = g[j - 1])
        BY <4>1
      <4>3. g[j] = IF j = 0 THEN nothing ELSE Feed(g[j - 1], text[j])
        BY <2>1, <4>1
      <4> QED BY <4>2, <4>3
    <3> QED BY <3>1, <3>2
  <2>3. h = [j \in 0..i |-> IF j = 0 THEN nothing ELSE Feed(h[j - 1], text[j])]
    BY <2>2
  <2>4. Upto(i, h)
    BY <2>3
  <2> HIDE DEF Upto, h
  <2> QED BY <2>4
<1>3. n \in Reached
  <2> HIDE DEF Reached
  <2>1. n \in Nat /\ n \in 0..n
    OBVIOUS
  <2>2. \A i \in 1..n : i - 1 \in Reached => i \in Reached
    BY <1>2
  <2> HIDE DEF n
  <2> QED BY <1>1, <2>1, <2>2, Ascends
<1>4. \E g : Upto(n, g)
  BY <1>3
<1> DEFINE f == CHOOSE g : Upto(n, g)
<1>5. Upto(n, f)
  BY <1>4
<1>6. Cut(text) = f[n]
  BY DEF Cut
<1> HIDE DEF f, nothing
<1>7. f = [j \in 0..n |-> IF j = 0 THEN nothing ELSE Feed(f[j - 1], text[j])]
  BY <1>5
<1>8. f[0] = nothing /\ \A i \in 1..n : f[i] = Feed(f[i - 1], text[i])
  <2>1. \A j \in 0..n : f[j] = IF j = 0 THEN nothing ELSE Feed(f[j - 1], text[j])
    BY <1>7, Zenon
  <2>2. n \in Nat
    OBVIOUS
  <2> HIDE DEF n
  <2> QED BY <2>1, <2>2
<1> QED BY <1>6, <1>8 DEF nothing

\* The beginnings of a line.
First(c) == <<Half(1, c)>>
Both(c) == <<Half(1, c), Half(2, c)>>

LEMMA AppendsSecond ==
    ASSUME NEW x, NEW y PROVE Append(<<x>>, y) = <<x, y>>
<1> DEFINE S == {x, y}
           t == Append(<<x>>, y)
           u == <<x, y>>
<1>1. t \in Seq(S) /\ Len(t) = 2 /\ t[1] = x /\ t[2] = y
  OBVIOUS
<1>2. u \in Seq(S) /\ Len(u) = 2 /\ u[1] = x /\ u[2] = y
  OBVIOUS
<1> HIDE DEF S, t, u
<1>3. t = [i \in 1..2 |-> t[i]] /\ u = [i \in 1..2 |-> u[i]]
  BY <1>1, <1>2
<1>4. \A i \in 1..2 : t[i] = u[i]
  BY <1>1, <1>2
<1>5. t = u
  BY <1>3, <1>4
<1> QED BY <1>5 DEF t, u

\* What the three pieces of a line do to a cut in which no line has begun.
LEMMA LineFeeds ==
    ASSUME NEW c \in Chunk, NEW s
    PROVE  /\ Feed([chunks |-> s, rest |-> <<>>], Half(1, c)) = [chunks |-> s, rest |-> First(c)]
           /\ Feed([chunks |-> s, rest |-> First(c)], Half(2, c))
                  = [chunks |-> s, rest |-> Both(c)]
           /\ Feed([chunks |-> s, rest |-> Both(c)], LF)
                  = [chunks |-> s \o <<c>>, rest |-> <<>>]
<1>1. LF # Half(1, c) /\ LF # Half(2, c)
  BY DEF LF, Half
<1>2. Append(<<>>, Half(1, c)) = <<Half(1, c)>>
  OBVIOUS
<1>3. Append(<<Half(1, c)>>, Half(2, c)) = <<Half(1, c), Half(2, c)>>
  BY AppendsSecond
<1>4. Parsed(<<Half(1, c), Half(2, c)>>) = <<c>>
  <2> DEFINE text == <<Half(1, c), Half(2, c)>>
  <2>1. 1 \in DOMAIN text /\ text[1].chunk = c
    BY DEF Half
  <2>2. c \in {text[i].chunk : i \in DOMAIN text}
    BY <2>1
  <2>3. Parsed(text) = <<text[1].chunk>>
    BY <2>2 DEF Parsed
  <2> QED BY <2>1, <2>3
<1> QED BY <1>1, <1>2, <1>3, <1>4 DEF Feed, First, Both

\* `text' goes on for whole lines to the one at b, and for e pieces of the next.
Goes(w, a, text, b, e) ==
    /\ b \in a..Len(w) /\ e \in 0..2
    /\ Len(text) = 3 * (b - a) + e

\* `held' is the beginning of the line after the one at a in the text of w, e pieces of it.
Begun(w, a, e, held) ==
    /\ held \in Seq(Piece) /\ Len(held) = e
    /\ \A i \in 1..e : held[i] = Lines(w)[3 * a + i]

\* Cutting a piece of a text that begins with a line gives its whole lines and what follows.
LEMMA CutLines ==
    ASSUME NEW w \in Seq(Chunk), NEW a \in 0..Len(w), NEW text \in Seq(Piece),
           3 * a + Len(text) <= 3 * Len(w),
           \A i \in 1..Len(text) : text[i] = Lines(w)[3 * a + i]
    PROVE  \E b, e : /\ Goes(w, a, text, b, e)
                     /\ Cut(text).chunks = Slice(w, a, b)
                     /\ Begun(w, b, e, Cut(text).rest)
<1> DEFINE N == Len(w)
           L == Len(text)
           m == L \div 3
           e == L % 3
           At(j) == [chunks |-> Slice(w, a, a + j), rest |-> <<>>]
<1>1. N \in Nat /\ L \in Nat /\ a \in Nat
  OBVIOUS
<1>2. m \in Nat /\ e \in 0..2 /\ L = 3 * m + e /\ a + m \in a..N
  <2>1. 3 * a + L <= 3 * N /\ a <= N
    OBVIOUS
  <2> HIDE DEF N, L
  <2>2. m \in Nat /\ e \in 0..2 /\ L = 3 * m + e
    BY <1>1
  <2> HIDE DEF m, e
  <2> QED BY <1>1, <2>1, <2>2
<1>3. PICK f : /\ f[0] = [chunks |-> <<>>, rest |-> <<>>]
               /\ \A i \in 1..L : f[i] = Feed(f[i - 1], text[i])
               /\ Cut(text) = f[L]
  BY <1>1, CutIs
<1>4. ASSUME NEW j \in 1..N PROVE w[j] \in Chunk
  OBVIOUS
<1>5. ASSUME NEW j \in 1..N
      PROVE  /\ Lines(w)[3 * j - 2] = Half(1, w[j])
             /\ Lines(w)[3 * j - 1] = Half(2, w[j])
             /\ Lines(w)[3 * j] = LF
  BY LinesAre
<1>6. \A i \in 1..L : text[i] = Lines(w)[3 * a + i]
  OBVIOUS
<1> DEFINE Whole == {j \in 0..m : f[3 * j] = At(j)}
<1>7. 0 \in Whole
  <2>1. Slice(w, a, a + 0) = <<>>
    BY <1>1 DEF Slice
  <2>2. 3 * 0 = 0 /\ 0 \in 0..m
    BY <1>2
  <2> HIDE DEF m
  <2> QED BY <1>3, <2>1, <2>2
<1>8. ASSUME NEW j \in 1..m, j - 1 \in Whole PROVE j \in Whole
  <2> HIDE DEF m, e, L, N
  <2> DEFINE c == w[a + j]
             s == Slice(w, a, a + (j - 1))
  <2>1. a + j \in 1..N /\ c \in Chunk
    BY <1>1, <1>2, <1>4
  <2>2. /\ text[3 * j - 2] = Half(1, c)
        /\ text[3 * j - 1] = Half(2, c)
        /\ text[3 * j] = LF
    <3>1. 3 * j - 2 \in 1..L /\ 3 * j - 1 \in 1..L /\ 3 * j \in 1..L
      BY <1>1, <1>2
    <3>2. /\ 3 * a + (3 * j - 2) = 3 * (a + j) - 2
          /\ 3 * a + (3 * j - 1) = 3 * (a + j) - 1
          /\ 3 * a + 3 * j = 3 * (a + j)
      BY <1>1, <1>2
    <3>3. /\ text[3 * j - 2] = Lines(w)[3 * (a + j) - 2]
          /\ text[3 * j - 1] = Lines(w)[3 * (a + j) - 1]
          /\ text[3 * j] = Lines(w)[3 * (a + j)]
      BY <1>6, <3>1, <3>2
    <3> QED BY <1>5, <2>1, <3>3
  <2>3. /\ f[3 * j - 2] = Feed(f[3 * (j - 1)], Half(1, c))
        /\ f[3 * j - 1] = Feed(f[3 * j - 2], Half(2, c))
        /\ f[3 * j] = Feed(f[3 * j - 1], LF)
    <3>1. 3 * j - 2 \in 1..L /\ 3 * j - 1 \in 1..L /\ 3 * j \in 1..L
      BY <1>1, <1>2
    <3>2. (3 * j - 2) - 1 = 3 * (j - 1) /\ (3 * j - 1) - 1 = 3 * j - 2
      BY <1>2
    <3> HIDE DEF c
    <3> QED BY <1>3, <2>2, <3>1, <3>2
  <2>4. f[3 * (j - 1)] = [chunks |-> s, rest |-> <<>>]
    BY <1>8
  <2>5. f[3 * j] = [chunks |-> s \o <<c>>, rest |-> <<>>]
    <3> HIDE DEF c, s
    <3>1. /\ Feed([chunks |-> s, rest |-> <<>>], Half(1, c)) = [chunks |-> s, rest |-> First(c)]
          /\ Feed([chunks |-> s, rest |-> First(c)], Half(2, c)) = [chunks |-> s, rest |-> Both(c)]
          /\ Feed([chunks |-> s, rest |-> Both(c)], LF) = [chunks |-> s \o <<c>>, rest |-> <<>>]
      BY <2>1, LineFeeds, Zenon
    <3> QED BY <2>3, <2>4, <3>1, Zenon
  <2>6. s \o <<c>> = Slice(w, a, a + j)
    <3>1. j \in Nat \ {0} /\ a + j <= Len(w)
      BY <1>1, <1>2 DEF N
    <3> QED BY <1>1, <3>1, SliceGrows
  <2>7. j \in 0..m
    BY <1>2
  <2> HIDE DEF c, s
  <2>8. f[3 * j] = At(j)
    BY <2>5, <2>6
  <2> HIDE DEF At
  <2> QED BY <2>7, <2>8
<1>9. f[3 * m] = At(m)
  <2>1. \A j \in 0..m : j \in Whole
    <3> HIDE DEF m, Whole
    <3> QED BY <1>2, <1>7, <1>8, Ascends
  <2> HIDE DEF m, At
  <2> QED BY <1>2, <2>1
<1>10. Goes(w, a, text, a + m, e)
  <2>1. L = 3 * ((a + m) - a) + e
    <3> HIDE DEF m, e, L
    <3> QED BY <1>1, <1>2
  <2> HIDE DEF m, e
  <2> QED BY <1>2, <2>1 DEF Goes
<1> DEFINE c == w[a + m + 1]
           s == Slice(w, a, a + m)
<1>11. e > 0 => /\ c \in Chunk /\ a + m + 1 \in 1..N
                /\ Lines(w)[3 * (a + m) + 1] = Half(1, c)
                /\ Lines(w)[3 * (a + m) + 2] = Half(2, c)
  <2> HIDE DEF m, e, L, N
  <2> SUFFICES ASSUME e > 0 PROVE /\ c \in Chunk /\ a + m + 1 \in 1..N
                /\ Lines(w)[3 * (a + m) + 1] = Half(1, c)
                /\ Lines(w)[3 * (a + m) + 2] = Half(2, c)
    OBVIOUS
  <2>1. a + m + 1 \in 1..N
    BY <1>1, <1>2 DEF N, L
  <2>2. 3 * (a + m + 1) - 2 = 3 * (a + m) + 1 /\ 3 * (a + m + 1) - 1 = 3 * (a + m) + 2
    BY <1>1, <1>2
  <2> HIDE DEF c
  <2> QED BY <1>4, <1>5, <2>1, <2>2 DEF c
<1>12. e > 0 => f[3 * m + 1] = [chunks |-> s, rest |-> First(c)]
  <2> SUFFICES ASSUME e > 0 PROVE f[3 * m + 1] = [chunks |-> s, rest |-> First(c)]
    OBVIOUS
  <2> HIDE DEF m, e, L, N
  <2>1. 3 * m + 1 \in 1..L /\ (3 * m + 1) - 1 = 3 * m /\ 3 * a + (3 * m + 1) = 3 * (a + m) + 1
    BY <1>1, <1>2
  <2>2. text[3 * m + 1] = Half(1, c)
    <3> HIDE DEF c
    <3> QED BY <1>6, <1>11, <2>1
  <2>3. f[3 * m + 1] = Feed(At(m), Half(1, c))
    <3> HIDE DEF c, At
    <3> QED BY <1>3, <1>9, <2>1, <2>2
  <2> HIDE DEF c, s
  <2> QED BY <1>11, <2>3, LineFeeds DEF s
<1>13. e = 2 => f[3 * m + 2] = [chunks |-> s, rest |-> Both(c)]
  <2> SUFFICES ASSUME e = 2 PROVE f[3 * m + 2] = [chunks |-> s, rest |-> Both(c)]
    OBVIOUS
  <2> HIDE DEF m, e, L, N
  <2>1. 3 * m + 2 \in 1..L /\ (3 * m + 2) - 1 = 3 * m + 1 /\ 3 * a + (3 * m + 2) = 3 * (a + m) + 2
    BY <1>1, <1>2
  <2>2. text[3 * m + 2] = Half(2, c)
    <3> HIDE DEF c
    <3> QED BY <1>6, <1>11, <2>1
  <2>3. f[3 * m + 2] = Feed(f[3 * m + 1], Half(2, c))
    <3> HIDE DEF c
    <3> QED BY <1>3, <2>1, <2>2
  <2> HIDE DEF c, s
  <2>4. e > 0
    OBVIOUS
  <2>5. /\ Feed([chunks |-> s, rest |-> <<>>], Half(1, c)) = [chunks |-> s, rest |-> First(c)]
          /\ Feed([chunks |-> s, rest |-> First(c)], Half(2, c)) = [chunks |-> s, rest |-> Both(c)]
          /\ Feed([chunks |-> s, rest |-> Both(c)], LF) = [chunks |-> s \o <<c>>, rest |-> <<>>]
    BY <1>11, <2>4, LineFeeds, Zenon
  <2> QED BY <1>12, <2>3, <2>4, <2>5, Zenon
<1>14. /\ Cut(text).chunks = Slice(w, a, a + m)
       /\ Begun(w, a + m, e, Cut(text).rest)
  <2>0. c \in Chunk => Half(1, c) \in Piece /\ Half(2, c) \in Piece
    <3> HIDE DEF c
    <3> QED BY DEF Piece, Half
  <2> HIDE DEF m, e, L, N
  <2>1. CASE e = 0
    <3>1. Cut(text) = [chunks |-> s, rest |-> <<>>]
      BY <1>2, <1>3, <1>9, <2>1
    <3>2. Begun(w, a + m, e, <<>>)
      BY <2>1 DEF Begun
    <3> HIDE DEF s
    <3> QED BY <3>1, <3>2 DEF s
  <2>2. CASE e = 1
    <3>1. Cut(text) = [chunks |-> s, rest |-> First(c)]
      BY <1>2, <1>3, <1>12, <2>2
    <3>2. Begun(w, a + m, e, First(c))
      <4> DEFINE held == First(c)
      <4>1. held \in Seq(Piece) /\ Len(held) = 1 /\ held[1] = Half(1, c)
        <5> HIDE DEF c
        <5> QED BY <1>11, <2>0, <2>2 DEF First
      <4> HIDE DEF held, c
      <4> QED BY <1>11, <2>2, <4>1 DEF Begun, held
    <3> HIDE DEF s, c
    <3> QED BY <3>1, <3>2 DEF s
  <2>3. CASE e = 2
    <3>1. Cut(text) = [chunks |-> s, rest |-> Both(c)]
      BY <1>2, <1>3, <1>13, <2>3
    <3>2. Begun(w, a + m, e, Both(c))
      <4> DEFINE held == Both(c)
      <4>1. held \in Seq(Piece) /\ Len(held) = 2 /\ held[1] = Half(1, c) /\ held[2] = Half(2, c)
        <5> HIDE DEF c
        <5> QED BY <1>11, <2>0, <2>3 DEF Both
      <4> HIDE DEF held, c
      <4> QED BY <1>11, <2>3, <4>1 DEF Begun, held
    <3> HIDE DEF s, c
    <3> QED BY <3>1, <3>2 DEF s
  <2> QED BY <1>2, <2>1, <2>2, <2>3
<1> HIDE DEF m, e
<1> QED BY <1>10, <1>14

LEMMA OfTypeIs ==
    ASSUME NEW type, NEW chunks, Len(chunks) \in Nat
    PROVE  \E f : /\ f[0] = <<>>
                  /\ \A i \in 1..Len(chunks) :
                        f[i] = IF chunks[i].type = type THEN Append(f[i - 1], chunks[i]) ELSE f[i - 1]
                  /\ OfType(type, chunks) = f[Len(chunks)]
<1> DEFINE n == Len(chunks)
           Passed(i, s) == IF chunks[i].type = type THEN Append(s, chunks[i]) ELSE s
           Upto(i, g) == g = [j \in 0..i |-> IF j = 0 THEN <<>> ELSE Passed(j, g[j - 1])]
           Reached == {i \in 0..n : \E g : Upto(i, g)}
<1>1. 0 \in Reached
  <2> HIDE DEF Passed
  <2>1. Upto(0, [j \in 0..0 |-> <<>>])
    BY SMT
  <2> HIDE DEF Upto
  <2> QED BY <2>1
<1>2. ASSUME NEW i \in 1..n, i - 1 \in Reached PROVE i \in Reached
  <2> HIDE DEF Passed
  <2>1. PICK g : Upto(i - 1, g)
    BY <1>2
  <2> DEFINE h == [j \in 0..i |-> IF j = i THEN Passed(i, g[i - 1]) ELSE g[j]]
  <2>2. ASSUME NEW j \in 0..i PROVE h[j] = IF j = 0 THEN <<>> ELSE Passed(j, h[j - 1])
    <3>1. CASE j = i
      BY <3>1
    <3>2. CASE j # i
      <4>1. j \in 0..(i - 1) /\ (j # 0 => j - 1 \in 0..i /\ j - 1 # i)
        BY <3>2
      <4>2. h[j] = g[j] /\ (j # 0 => h[j - 1] = g[j - 1])
        BY <4>1
      <4>3. g[j] = IF j = 0 THEN <<>> ELSE Passed(j, g[j - 1])
        BY <2>1, <4>1
      <4> QED BY <4>2, <4>3
    <3> QED BY <3>1, <3>2
  <2>3. h = [j \in 0..i |-> IF j = 0 THEN <<>> ELSE Passed(j, h[j - 1])]
    BY <2>2
  <2>4. Upto(i, h)
    BY <2>3
  <2> HIDE DEF Upto, h
  <2> QED BY <2>4
<1>3. n \in Reached
  <2> HIDE DEF Reached
  <2>1. n \in Nat /\ n \in 0..n
    OBVIOUS
  <2>2. \A i \in 1..n : i - 1 \in Reached => i \in Reached
    BY <1>2
  <2> HIDE DEF n
  <2> QED BY <1>1, <2>1, <2>2, Ascends
<1>4. \E g : Upto(n, g)
  BY <1>3
<1> DEFINE f == CHOOSE g : Upto(n, g)
<1>5. Upto(n, f)
  BY <1>4
<1>6. OfType(type, chunks) = f[n]
  BY DEF OfType
<1> HIDE DEF f, Passed
<1>7. f = [j \in 0..n |-> IF j = 0 THEN <<>> ELSE Passed(j, f[j - 1])]
  BY <1>5
<1>8. f[0] = <<>> /\ \A i \in 1..n : f[i] = Passed(i, f[i - 1])
  <2>1. \A j \in 0..n : f[j] = IF j = 0 THEN <<>> ELSE Passed(j, f[j - 1])
    BY <1>7, Zenon
  <2>2. n \in Nat
    OBVIOUS
  <2> HIDE DEF n
  <2> QED BY <2>1, <2>2
<1> QED BY <1>6, <1>8 DEF Passed

\* Where the chunks of a type are the first m, these are what OfType gives.
LEMMA OfTypeFirst ==
    ASSUME NEW type, NEW w \in Seq(Chunk), NEW m \in 0..Len(w),
           \A i \in 1..Len(w) : w[i].type = type <=> i <= m
    PROVE  OfType(type, w) = Slice(w, 0, m)
<1> DEFINE n == Len(w)
           Now(i) == IF i <= m THEN i ELSE m
<1>1. n \in Nat /\ m \in Nat
  OBVIOUS
<1>2. PICK f : /\ f[0] = <<>>
               /\ \A i \in 1..n :
                      f[i] = IF w[i].type = type THEN Append(f[i - 1], w[i]) ELSE f[i - 1]
               /\ OfType(type, w) = f[n]
  BY <1>1, OfTypeIs
<1> DEFINE So == {i \in 0..n : f[i] = Slice(w, 0, Now(i))}
<1>3. 0 \in So
  <2>1. Slice(w, 0, 0) = <<>>
    BY DEF Slice
  <2>2. Now(0) = 0
    BY <1>1
  <2> QED BY <1>1, <1>2, <2>1, <2>2
<1>4. ASSUME NEW i \in 1..n, i - 1 \in So PROVE i \in So
  <2>1. f[i - 1] = Slice(w, 0, Now(i - 1))
    BY <1>4
  <2>2. CASE i <= m
    <3>1. Now(i - 1) = i - 1 /\ Now(i) = i /\ w[i].type = type
      BY <1>1, <2>2
    <3>2. f[i] = Append(Slice(w, 0, i - 1), w[i])
      BY <1>2, <2>1, <3>1
    <3>3. i \in Nat \ {0} /\ 0 + i <= Len(w) /\ 0 + (i - 1) = i - 1 /\ 0 + i = i
      OBVIOUS
    <3>4. Append(Slice(w, 0, i - 1), w[i]) = Slice(w, 0, i)
      <4>1. Append(Slice(w, 0, 0 + (i - 1)), w[0 + i]) = Slice(w, 0, 0 + i)
        <5>1. 0 \in Nat
          OBVIOUS
        <5> QED BY <3>3, <5>1, SliceGrows
      <4> QED BY <3>3, <4>1
    <3>5. f[i] = Slice(w, 0, i)
      BY <3>2, <3>4, Zenon
    <3> QED BY <3>1, <3>5
  <2>3. CASE ~(i <= m)
    <3>1. Now(i - 1) = m /\ Now(i) = m /\ w[i].type # type
      BY <1>1, <2>3
    <3>2. f[i] = f[i - 1]
      BY <1>2, <3>1
    <3> QED BY <2>1, <3>1, <3>2
  <2> QED BY <2>2, <2>3
<1>5. f[n] = Slice(w, 0, Now(n))
  <2>1. \A i \in 1..n : i - 1 \in So => i \in So
    BY <1>4
  <2>2. n \in 0..n
    BY <1>1
  <2>3. n \in So
    <3> HIDE DEF So, n
    <3> QED BY <1>1, <1>3, <2>1, <2>2, Ascends
  <2> QED BY <2>3
<1>6. Now(n) = m
  BY <1>1
<1> QED BY <1>2, <1>5, <1>6

\* A reader of the text of w has read the lines up to a and holds the first e pieces of
\* the next; what it has not read is `rest'.
Reading(w, a, e, held, rest) ==
    /\ a \in 0..Len(w) /\ e \in 0..2 /\ 3 * a + e <= 3 * Len(w)
    /\ Begun(w, a, e, held)
    /\ rest \in Seq(Piece) /\ Len(rest) = 3 * Len(w) - (3 * a + e)
    /\ \A i \in 1..Len(rest) : rest[i] = Lines(w)[3 * a + e + i]

LEMMA ReadsFresh ==
    ASSUME NEW w \in Seq(Chunk) PROVE Reading(w, 0, 0, <<>>, Lines(w))
<1>1. Lines(w) \in Seq(Piece) /\ Len(Lines(w)) = 3 * Len(w)
  BY LinesAre
<1>2. Begun(w, 0, 0, <<>>)
  BY DEF Begun
<1>3. Len(w) \in Nat
  OBVIOUS
<1> QED BY <1>1, <1>2, <1>3 DEF Reading

\* Who has read everything holds nothing.
LEMMA ReadsAll ==
    ASSUME NEW w \in Seq(Chunk), NEW a, NEW e, NEW held, NEW rest,
           Reading(w, a, e, held, rest), rest = <<>>
    PROVE  a = Len(w) /\ e = 0 /\ held = <<>>
<1>1. Len(w) \in Nat /\ a \in 0..Len(w) /\ e \in 0..2 /\ 0 = 3 * Len(w) - (3 * a + e)
  BY DEF Reading
<1>2. a = Len(w) /\ e = 0
  BY <1>1
<1>3. held = <<>>
  BY <1>2 DEF Reading, Begun
<1> QED BY <1>2, <1>3

\* A read of any length gives the lines that end in it.
LEMMA ReadsOn ==
    ASSUME NEW w \in Seq(Chunk), NEW a, NEW e, NEW held, NEW rest,
           Reading(w, a, e, held, rest), NEW read \in Reads(rest)
    PROVE  \E b, d : /\ b \in a..Len(w)
                     /\ Cut(held \o read).chunks = Slice(w, a, b)
                     /\ Reading(w, b, d, Cut(held \o read).rest, Unread(rest, read))
<1> DEFINE N == Len(w)
           text == held \o read
           left == Unread(rest, read)
<1>1. N \in Nat /\ a \in 0..N /\ e \in 0..2 /\ 3 * a + e <= 3 * N
  BY DEF Reading
<1>2. held \in Seq(Piece) /\ Len(held) = e /\ \A i \in 1..e : held[i] = Lines(w)[3 * a + i]
  BY DEF Reading, Begun
<1>3. /\ rest \in Seq(Piece) /\ Len(rest) = 3 * N - (3 * a + e)
      /\ \A i \in 1..Len(rest) : rest[i] = Lines(w)[3 * a + e + i]
  BY DEF Reading
<1>4. PICK k \in 1..Len(rest) : read = SubSeq(rest, 1, k)
  BY DEF Reads
<1> HIDE DEF N
<1>5. read \in Seq(Piece) /\ Len(read) = k /\ \A i \in 1..k : read[i] = rest[i]
  BY <1>3, <1>4
<1>6. left \in Seq(Piece) /\ Len(left) = Len(rest) - k
      /\ \A i \in 1..(Len(rest) - k) : left[i] = rest[k + i]
  BY <1>3, <1>4, <1>5 DEF Unread
<1>7. /\ text \in Seq(Piece) /\ Len(text) = e + k
      /\ \A i \in 1..e : text[i] = held[i]
      /\ \A i \in 1..k : text[e + i] = read[i]
  <2>1. held \in Seq(Piece) /\ read \in Seq(Piece)
    BY <1>2, <1>5
  <2>2. /\ text \in Seq(Piece) /\ Len(text) = Len(held) + Len(read)
        /\ \A i \in 1..Len(held) : text[i] = held[i]
        /\ \A i \in 1..Len(read) : text[Len(held) + i] = read[i]
    BY <2>1, Joined
  <2> HIDE DEF text
  <2> QED BY <1>2, <1>5, <2>2
<1>8. ASSUME NEW i \in 1..(e + k) PROVE text[i] = Lines(w)[3 * a + i]
  <2>1. CASE i <= e
    <3>1. i \in 1..e
      BY <1>1, <2>1
    <3> HIDE DEF text
    <3> QED BY <1>2, <1>7, <3>1
  <2>2. CASE ~(i <= e)
    <3>1. e + (i - e) = i /\ i - e \in 1..k /\ 3 * a + e + (i - e) = 3 * a + i
      BY <1>1, <2>2
    <3>2. i - e \in 1..Len(rest)
      BY <1>3, <3>1
    <3> HIDE DEF text
    <3>3. text[i] = read[i - e]
      BY <1>7, <3>1
    <3> QED BY <1>3, <1>5, <3>1, <3>2, <3>3
  <2> QED BY <2>1, <2>2
<1> HIDE DEF text, left
<1>9. PICK b, d : /\ Goes(w, a, text, b, d)
                  /\ Cut(text).chunks = Slice(w, a, b)
                  /\ Begun(w, b, d, Cut(text).rest)
  <2>1. 3 * a + Len(text) <= 3 * Len(w)
    BY <1>1, <1>3, <1>7 DEF N
  <2>2. a \in 0..Len(w)
    BY <1>1 DEF N
  <2>3. \A i \in 1..Len(text) : text[i] = Lines(w)[3 * a + i]
    BY <1>7, <1>8
  <2> QED BY <1>7, <2>1, <2>2, <2>3, CutLines
<1>10. b \in a..N /\ d \in 0..2 /\ e + k = 3 * (b - a) + d
  BY <1>7, <1>9 DEF Goes, N
<1>11. 3 * b + d = 3 * a + e + k
  BY <1>1, <1>10
<1>12. Reading(w, b, d, Cut(text).rest, left)
  <2>1. b \in 0..N /\ 3 * b + d <= 3 * N
    <3>1. k <= 3 * N - (3 * a + e)
      BY <1>1, <1>3
    <3> QED BY <1>1, <1>10, <1>11, <3>1
  <2>2. Len(left) = 3 * N - (3 * b + d)
    <3>1. Len(left) = (3 * N - (3 * a + e)) - k
      BY <1>3, <1>6
    <3>2. a \in Int /\ b \in Int /\ N \in Int /\ e \in Int /\ d \in Int /\ k \in Int
      BY <1>1, <1>10
    <3> QED BY <1>11, <3>1, <3>2
  <2>3. ASSUME NEW i \in 1..Len(left) PROVE left[i] = Lines(w)[3 * b + d + i]
    <3>1. Len(rest) \in Nat /\ i \in 1..(Len(rest) - k) /\ i \in Int
      BY <1>3, <1>6
    <3>2. k + i \in 1..Len(rest)
      BY <3>1
    <3>3. 3 * a + e + (k + i) = 3 * b + d + i
      <4>1. a \in Int /\ b \in Int /\ e \in Int /\ d \in Int /\ k \in Int
        BY <1>1, <1>10
      <4> QED BY <1>11, <3>1, <4>1
    <3> QED BY <1>3, <1>6, <3>1, <3>2, <3>3
  <2> QED BY <1>6, <1>9, <1>10, <2>1, <2>2, <2>3 DEF Reading, N
<1>13. b \in a..Len(w)
  BY <1>10 DEF N
<1> QED BY <1>9, <1>12, <1>13 DEF text, left

\* Who is cut off, at most three pieces short of the whole, reads as if the rest were there.
CutOff(text, rest) ==
    /\ text \in Seq(Piece) /\ rest \in Seq(Piece) /\ Len(rest) \in Len(text)..(Len(text) + 3)
    /\ \A i \in 1..Len(text) : text[i] = rest[i]

LEMMA ReadsCutOff ==
    ASSUME NEW text, NEW rest, CutOff(text, rest), NEW read \in Reads(text)
    PROVE  read \in Reads(rest) /\ CutOff(Unread(text, read), Unread(rest, read))
<1>1. /\ text \in Seq(Piece) /\ rest \in Seq(Piece) /\ Len(text) \in Nat /\ Len(rest) \in Nat
      /\ Len(rest) \in Len(text)..(Len(text) + 3)
      /\ \A i \in 1..Len(text) : text[i] = rest[i]
  BY DEF CutOff
<1>2. PICK k \in 1..Len(text) : read = SubSeq(text, 1, k)
  BY DEF Reads
<1>3. k \in 1..Len(rest)
  BY <1>1
<1>4. read \in Seq(Piece) /\ Len(read) = k /\ \A i \in 1..k : read[i] = text[i]
  BY <1>1, <1>2
<1> DEFINE same == SubSeq(rest, 1, k)
           left == Unread(text, read)
           more == Unread(rest, read)
<1>5. same \in Seq(Piece) /\ Len(same) = k /\ \A i \in 1..k : same[i] = rest[i]
  BY <1>1, <1>3
<1> HIDE DEF same
<1>6. read = same
  <2>1. \A i \in 1..Len(read) : read[i] = same[i]
    BY <1>1, <1>4, <1>5
  <2> QED BY <1>4, <1>5, <2>1, SameSequence
<1>7. read \in Reads(rest)
  BY <1>3, <1>6 DEF Reads, same
<1>8. /\ left \in Seq(Piece) /\ Len(left) = Len(text) - k
      /\ \A i \in 1..(Len(text) - k) : left[i] = text[k + i]
  BY <1>1, <1>4 DEF Unread
<1>9. /\ more \in Seq(Piece) /\ Len(more) = Len(rest) - k
      /\ \A i \in 1..(Len(rest) - k) : more[i] = rest[k + i]
  BY <1>1, <1>3, <1>4 DEF Unread
<1> HIDE DEF left, more
<1>10. \A i \in 1..Len(left) : left[i] = more[i]
  <2> TAKE i \in 1..Len(left)
  <2>1. i \in 1..(Len(text) - k) /\ i \in 1..(Len(rest) - k) /\ k + i \in 1..Len(text)
    BY <1>1, <1>8
  <2> QED BY <1>1, <1>8, <1>9, <2>1
<1>11. Len(more) \in Len(left)..(Len(left) + 3)
  BY <1>1, <1>2, <1>8, <1>9
<1>12. CutOff(left, more)
  BY <1>8, <1>9, <1>10, <1>11 DEF CutOff
<1> QED BY <1>7, <1>12 DEF left, more

\* The text of two sequences of chunks is the one's text, then the other's.
LEMMA LinesOfBoth ==
    ASSUME NEW w \in Seq(Chunk), NEW x \in Seq(Chunk)
    PROVE  /\ \A i \in 1..(3 * Len(w)) : Lines(w \o x)[i] = Lines(w)[i]
           /\ \A i \in 1..(3 * Len(x)) : Lines(w \o x)[3 * Len(w) + i] = Lines(x)[i]
<1> DEFINE N == Len(w)
           M == Len(x)
           v == w \o x
<1>1. N \in Nat /\ M \in Nat
  OBVIOUS
<1>2. v \in Seq(Chunk) /\ Len(v) = N + M
  OBVIOUS
<1>3. \A j \in 1..N : v[j] = w[j]
  OBVIOUS
<1>4. \A j \in 1..M : v[N + j] = x[j]
  OBVIOUS
<1>5. \A i \in 1..(3 * N) : Lines(w)[i] = Line(w[(i + 2) \div 3])[((i + 2) % 3) + 1]
  BY DEF Lines
<1>6. \A i \in 1..(3 * M) : Lines(x)[i] = Line(x[(i + 2) \div 3])[((i + 2) % 3) + 1]
  BY DEF Lines
<1>7. \A i \in 1..(3 * (N + M)) : Lines(v)[i] = Line(v[(i + 2) \div 3])[((i + 2) % 3) + 1]
  <2> HIDE DEF v
  <2> QED BY <1>2 DEF Lines
<1> HIDE DEF N, M, v
<1>8. ASSUME NEW i \in 1..(3 * N) PROVE Lines(v)[i] = Lines(w)[i]
  <2>1. i \in 1..(3 * (N + M)) /\ (i + 2) \div 3 \in 1..N
    BY <1>1
  <2>2. v[(i + 2) \div 3] = w[(i + 2) \div 3]
    BY <1>3, <2>1
  <2>3. Lines(v)[i] = Line(v[(i + 2) \div 3])[((i + 2) % 3) + 1]
    BY <1>7, <2>1
  <2>4. Lines(w)[i] = Line(w[(i + 2) \div 3])[((i + 2) % 3) + 1]
    BY <1>5
  <2> QED BY <2>2, <2>3, <2>4
<1>9. ASSUME NEW i \in 1..(3 * M) PROVE Lines(v)[3 * N + i] = Lines(x)[i]
  <2>1. /\ 3 * N + i \in 1..(3 * (N + M)) /\ (i + 2) \div 3 \in 1..M
        /\ ((3 * N + i) + 2) \div 3 = N + ((i + 2) \div 3)
        /\ ((3 * N + i) + 2) % 3 = (i + 2) % 3
    BY <1>1
  <2>2. v[N + ((i + 2) \div 3)] = x[(i + 2) \div 3]
    BY <1>4, <2>1
  <2>3. Lines(v)[3 * N + i] = Line(v[((3 * N + i) + 2) \div 3])[(((3 * N + i) + 2) % 3) + 1]
    BY <1>7, <2>1
  <2>4. Lines(x)[i] = Line(x[(i + 2) \div 3])[((i + 2) % 3) + 1]
    BY <1>6
  <2>5. Line(v[((3 * N + i) + 2) \div 3])[(((3 * N + i) + 2) % 3) + 1]
        = Line(v[N + ((i + 2) \div 3)])[((i + 2) % 3) + 1]
    BY <2>1
  <2> QED BY <2>2, <2>3, <2>4, <2>5
<1> QED BY <1>8, <1>9 DEF N, M, v

\* What is written goes on where the text ended.
LEMMA WritesOn ==
    ASSUME NEW w \in Seq(Chunk), NEW x \in Seq(Chunk), NEW a, NEW e, NEW held, NEW rest,
           Reading(w, a, e, held, rest)
    PROVE  Reading(w \o x, a, e, held, rest \o Lines(x))
<1> DEFINE N == Len(w)
           M == Len(x)
           v == w \o x
           more == rest \o Lines(x)
<1>1. N \in Nat /\ M \in Nat /\ Len(v) = N + M
  OBVIOUS
<1>2. a \in 0..N /\ e \in 0..2 /\ 3 * a + e <= 3 * N
  BY DEF Reading
<1>3. held \in Seq(Piece) /\ Len(held) = e /\ \A i \in 1..e : held[i] = Lines(w)[3 * a + i]
  BY DEF Reading, Begun
<1>4. /\ rest \in Seq(Piece) /\ Len(rest) = 3 * N - (3 * a + e)
      /\ \A i \in 1..Len(rest) : rest[i] = Lines(w)[3 * a + e + i]
  BY DEF Reading
<1>5. Lines(x) \in Seq(Piece) /\ Len(Lines(x)) = 3 * M
  BY LinesAre
<1>6. /\ \A i \in 1..(3 * N) : Lines(v)[i] = Lines(w)[i]
      /\ \A i \in 1..(3 * M) : Lines(v)[3 * N + i] = Lines(x)[i]
  BY LinesOfBoth
<1> HIDE DEF N, M, v
<1>7. /\ more \in Seq(Piece) /\ Len(more) = Len(rest) + 3 * M
      /\ \A i \in 1..Len(rest) : more[i] = rest[i]
      /\ \A i \in 1..(3 * M) : more[Len(rest) + i] = Lines(x)[i]
  <2>1. rest \in Seq(Piece) /\ Lines(x) \in Seq(Piece)
    BY <1>4, <1>5
  <2>2. /\ more \in Seq(Piece) /\ Len(more) = Len(rest) + Len(Lines(x))
        /\ \A i \in 1..Len(rest) : more[i] = rest[i]
        /\ \A i \in 1..Len(Lines(x)) : more[Len(rest) + i] = Lines(x)[i]
    BY <2>1, Joined
  <2> HIDE DEF more
  <2> QED BY <1>5, <2>2
<1>8. ASSUME NEW i \in 1..Len(more) PROVE more[i] = Lines(v)[3 * a + e + i]
  <2>1. CASE i <= Len(rest)
    <3>2. i \in 1..Len(rest) /\ Len(rest) = 3 * N - (3 * a + e)
      BY <1>4, <2>1
    <3>1. more[i] = rest[i]
      BY <1>7, <3>2
    <3>3. 3 * a + e + i \in 1..(3 * N)
      BY <1>1, <1>2, <3>2
    <3> HIDE DEF more
    <3> QED BY <1>4, <1>6, <3>1, <3>2, <3>3
  <2>2. CASE ~(i <= Len(rest))
    <3>0. Len(rest) \in Nat /\ Len(rest) = 3 * N - (3 * a + e) /\ i \in 1..(Len(rest) + 3 * M)
      BY <1>4, <1>7
    <3>1. i - Len(rest) \in 1..(3 * M) /\ 3 * N + (i - Len(rest)) = 3 * a + e + i
      BY <1>1, <1>2, <2>2, <3>0
    <3> HIDE DEF more
    <3>2. more[i] = Lines(x)[i - Len(rest)]
      <4>1. Len(rest) + (i - Len(rest)) = i
        BY <3>0
      <4> QED BY <1>7, <3>1, <4>1
    <3> QED BY <1>6, <3>1, <3>2
  <2> QED BY <2>1, <2>2
<1> HIDE DEF more
<1>9. Begun(v, a, e, held)
  <2>1. \A i \in 1..e : 3 * a + i \in 1..(3 * N)
    BY <1>1, <1>2
  <2> QED BY <1>3, <1>6, <2>1 DEF Begun
<1>10. a \in 0..Len(v) /\ 3 * a + e <= 3 * Len(v) /\ Len(more) = 3 * Len(v) - (3 * a + e)
  <2>1. Len(more) = (3 * N - (3 * a + e)) + 3 * M
    BY <1>4, <1>7
  <2> QED BY <1>1, <1>2, <2>1
<1>11. Reading(v, a, e, held, more)
  BY <1>2, <1>7, <1>8, <1>9, <1>10 DEF Reading
<1> QED BY <1>11 DEF v, more

-----------------------------------------------------------------------------
(* What is said.                                                           *)

TokenOf(r, n) == [type |-> "token", run |-> r, n |-> n]
MetricsOf(r, n) == [type |-> "metrics", run |-> r, n |-> n]
DoneOf(r) == [type |-> "done", run |-> r, n |-> 0]
ErrorOf(r) == [type |-> "error", run |-> r, n |-> 0]

Lesser(a, b) == IF a <= b THEN a ELSE b

\* What the provider's stream to run r is of: n tokens, and a last line that it may not get to
\* say, or not whole.
Lasts(r) == {DoneOf(r), ErrorOf(r)}
Full(r, n, last) == [i \in 1..(n + 1) |-> IF i <= n THEN TokenOf(r, i) ELSE last]

\* What the controller has written when it has passed on t tokens, and how it ended.
More(how) == IF how = "no" THEN 0 ELSE IF how = "end" THEN 2 ELSE 1
Written(r, t, how) ==
    [i \in 1..(t + More(how)) |->
        IF i <= t THEN TokenOf(r, i)
        ELSE IF how = "fail" THEN ErrorOf(r)
        ELSE IF i = t + 1 THEN MetricsOf(r, t) ELSE DoneOf(r)]

LEMMA ChunksAre ==
    ASSUME NEW r \in Nat, NEW n \in Nat
    PROVE  /\ TokenOf(r, n) \in Chunk /\ MetricsOf(r, n) \in Chunk
           /\ DoneOf(r) \in Chunk /\ ErrorOf(r) \in Chunk
  BY DEF TokenOf, MetricsOf, DoneOf, ErrorOf, Chunk

LEMMA FullIs ==
    ASSUME NEW r \in Nat, NEW n \in Nat, NEW last \in Lasts(r)
    PROVE  /\ Full(r, n, last) \in Seq(Chunk) /\ Len(Full(r, n, last)) = n + 1
           /\ \A i \in 1..n : Full(r, n, last)[i] = TokenOf(r, i)
           /\ Full(r, n, last)[n + 1] = last
           /\ \A i \in 1..(n + 1) : Full(r, n, last)[i].type = "token" <=> i <= n
<1> DEFINE w == Full(r, n, last)
<1>1. w = [i \in 1..(n + 1) |-> IF i <= n THEN TokenOf(r, i) ELSE last]
  BY DEF Full
<1>0. last \in Chunk /\ last.type # "token"
  <2>1. DoneOf(r) \in Chunk /\ ErrorOf(r) \in Chunk
    BY ChunksAre
  <2>2. DoneOf(r).type # "token" /\ ErrorOf(r).type # "token"
    BY DEF DoneOf, ErrorOf
  <2>3. last = DoneOf(r) \/ last = ErrorOf(r)
    BY DEF Lasts
  <2> QED BY <2>1, <2>2, <2>3
<1>2. \A i \in 1..(n + 1) : w[i] \in Chunk
  BY <1>0, <1>1, ChunksAre
<1> HIDE DEF w
<1>3. \A i \in 1..(n + 1) : w[i] = IF i <= n THEN TokenOf(r, i) ELSE last
  BY <1>1
<1>4. w \in Seq(Chunk) /\ Len(w) = n + 1
  <2>1. DOMAIN w = 1..(n + 1) /\ w = [i \in 1..(n + 1) |-> w[i]]
    BY <1>1
  <2> QED BY <1>2, <2>1
<1>5. \A i \in 1..n : w[i] = TokenOf(r, i)
  BY <1>3
<1>6. w[n + 1] = last
  BY <1>3
<1>7. \A i \in 1..(n + 1) : w[i].type = "token" <=> i <= n
  <2> SUFFICES ASSUME NEW i \in 1..(n + 1) PROVE w[i].type = "token" <=> i <= n
    OBVIOUS
  <2>1. CASE i <= n
    <3>1. w[i] = TokenOf(r, i)
      BY <1>3, <2>1
    <3>2. TokenOf(r, i).type = "token"
      BY DEF TokenOf
    <3> QED BY <2>1, <3>1, <3>2
  <2>2. CASE ~(i <= n)
    <3>1. w[i] = last
      BY <1>3, <2>2
    <3> QED BY <1>0, <2>2, <3>1
  <2> QED BY <2>1, <2>2
<1> QED BY <1>4, <1>5, <1>6, <1>7 DEF w

LEMMA WrittenIs ==
    ASSUME NEW r \in Nat, NEW t \in Nat, NEW how \in {"no", "end", "fail"}
    PROVE  /\ Written(r, t, how) \in Seq(Chunk) /\ Len(Written(r, t, how)) = t + More(how)
           /\ More(how) \in 0..2
           /\ \A i \in 1..t : Written(r, t, how)[i] = TokenOf(r, i)
           /\ how = "fail" => Written(r, t, how)[t + 1] = ErrorOf(r)
           /\ how = "end" => /\ Written(r, t, how)[t + 1] = MetricsOf(r, t)
                             /\ Written(r, t, how)[t + 2] = DoneOf(r)
<1> DEFINE w == Written(r, t, how)
           m == More(how)
<1>1. m \in 0..2 /\ (how = "no" <=> m = 0) /\ (how = "end" <=> m = 2) /\ (how = "fail" <=> m = 1)
  BY DEF More
<1> HIDE DEF m
<1>2. w = [i \in 1..(t + m) |->
            IF i <= t THEN TokenOf(r, i)
            ELSE IF how = "fail" THEN ErrorOf(r)
            ELSE IF i = t + 1 THEN MetricsOf(r, t) ELSE DoneOf(r)]
  BY DEF Written, m
<1> HIDE DEF w
<1>3. \A i \in 1..(t + m) : w[i] =
            IF i <= t THEN TokenOf(r, i)
            ELSE IF how = "fail" THEN ErrorOf(r)
            ELSE IF i = t + 1 THEN MetricsOf(r, t) ELSE DoneOf(r)
  BY <1>2
<1>4. \A i \in 1..(t + m) : w[i] \in Chunk
  BY <1>3, ChunksAre
<1>5. w \in Seq(Chunk) /\ Len(w) = t + m
  <2>1. DOMAIN w = 1..(t + m) /\ w = [i \in 1..(t + m) |-> w[i]]
    BY <1>2
  <2>2. t + m \in Nat
    BY <1>1
  <2> QED BY <1>4, <2>1, <2>2
<1>6. \A i \in 1..t : w[i] = TokenOf(r, i)
  BY <1>1, <1>3
<1>7. how = "fail" => w[t + 1] = ErrorOf(r)
  BY <1>1, <1>3
<1>8. how = "end" => w[t + 1] = MetricsOf(r, t) /\ w[t + 2] = DoneOf(r)
  BY <1>1, <1>3
<1> QED BY <1>1, <1>5, <1>6, <1>7, <1>8 DEF w, m

LEMMA WrittenOpen ==
    ASSUME NEW r \in Nat, NEW t \in Nat
    PROVE  Written(r, t, "no") \in Seq(Chunk) /\ Len(Written(r, t, "no")) = t
<1>1. Written(r, t, "no") \in Seq(Chunk) /\ Len(Written(r, t, "no")) = t + More("no")
  BY WrittenIs
<1>2. More("no") = 0
  BY DEF More
<1> QED BY <1>1, <1>2

\* The three ways to write.
LEMMA WritesTokens ==
    ASSUME NEW r \in Nat, NEW n \in Nat, NEW last \in Lasts(r), NEW t \in 0..n, NEW u \in t..n
    PROVE  /\ Slice(Full(r, n, last), t, u) \in Seq(Chunk)
           /\ Written(r, t, "no") \o Slice(Full(r, n, last), t, u) = Written(r, u, "no")
<1> DEFINE v == Written(r, t, "no")
           x == Slice(Full(r, n, last), t, u)
           w == Written(r, u, "no")
           z == v \o x
<1>0. \A m \in Nat : /\ Written(r, m, "no") \in Seq(Chunk) /\ Len(Written(r, m, "no")) = m
                     /\ \A i \in 1..m : Written(r, m, "no")[i] = TokenOf(r, i)
  <2> TAKE m \in Nat
  <2>1. "no" \in {"no", "end", "fail"}
    OBVIOUS
  <2>2. \A i \in 1..m : Written(r, m, "no")[i] = TokenOf(r, i)
    BY <2>1, WrittenIs
  <2> QED BY <2>2, WrittenOpen
<1>1. v \in Seq(Chunk) /\ Len(v) = t /\ \A i \in 1..t : v[i] = TokenOf(r, i)
  BY <1>0
<1>2. w \in Seq(Chunk) /\ Len(w) = u /\ \A i \in 1..u : w[i] = TokenOf(r, i)
  BY <1>0
<1>3. x \in Seq(Chunk) /\ Len(x) = u - t /\ \A i \in 1..(u - t) : x[i] = TokenOf(r, t + i)
  <2>1. t \in Nat /\ u \in t..Len(Full(r, n, last)) /\ Full(r, n, last) \in Seq(Chunk)
    BY FullIs
  <2>2. /\ x \in Seq(Chunk) /\ Len(x) = u - t
        /\ \A i \in 1..(u - t) : x[i] = Full(r, n, last)[t + i]
    BY <2>1, SliceIs
  <2>3. \A i \in 1..(u - t) : t + i \in 1..n
    OBVIOUS
  <2>4. \A i \in 1..n : Full(r, n, last)[i] = TokenOf(r, i)
    BY FullIs
  <2> HIDE DEF x
  <2> QED BY <2>2, <2>3, <2>4
<1> HIDE DEF v, x, w
<1>4. /\ z \in Seq(Chunk) /\ Len(z) = t + (u - t)
      /\ \A i \in 1..t : z[i] = v[i]
      /\ \A i \in 1..(u - t) : z[t + i] = x[i]
  <2>1. v \in Seq(Chunk) /\ x \in Seq(Chunk)
    BY <1>1, <1>3
  <2>2. /\ z \in Seq(Chunk) /\ Len(z) = Len(v) + Len(x)
        /\ \A i \in 1..Len(v) : z[i] = v[i]
        /\ \A i \in 1..Len(x) : z[Len(v) + i] = x[i]
    BY <2>1, Joined DEF z
  <2> HIDE DEF z
  <2> QED BY <1>1, <1>3, <2>2
<1> HIDE DEF z
<1>5. Len(z) = Len(w)
  BY <1>2, <1>4
<1>6. ASSUME NEW i \in 1..Len(z) PROVE z[i] = w[i]
  <2>1. i \in 1..u
    BY <1>4
  <2>2. CASE i <= t
    <3>1. i \in 1..t
      BY <2>1, <2>2
    <3> QED BY <1>1, <1>2, <1>4, <2>1, <3>1
  <2>3. CASE ~(i <= t)
    <3>1. i - t \in 1..(u - t) /\ t + (i - t) = i
      BY <2>1, <2>3
    <3> QED BY <1>2, <1>3, <1>4, <2>1, <3>1
  <2> QED BY <2>2, <2>3
<1>7. z = w
  BY <1>2, <1>4, <1>5, <1>6, SameSequence
<1> QED BY <1>3, <1>7 DEF v, x, w, z

LEMMA WritesError ==
    ASSUME NEW r \in Nat, NEW t \in Nat
    PROVE  Written(r, t, "no") \o <<ErrorOf(r)>> = Written(r, t, "fail")
<1> DEFINE v == Written(r, t, "no")
           c == ErrorOf(r)
           x == <<c>>
           w == Written(r, t, "fail")
           z == v \o x
<1>1. v \in Seq(Chunk) /\ Len(v) = t /\ \A i \in 1..t : v[i] = TokenOf(r, i)
  BY WrittenIs DEF More
<1>2. w \in Seq(Chunk) /\ Len(w) = t + 1 /\ (\A i \in 1..t : w[i] = TokenOf(r, i)) /\ w[t + 1] = c
  BY WrittenIs DEF More
<1>3. x \in Seq(Chunk) /\ Len(x) = 1 /\ x[1] = c
  <2>1. c \in Chunk
    BY ChunksAre
  <2> HIDE DEF c
  <2> QED BY <2>1
<1> HIDE DEF v, x, w, c
<1>4. /\ z \in Seq(Chunk) /\ Len(z) = t + 1
      /\ \A i \in 1..t : z[i] = v[i]
      /\ \A i \in 1..1 : z[t + i] = x[i]
  <2>1. v \in Seq(Chunk) /\ x \in Seq(Chunk)
    BY <1>1, <1>3
  <2>2. /\ z \in Seq(Chunk) /\ Len(z) = Len(v) + Len(x)
        /\ \A i \in 1..Len(v) : z[i] = v[i]
        /\ \A i \in 1..Len(x) : z[Len(v) + i] = x[i]
    BY <2>1, Joined DEF z
  <2> HIDE DEF z
  <2> QED BY <1>1, <1>3, <2>2
<1> HIDE DEF z
<1>5. \A i \in 1..Len(z) : z[i] = w[i]
  BY <1>1, <1>2, <1>3, <1>4
<1>6. z = w
  BY <1>2, <1>4, <1>5, SameSequence
<1> QED BY <1>6 DEF v, x, w, z, c

LEMMA WritesEnd ==
    ASSUME NEW r \in Nat, NEW t \in Nat
    PROVE  /\ <<MetricsOf(r, t), DoneOf(r)>> \in Seq(Chunk)
           /\ Written(r, t, "no") \o <<MetricsOf(r, t), DoneOf(r)>> = Written(r, t, "end")
<1> DEFINE v == Written(r, t, "no")
           c == MetricsOf(r, t)
           d == DoneOf(r)
           x == <<c, d>>
           w == Written(r, t, "end")
           z == v \o x
<1>1. v \in Seq(Chunk) /\ Len(v) = t /\ \A i \in 1..t : v[i] = TokenOf(r, i)
  BY WrittenIs DEF More
<1>2. /\ w \in Seq(Chunk) /\ Len(w) = t + 2
      /\ \A i \in 1..t : w[i] = TokenOf(r, i)
      /\ w[t + 1] = c /\ w[t + 2] = d
  BY WrittenIs DEF More
<1>3. x \in Seq(Chunk) /\ Len(x) = 2 /\ x[1] = c /\ x[2] = d
  <2>1. c \in Chunk /\ d \in Chunk
    BY ChunksAre
  <2> HIDE DEF c, d
  <2> QED BY <2>1
<1> HIDE DEF v, x, w, c, d
<1>4. /\ z \in Seq(Chunk) /\ Len(z) = t + 2
      /\ \A i \in 1..t : z[i] = v[i]
      /\ \A i \in 1..2 : z[t + i] = x[i]
  <2>1. v \in Seq(Chunk) /\ x \in Seq(Chunk)
    BY <1>1, <1>3
  <2>2. /\ z \in Seq(Chunk) /\ Len(z) = Len(v) + Len(x)
        /\ \A i \in 1..Len(v) : z[i] = v[i]
        /\ \A i \in 1..Len(x) : z[Len(v) + i] = x[i]
    BY <2>1, Joined DEF z
  <2> HIDE DEF z
  <2> QED BY <1>1, <1>3, <2>2
<1> HIDE DEF z
<1>5. ASSUME NEW i \in 1..Len(z) PROVE z[i] = w[i]
  <2>1. i \in 1..t \/ i = t + 1 \/ i = t + 2
    BY <1>4
  <2> QED BY <1>1, <1>2, <1>3, <1>4, <2>1
<1>6. z = w
  BY <1>2, <1>4, <1>5, SameSequence
<1> QED BY <1>3, <1>6 DEF v, x, w, z, c, d

\* The tokens of what was said, from the chunk after a to the one at b.
LEMMA TokensOf ==
    ASSUME NEW w \in Seq(Chunk), NEW t \in 0..Len(w), NEW a \in Nat, NEW b \in a..Len(w),
           \A i \in 1..Len(w) : w[i].type = "token" <=> i <= t
    PROVE  OfType("token", Slice(w, a, b)) = Slice(w, Lesser(a, t), Lesser(b, t))
<1> DEFINE x == Slice(w, a, b)
           p == Lesser(a, t)
           q == Lesser(b, t)
           m == q - p
           y == Slice(w, p, q)
           z == Slice(x, 0, m)
<1>1. /\ p \in Nat /\ q \in p..Len(w) /\ m \in 0..(b - a)
      /\ \A i \in 1..(b - a) : a + i <= t <=> i <= m
      /\ m > 0 => p = a
  BY DEF Lesser
<1>2. x \in Seq(Chunk) /\ Len(x) = b - a /\ \A i \in 1..(b - a) : a + i \in 1..Len(w) /\ x[i] = w[a + i]
  BY SliceIs
<1>3. y \in Seq(Chunk) /\ Len(y) = m /\ \A i \in 1..m : y[i] = w[p + i]
  <2> HIDE DEF p, q
  <2> QED BY <1>1, SliceIs
<1> HIDE DEF x, p, q, m, y
<1>4. \A i \in 1..Len(x) : x[i].type = "token" <=> i <= m
  BY <1>1, <1>2
<1>5. m \in 0..Len(x)
  BY <1>1, <1>2
<1>6. OfType("token", x) = z
  BY <1>2, <1>4, <1>5, OfTypeFirst
<1>7. z \in Seq(Chunk) /\ Len(z) = m /\ \A i \in 1..m : z[i] = x[i]
  <2>1. 0 \in Nat /\ m \in 0..Len(x) /\ m - 0 = m /\ \A i \in 1..m : 0 + i = i
    BY <1>5
  <2>2. /\ z \in Seq(Chunk) /\ Len(z) = m - 0
        /\ \A i \in 1..(m - 0) : 0 + i \in 1..Len(x) /\ z[i] = x[0 + i]
    BY <1>2, <2>1, SliceIs
  <2> HIDE DEF z
  <2> QED BY <2>1, <2>2
<1> HIDE DEF z
<1>8. \A i \in 1..m : z[i] = y[i]
  <2> SUFFICES ASSUME NEW i \in 1..m PROVE z[i] = y[i]
    OBVIOUS
  <2>1. m > 0 /\ i \in 1..(b - a)
    BY <1>1
  <2>2. p = a /\ z[i] = x[i] /\ x[i] = w[a + i] /\ y[i] = w[p + i]
    BY <1>1, <1>2, <1>3, <1>7, <2>1
  <2> QED BY <2>2
<1>9. z = y
  BY <1>3, <1>7, <1>8, SameSequence
<1> QED BY <1>6, <1>9 DEF x, y, p, q

\* Tokens first, then at most one metrics or error.
Kinds(w, t, how) ==
    \A i \in 1..Len(w) : /\ w[i].type = "token" <=> i <= t
                         /\ w[i].type = "metrics" <=> how = "end" /\ i = t + 1
                         /\ w[i].type = "error" <=> how = "fail" /\ i = t + 1

LEMMA WrittenTypes ==
    ASSUME NEW r \in Nat, NEW t \in Nat, NEW how \in {"no", "end", "fail"}
    PROVE  Kinds(Written(r, t, how), t, how)
<1> SUFFICES ASSUME NEW i \in 1..Len(Written(r, t, how))
             PROVE  /\ Written(r, t, how)[i].type = "token" <=> i <= t
                    /\ Written(r, t, how)[i].type = "metrics" <=> how = "end" /\ i = t + 1
                    /\ Written(r, t, how)[i].type = "error" <=> how = "fail" /\ i = t + 1
  BY DEF Kinds
<1> DEFINE c == Written(r, t, how)[i]
<1>1. /\ i \in 1..(t + More(how)) /\ More(how) \in 0..2
      /\ (how = "no" <=> More(how) = 0) /\ (how = "end" <=> More(how) = 2)
      /\ (how = "fail" <=> More(how) = 1)
  <2>1. Len(Written(r, t, how)) = t + More(how)
    BY WrittenIs
  <2> QED BY <2>1 DEF More
<1>2. c = IF i <= t THEN TokenOf(r, i)
          ELSE IF how = "fail" THEN ErrorOf(r)
          ELSE IF i = t + 1 THEN MetricsOf(r, t) ELSE DoneOf(r)
  BY <1>1 DEF Written
<1>3. /\ TokenOf(r, i).type = "token" /\ ErrorOf(r).type = "error"
      /\ MetricsOf(r, t).type = "metrics" /\ DoneOf(r).type = "done"
  BY DEF TokenOf, ErrorOf, MetricsOf, DoneOf
<1> HIDE DEF c
<1>4. /\ c.type = "token" <=> i <= t
      /\ c.type = "metrics" <=> how = "end" /\ i = t + 1
      /\ c.type = "error" <=> how = "fail" /\ i = t + 1
  <2>1. CASE i <= t
    <3>1. c.type = "token" /\ i # t + 1
      BY <1>1, <1>2, <1>3, <2>1
    <3> QED BY <2>1, <3>1
  <2>2. CASE ~(i <= t) /\ how = "fail"
    <3>1. c.type = "error" /\ i = t + 1
      BY <1>1, <1>2, <1>3, <2>2
    <3> QED BY <2>2, <3>1
  <2>3. CASE ~(i <= t) /\ how # "fail"
    <3>1. how = "end" /\ i \in {t + 1, t + 2}
      BY <1>1, <2>3
    <3>2. c.type = IF i = t + 1 THEN "metrics" ELSE "done"
      BY <1>2, <1>3, <2>3
    <3> QED BY <2>3, <3>1, <3>2
  <2> QED BY <2>1, <2>2, <2>3
<1> QED BY <1>4 DEF c

\* What the chunks of one read do to the store.
LEMMA ShowsIs ==
    ASSUME NEW r \in Nat, NEW t \in Nat, NEW how \in {"no", "end", "fail"},
           NEW a \in Nat, NEW b \in a..Len(Written(r, t, how)),
           Shows(Slice(Written(r, t, how), a, b))
    PROVE  /\ streamTokens' = streamTokens \o Slice(Written(r, t, how), Lesser(a, t), Lesser(b, t))
           /\ runMetrics' = IF how = "end" /\ a <= t /\ t < b THEN MetricsOf(r, t) ELSE runMetrics
           /\ streamError' = IF how = "fail" /\ a <= t /\ t < b THEN "failed" ELSE streamError
<1> DEFINE w == Written(r, t, how)
           x == Slice(w, a, b)
           at(type) == {i \in DOMAIN x : x[i].type = type}
<1>1. /\ w \in Seq(Chunk) /\ Len(w) = t + More(how) /\ More(how) \in 0..2
      /\ how = "end" => w[t + 1] = MetricsOf(r, t)
  BY WrittenIs
<1>2. \A i \in 1..Len(w) : /\ w[i].type = "token" <=> i <= t
                           /\ w[i].type = "metrics" <=> how = "end" /\ i = t + 1
                           /\ w[i].type = "error" <=> how = "fail" /\ i = t + 1
  <2>1. Kinds(w, t, how)
    BY WrittenTypes, Zenon
  <2> HIDE DEF w
  <2> QED BY <2>1 DEF Kinds
<1>3. /\ streamTokens' = streamTokens \o OfType("token", x)
      /\ runMetrics' = IF at("metrics") = {} THEN runMetrics ELSE x[Max(at("metrics"))]
      /\ streamError' = IF at("error") = {} THEN streamError ELSE "failed"
  BY DEF Shows
<1>b. b \in a..Len(w)
  OBVIOUS
<1> HIDE DEF w
<1>4. /\ x \in Seq(Chunk) /\ Len(x) = b - a
      /\ \A i \in 1..(b - a) : a + i \in 1..Len(w) /\ x[i] = w[a + i]
  BY <1>1, <1>b, SliceIs
<1>5. OfType("token", x) = Slice(w, Lesser(a, t), Lesser(b, t))
  <2>1. t \in 0..Len(w)
    BY <1>1
  <2> QED BY <1>1, <1>2, <1>b, <2>1, TokensOf
<1> HIDE DEF x
<1>6. DOMAIN x = 1..(b - a)
  BY <1>4
<1>7. \A i \in 1..(b - a) : /\ x[i].type = "metrics" <=> how = "end" /\ i = t + 1 - a
                            /\ x[i].type = "error" <=> how = "fail" /\ i = t + 1 - a
  <2> SUFFICES ASSUME NEW i \in 1..(b - a)
               PROVE  /\ x[i].type = "metrics" <=> how = "end" /\ i = t + 1 - a
                      /\ x[i].type = "error" <=> how = "fail" /\ i = t + 1 - a
    OBVIOUS
  <2>1. a + i \in 1..Len(w) /\ x[i] = w[a + i]
    BY <1>4
  <2>2. a + i = t + 1 <=> i = t + 1 - a
    OBVIOUS
  <2> QED BY <1>2, <2>1, <2>2
<1>8. t + 1 - a \in 1..(b - a) <=> a <= t /\ t < b
  BY <1>b
<1>9. at("metrics") = IF how = "end" /\ a <= t /\ t < b THEN {t + 1 - a} ELSE {}
  BY <1>6, <1>7, <1>8
<1>10. at("error") = IF how = "fail" /\ a <= t /\ t < b THEN {t + 1 - a} ELSE {}
  BY <1>6, <1>7, <1>8
<1>11. how = "end" /\ a <= t /\ t < b => x[Max({t + 1 - a})] = MetricsOf(r, t)
  <2> SUFFICES ASSUME how = "end", a <= t, t < b PROVE x[Max({t + 1 - a})] = MetricsOf(r, t)
    OBVIOUS
  <2>1. Max({t + 1 - a}) = t + 1 - a
    BY DEF Max
  <2>2. x[t + 1 - a] = w[a + (t + 1 - a)] /\ a + (t + 1 - a) = t + 1
    BY <1>4, <1>8
  <2> QED BY <1>1, <2>1, <2>2
<1>12. runMetrics' = IF how = "end" /\ a <= t /\ t < b THEN MetricsOf(r, t) ELSE runMetrics
  <2> DEFINE one == {t + 1 - a}
  <2>1. one # {}
    OBVIOUS
  <2> HIDE DEF at, one
  <2>2. at("metrics") = IF how = "end" /\ a <= t /\ t < b THEN one ELSE {}
    BY <1>9 DEF one
  <2>3. how = "end" /\ a <= t /\ t < b => x[Max(one)] = MetricsOf(r, t)
    BY <1>11 DEF one
  <2>4. runMetrics' = IF at("metrics") = {} THEN runMetrics ELSE x[Max(at("metrics"))]
    BY <1>3
  <2>5. CASE how = "end" /\ a <= t /\ t < b
    <3>1. at("metrics") = one
      BY <2>2, <2>5
    <3>2. runMetrics' = x[Max(one)]
      BY <2>1, <2>4, <3>1
    <3> QED BY <2>3, <2>5, <3>2
  <2>6. CASE ~(how = "end" /\ a <= t /\ t < b)
    BY <2>2, <2>4, <2>6
  <2> QED BY <2>5, <2>6
<1>13. streamError' = IF how = "fail" /\ a <= t /\ t < b THEN "failed" ELSE streamError
  <2> HIDE DEF at
  <2> QED BY <1>3, <1>10
<1> QED BY <1>3, <1>5, <1>12, <1>13 DEF w, x

-----------------------------------------------------------------------------
(* What is shown.                                                          *)

\* Of run r the tokens from c + 1 to m are shown, behind those of earlier runs.
ShowsFrom(S, r, c, m, k) ==
    /\ c \in Nat /\ m \in Nat /\ c <= m /\ k \in 0..Len(S) /\ Len(S) = k + (m - c)
    /\ \A i \in 1..k : S[i].run < r
    /\ \A i \in (k + 1)..Len(S) : S[i] = TokenOf(r, c + (i - k))
OnScreen(S, r, c, m) == \E k \in 0..Len(S) : ShowsFrom(S, r, c, m, k)

\* OutputInOrder, of any output.
Ordered(S, wiped) ==
    \A i \in DOMAIN S :
        LET t == S[i]
            starts == i = 1 \/ S[i - 1].run # t.run
        IN  /\ ~starts => t.n = S[i - 1].n + 1
            /\ starts /\ t.run \notin wiped => t.n = 1
            /\ i > 1 => S[i - 1].run <= t.run

LEMMA ScreenGrows ==
    ASSUME NEW S \in Seq(Chunk), NEW wiped, Ordered(S, wiped),
           NEW r \in Nat, NEW t \in Nat, NEW how \in {"no", "end", "fail"},
           NEW c, NEW m \in 0..t, NEW l \in m..t,
           OnScreen(S, r, c, m), r \notin wiped => c = 0
    PROVE  /\ S \o Slice(Written(r, t, how), m, l) \in Seq(Chunk)
           /\ OnScreen(S \o Slice(Written(r, t, how), m, l), r, c, l)
           /\ Ordered(S \o Slice(Written(r, t, how), m, l), wiped)
<1> DEFINE x == Slice(Written(r, t, how), m, l)
           z == S \o x
<1>1. x \in Seq(Chunk) /\ Len(x) = l - m /\ \A i \in 1..(l - m) : x[i] = TokenOf(r, m + i)
  <2>1. /\ Written(r, t, how) \in Seq(Chunk) /\ Len(Written(r, t, how)) = t + More(how)
        /\ More(how) \in 0..2
        /\ \A i \in 1..t : Written(r, t, how)[i] = TokenOf(r, i)
    BY WrittenIs
  <2>2. m \in Nat /\ l \in m..Len(Written(r, t, how))
    BY <2>1
  <2>3. /\ x \in Seq(Chunk) /\ Len(x) = l - m
        /\ \A i \in 1..(l - m) : x[i] = Written(r, t, how)[m + i]
    BY <2>1, <2>2, SliceIs
  <2>4. \A i \in 1..(l - m) : m + i \in 1..t
    OBVIOUS
  <2> HIDE DEF x
  <2> QED BY <2>1, <2>3, <2>4
<1> HIDE DEF x
<1>2. /\ z \in Seq(Chunk) /\ Len(z) = Len(S) + (l - m)
      /\ \A i \in 1..Len(S) : z[i] = S[i]
      /\ \A i \in 1..(l - m) : z[Len(S) + i] = x[i]
  <2>1. /\ z \in Seq(Chunk) /\ Len(z) = Len(S) + Len(x)
        /\ \A i \in 1..Len(S) : z[i] = S[i]
        /\ \A i \in 1..Len(x) : z[Len(S) + i] = x[i]
    <3>1. x \in Seq(Chunk)
      BY <1>1
    <3> QED BY <3>1, Joined DEF z
  <2> HIDE DEF z
  <2> QED BY <1>1, <2>1
<1>3. PICK k \in 0..Len(S) : ShowsFrom(S, r, c, m, k)
  BY DEF OnScreen
<1> HIDE DEF z
<1>4. /\ c \in Nat /\ c <= m /\ k \in 0..Len(S) /\ Len(S) = k + (m - c) /\ Len(S) \in Nat
      /\ \A i \in 1..k : S[i].run < r
      /\ \A i \in (k + 1)..Len(S) : S[i] = TokenOf(r, c + (i - k))
  BY <1>3 DEF ShowsFrom
<1>5. \A i \in 1..k : z[i] = S[i] /\ z[i].run < r
  BY <1>2, <1>4
<1>6. ASSUME NEW i \in (k + 1)..Len(z) PROVE z[i] = TokenOf(r, c + (i - k))
  <2>1. CASE i <= Len(S)
    BY <1>2, <1>4, <2>1
  <2>2. CASE ~(i <= Len(S))
    <3>1. i - Len(S) \in 1..(l - m) /\ Len(S) + (i - Len(S)) = i /\ m + (i - Len(S)) = c + (i - k)
      BY <1>2, <1>4, <2>2
    <3> QED BY <1>1, <1>2, <3>1
  <2> QED BY <2>1, <2>2
<1>7. ShowsFrom(z, r, c, l, k)
  BY <1>2, <1>4, <1>5, <1>6 DEF ShowsFrom
<1>8. Ordered(z, wiped)
  <2> SUFFICES ASSUME NEW i \in 1..Len(z)
               PROVE  LET u == z[i]
                          starts == i = 1 \/ z[i - 1].run # u.run
                      IN  /\ ~starts => u.n = z[i - 1].n + 1
                          /\ starts /\ u.run \notin wiped => u.n = 1
                          /\ i > 1 => z[i - 1].run <= u.run
    <3>1. DOMAIN z = 1..Len(z)
      BY <1>2
    <3> QED BY <3>1, Zenon DEF Ordered
  <2>t. \A j \in Nat : TokenOf(r, j).run = r /\ TokenOf(r, j).n = j
    BY DEF TokenOf
  <2>1. CASE i <= k
    <3>1. i \in DOMAIN S /\ i \in 1..Len(S) /\ (i > 1 => i - 1 \in 1..Len(S)) /\ (i # 1 => i > 1)
      BY <1>4, <2>1
    <3>2. z[i] = S[i] /\ (i > 1 => z[i - 1] = S[i - 1])
      BY <1>2, <3>1
    <3> QED BY <3>1, <3>2 DEF Ordered
  <2>2. CASE i = k + 1
    <3>1. z[i].run = r /\ z[i].n = c + 1
      <4>1. z[i] = TokenOf(r, c + 1)
        BY <1>2, <1>4, <1>6, <2>2
      <4> QED BY <1>4, <2>t, <4>1
    <3>2. i > 1 => z[i - 1].run < r
      BY <1>4, <1>5, <2>2
    <3>3. i > 1 => z[i - 1].run \in Nat
      <4>1. i > 1 => z[i - 1] \in Chunk
        BY <1>2
      <4> QED BY <4>1 DEF Chunk
    <3>4. i # 1 => i > 1
      OBVIOUS
    <3>5. r \notin wiped => c = 0
      OBVIOUS
    <3> QED BY <1>4, <3>1, <3>2, <3>3, <3>4, <3>5
  <2>3. CASE i > k + 1
    <3>1. i \in (k + 1)..Len(z) /\ i - 1 \in (k + 1)..Len(z)
      BY <1>4, <2>3
    <3>2. z[i] = TokenOf(r, c + (i - k)) /\ z[i - 1] = TokenOf(r, c + (i - 1 - k))
      BY <1>6, <3>1
    <3>3. c + (i - k) \in Nat /\ c + (i - 1 - k) \in Nat /\ c + (i - k) = c + (i - 1 - k) + 1 /\ i # 1
      BY <1>4, <2>3
    <3>4. /\ z[i].run = r /\ z[i].n = c + (i - k)
          /\ z[i - 1].run = r /\ z[i - 1].n = c + (i - 1 - k)
      BY <2>t, <3>2, <3>3
    <3> QED BY <3>3, <3>4
  <2> QED BY <1>4, <2>1, <2>2, <2>3
<1>9. k \in 0..Len(z)
  BY <1>2, <1>4
<1>10. OnScreen(z, r, c, l)
  BY <1>7, <1>9 DEF OnScreen
<1> QED BY <1>2, <1>8, <1>10 DEF z, x

LEMMA OrderedStill ==
    ASSUME NEW S, NEW wiped, NEW more, wiped \subseteq more, Ordered(S, wiped)
    PROVE  Ordered(S, more)
  BY DEF Ordered

-----------------------------------------------------------------------------
(* The invariant.                                                          *)

\* On the way to the panel: a whole lines and e pieces are read, `how' the server ended;
\* the first c tokens of the run are wiped from the screen.
Delivery(how, a, e, c) ==
    /\ served <=> how # "no"
    /\ how = "end" => tokensOut = answers[Run]
    /\ Reading(Written(Run, tokensOut, how), a, e, buffer, down)
    /\ OnScreen(streamTokens, Run, c, Lesser(a, tokensOut))
    /\ Run \notin cleared => c = 0
    /\ how = "end" /\ tokensOut < a /\ Run \notin cleared => runMetrics = MetricsOf(Run, tokensOut)
    /\ how = "fail" /\ tokensOut < a /\ Run \notin cleared => streamError # None

\* On the way to the adapter: p whole lines and d pieces.
Supply(p, d) ==
    /\ \E last, rest :
          /\ last \in Lasts(Run) /\ CutOff(up, rest)
          /\ Reading(Full(Run, answers[Run], last), p, d, pending, rest)
    /\ tokensOut = Lesser(p, answers[Run])

Streaming ==
    /\ isRunning /\ Run > 0
    /\ tokensOut \in 0..answers[Run]
    /\ \E how \in {"no", "end", "fail"}, a \in 0..(tokensOut + 2), e \in 0..2, c \in 0..tokensOut :
          Delivery(how, a, e, c)
    /\ ~served => \E p \in 0..(answers[Run] + 1), d \in 0..2 : Supply(p, d)

\* What is on screen, of the last run too, whose stream may be closed.
Screen ==
    /\ streamTokens \in Seq(Chunk) /\ Ordered(streamTokens, cleared)
    /\ \A i \in 1..Len(streamTokens) : streamTokens[i].run <= Run

Clean ==
    ~isRunning /\ streamError = None /\ Run > 0 /\ Run \notin cleared =>
        /\ OnScreen(streamTokens, Run, 0, answers[Run])
        /\ runMetrics = MetricsOf(Run, answers[Run])

StreamInv ==
    /\ answers \in Seq(Nat) /\ cleared \subseteq 0..Run
    /\ Screen /\ Clean
    /\ open => Streaming

LEMMA ScreenRuns ==
    ASSUME NEW S \in Seq(Chunk), NEW r \in Nat, NEW c, NEW m, OnScreen(S, r, c, m)
    PROVE  \A i \in 1..Len(S) : S[i].run <= r
<1> TAKE i \in 1..Len(S)
<1>1. PICK k \in 0..Len(S) : ShowsFrom(S, r, c, m, k)
  BY DEF OnScreen
<1>2. S[i].run \in Nat
  <2>1. S[i] \in Chunk
    OBVIOUS
  <2> QED BY <2>1 DEF Chunk
<1>3. CASE i <= k
  <2>1. S[i].run < r
    BY <1>1, <1>3 DEF ShowsFrom
  <2> QED BY <1>2, <2>1
<1>4. CASE ~(i <= k)
  <2>1. S[i] = TokenOf(r, c + (i - k))
    BY <1>1, <1>4 DEF ShowsFrom
  <2> QED BY <2>1 DEF TokenOf
<1> QED BY <1>1, <1>3, <1>4

\* Where every token is of an earlier run, none of this one is shown.
LEMMA ScreenFresh ==
    ASSUME NEW S \in Seq(Chunk), NEW r \in Nat, NEW m \in Nat, \A i \in 1..Len(S) : S[i].run < r
    PROVE  OnScreen(S, r, m, m)
<1>1. Len(S) \in Nat
  OBVIOUS
<1>2. ShowsFrom(S, r, m, m, Len(S))
  BY <1>1 DEF ShowsFrom
<1> QED BY <1>1, <1>2 DEF OnScreen

LEMMA NothingIsOrdered == ASSUME NEW wiped PROVE <<>> \in Seq(Chunk) /\ Len(<<>>) = 0 /\ Ordered(<<>>, wiped)
<1>1. DOMAIN <<>> = {}
  OBVIOUS
<1> QED BY <1>1 DEF Ordered

LEMMA RunIs == ASSUME answers \in Seq(Nat) PROVE Run \in Nat /\ (Run > 0 => answers[Run] \in Nat)
  BY DEF Run

-----------------------------------------------------------------------------
(* Every step keeps it.                                                    *)

LEMMA StreamsBegin == ASSUME StreamsInit PROVE StreamInv
<1>1. /\ answers = <<>> /\ cleared = {} /\ streamTokens = <<>> /\ open = FALSE
  BY DEF StreamsInit
<1>2. answers \in Seq(Nat) /\ Run = 0
  BY <1>1 DEF Run
<1>3. Screen
  BY <1>1, NothingIsOrdered DEF Screen
<1>4. Clean
  BY <1>2 DEF Clean
<1> QED BY <1>1, <1>2, <1>3, <1>4 DEF StreamInv

\* How a stream ends: three pieces, or some of them.
TailsOf(r) ==
    {Line(DoneOf(r)), <<>>, Line(ErrorOf(r)),
     <<Half(1, DoneOf(r))>>, <<Half(1, DoneOf(r)), Half(2, DoneOf(r))>>}

\* What the provider has to say is its answer, or lacks three pieces of it at most.
LEMMA SaysAlmostAll ==
    ASSUME NEW r \in Nat, NEW n \in Nat, NEW v, v = [i \in 1..n |-> TokenOf(r, i)],
           NEW tail \in TailsOf(r)
    PROVE  \E last \in Lasts(r) : CutOff(Lines(v) \o tail, Lines(Full(r, n, last)))
<1>1. PICK last \in Lasts(r) :
          /\ tail \in Seq(Piece) /\ Len(tail) \in 0..3
          /\ \A i \in 1..Len(tail) : tail[i] = Line(last)[i]
  <2>1. DoneOf(r) \in Lasts(r) /\ ErrorOf(r) \in Lasts(r)
    BY DEF Lasts
  <2>2. \A c \in Chunk : /\ Half(1, c) \in Piece /\ Half(2, c) \in Piece /\ LF \in Piece
                          /\ Line(c) = <<Half(1, c), Half(2, c), LF>>
    BY DEF Piece, Half, LF, Line
  <2>3. DoneOf(r) \in Chunk /\ ErrorOf(r) \in Chunk
    BY ChunksAre
  <2> DEFINE Fits(c) == /\ tail \in Seq(Piece) /\ Len(tail) \in 0..3
                        /\ \A i \in 1..Len(tail) : tail[i] = Line(c)[i]
  <2>4. ASSUME NEW c \in Chunk, NEW g, NEW h, g = Half(1, c), h = Half(2, c),
               tail \in {<<>>, <<g>>, <<g, h>>, <<g, h, LF>>}
        PROVE  Fits(c)
    <3>1. g \in Piece /\ h \in Piece /\ LF \in Piece /\ Line(c) = <<g, h, LF>>
      BY <2>2, <2>4
    <3>2. CASE tail = <<>>
      BY <3>2
    <3>3. CASE tail = <<g>>
      BY <3>1, <3>3
    <3>4. CASE tail = <<g, h>>
      BY <3>1, <3>4
    <3>5. CASE tail = <<g, h, LF>>
      BY <3>1, <3>5
    <3> QED BY <2>4, <3>2, <3>3, <3>4, <3>5
  <2>5. Fits(DoneOf(r)) \/ Fits(ErrorOf(r))
    <3>1. CASE tail = Line(ErrorOf(r))
      <4>1. Fits(ErrorOf(r))
        BY <2>2, <2>3, <2>4, <3>1
      <4> QED BY <4>1
    <3>2. CASE tail # Line(ErrorOf(r))
      <4>1. Fits(DoneOf(r))
        BY <2>2, <2>3, <2>4, <3>2 DEF TailsOf
      <4> QED BY <4>1
    <3> QED BY <3>1, <3>2
  <2> QED BY <2>1, <2>5
<1> DEFINE x == <<last>>
           f == Full(r, n, last)
           z == v \o x
<1>2. v \in Seq(Chunk) /\ Len(v) = n /\ \A i \in 1..n : v[i] = TokenOf(r, i)
  <2>1. \A i \in 1..n : TokenOf(r, i) \in Chunk
    BY ChunksAre
  <2>2. v \in Seq(Chunk) /\ Len(v) = n
    BY <2>1
  <2> QED BY <2>2
<1>3. x \in Seq(Chunk) /\ Len(x) = 1 /\ x[1] = last
  BY ChunksAre DEF Lasts
<1>4. /\ f \in Seq(Chunk) /\ Len(f) = n + 1
      /\ \A i \in 1..n : f[i] = TokenOf(r, i)
      /\ f[n + 1] = last
  BY FullIs
<1> HIDE DEF x, f
<1>5. z = f
  <2>1. v \in Seq(Chunk) /\ x \in Seq(Chunk)
    BY <1>2, <1>3
  <2>2. /\ z \in Seq(Chunk) /\ Len(z) = Len(v) + Len(x)
        /\ \A i \in 1..Len(v) : z[i] = v[i]
        /\ \A i \in 1..Len(x) : z[Len(v) + i] = x[i]
    BY <2>1, Joined DEF z
  <2> HIDE DEF z
  <2>3. Len(z) = Len(f) /\ \A i \in 1..Len(z) : z[i] = f[i]
    BY <1>2, <1>3, <1>4, <2>2
  <2> QED BY <1>4, <2>2, <2>3, SameSequence
<1> HIDE DEF z
<1>6. /\ \A i \in 1..(3 * n) : Lines(f)[i] = Lines(v)[i]
      /\ \A i \in 1..3 : Lines(f)[3 * n + i] = Lines(x)[i]
  <2>1. /\ \A i \in 1..(3 * Len(v)) : Lines(v \o x)[i] = Lines(v)[i]
        /\ \A i \in 1..(3 * Len(x)) : Lines(v \o x)[3 * Len(v) + i] = Lines(x)[i]
    BY <1>2, <1>3, LinesOfBoth
  <2>2. v \o x = f
    BY <1>5 DEF z
  <2>3. 3 * Len(v) = 3 * n /\ 3 * Len(x) = 3
    BY <1>2, <1>3
  <2> QED BY <2>1, <2>2, <2>3
<1>7. \A i \in 1..3 : Lines(x)[i] = Line(last)[i]
  <2>1. \A i \in 1..3 : Lines(x)[i] = Line(x[(i + 2) \div 3])[((i + 2) % 3) + 1]
    BY <1>3 DEF Lines
  <2>2. \A i \in 1..3 : (i + 2) \div 3 = 1 /\ ((i + 2) % 3) + 1 = i
    OBVIOUS
  <2> QED BY <1>3, <2>1, <2>2
<1> DEFINE text == Lines(v) \o tail
<1>8. Lines(v) \in Seq(Piece) /\ Len(Lines(v)) = 3 * n
  BY <1>2, LinesAre
<1>9. Lines(f) \in Seq(Piece) /\ Len(Lines(f)) = 3 * (n + 1)
  BY <1>4, LinesAre
<1>10. /\ text \in Seq(Piece) /\ Len(text) = 3 * n + Len(tail)
       /\ \A i \in 1..(3 * n) : text[i] = Lines(v)[i]
       /\ \A i \in 1..Len(tail) : text[3 * n + i] = tail[i]
  <2>1. /\ text \in Seq(Piece) /\ Len(text) = Len(Lines(v)) + Len(tail)
        /\ \A i \in 1..Len(Lines(v)) : text[i] = Lines(v)[i]
        /\ \A i \in 1..Len(tail) : text[Len(Lines(v)) + i] = tail[i]
    BY <1>1, <1>8, Joined DEF text
  <2> HIDE DEF text
  <2> QED BY <1>8, <2>1
<1> HIDE DEF text
<1>a. PICK k \in 0..3 : Len(tail) = k /\ Len(text) = 3 * n + k
  BY <1>1, <1>10
<1>11. ASSUME NEW i \in 1..Len(text) PROVE text[i] = Lines(f)[i]
  <2>1. CASE i <= 3 * n
    <3>1. i \in 1..(3 * n)
      BY <2>1
    <3> QED BY <1>6, <1>10, <3>1
  <2>2. CASE ~(i <= 3 * n)
    <3>1. PICK j \in 1..k : i = 3 * n + j
      <4>1. i \in Nat /\ i - 3 * n \in 1..k /\ i = 3 * n + (i - 3 * n)
        BY <1>a, <2>2
      <4> QED BY <4>1
    <3>2. j \in 1..3
      OBVIOUS
    <3>3. text[i] = tail[j] /\ tail[j] = Line(last)[j]
      BY <1>1, <1>10, <1>a, <3>1
    <3>4. Lines(f)[i] = Line(last)[j]
      BY <1>6, <1>7, <3>1, <3>2
    <3> QED BY <3>3, <3>4
  <2> QED BY <2>1, <2>2
<1>12. Len(Lines(f)) \in Len(text)..(Len(text) + 3)
  <2>1. 3 * (n + 1) \in (3 * n + k)..((3 * n + k) + 3)
    OBVIOUS
  <2> QED BY <1>9, <1>a, <2>1
<1>13. CutOff(text, Lines(f))
  BY <1>9, <1>10, <1>11, <1>12 DEF CutOff
<1> QED BY <1>13 DEF text, f

\* A stream is opened, on a screen that is wiped or not.
LEMMA Opens ==
    ASSUME StreamInv, OpenStream, cleared' = cleared, isRunning' = TRUE,
           streamTokens' = <<>> \/ streamTokens' = streamTokens
    PROVE  StreamInv'
<1> DEFINE r == Run + 1
<1>1. answers \in Seq(Nat) /\ cleared \subseteq 0..Run /\ Screen /\ Run \in Nat
  BY RunIs DEF StreamInv
<1>2. PICK n \in 0..MaxTokens :
          /\ answers' = Append(answers, n)
          /\ \E tail \in Tails' : up' = Lines([i \in 1..n |-> Token(i)']) \o tail
  BY DEF OpenStream
<1>3. /\ open' = TRUE /\ buffer' = <<>> /\ down' = <<>> /\ served' = FALSE
      /\ pending' = <<>> /\ tokensOut' = 0
  BY DEF OpenStream
<1>4. n \in Nat /\ answers' \in Seq(Nat) /\ Run' = r /\ answers'[Run'] = n /\ r \in Nat /\ r > 0
  <2>1. n \in Nat
    BY StreamsAssumption
  <2> QED BY <1>1, <1>2, <2>1 DEF Run
<1> HIDE DEF r
<1>5. cleared' \subseteq 0..Run' /\ r \notin cleared
  BY <1>1, <1>4 DEF r
<1>6. /\ streamTokens' \in Seq(Chunk) /\ Ordered(streamTokens', cleared')
      /\ \A i \in 1..Len(streamTokens') : streamTokens'[i].run < r
  <2>1. CASE streamTokens' = <<>>
    <3>1. \A i \in 1..0 : streamTokens'[i].run < r
      OBVIOUS
    <3> QED BY <2>1, <3>1, NothingIsOrdered
  <2>2. CASE streamTokens' = streamTokens
    <3>1. /\ streamTokens \in Seq(Chunk) /\ Ordered(streamTokens, cleared)
          /\ \A i \in 1..Len(streamTokens) : streamTokens[i].run <= Run
      BY <1>1 DEF Screen
    <3>2. ASSUME NEW i \in 1..Len(streamTokens) PROVE streamTokens[i].run < r
      <4>1. streamTokens[i] \in Chunk
        BY <3>1
      <4>2. streamTokens[i].run \in Nat
        BY <4>1 DEF Chunk
      <4> QED BY <1>1, <3>1, <4>2 DEF r
    <3> QED BY <2>2, <3>1, <3>2
  <2> QED BY <2>1, <2>2
<1>7. Screen'
  <2>1. ASSUME NEW i \in 1..Len(streamTokens') PROVE streamTokens'[i].run <= r
    <3>1. streamTokens'[i] \in Chunk
      BY <1>6
    <3>2. streamTokens'[i].run \in Nat
      BY <3>1 DEF Chunk
    <3> QED BY <1>4, <1>6, <3>2
  <2> QED BY <1>4, <1>6, <2>1 DEF Screen
<1>8. Clean'
  BY DEF Clean
<1>9. Delivery("no", 0, 0, 0)'
  <2>1. Written(r, 0, "no") \in Seq(Chunk) /\ Len(Written(r, 0, "no")) = 0
    BY <1>4, WrittenOpen
  <2>2. Lines(Written(r, 0, "no")) = <<>>
    BY <2>1, LinesAre
  <2>3. Reading(Written(r, 0, "no"), 0, 0, <<>>, <<>>)
    BY <2>1, <2>2, ReadsFresh
  <2>4. Lesser(0, 0) = 0
    BY DEF Lesser
  <2>5. OnScreen(streamTokens', r, 0, 0)
    BY <1>4, <1>6, ScreenFresh
  <2>6. Reading(Written(Run', tokensOut', "no"), 0, 0, buffer', down')
    BY <1>3, <1>4, <2>3
  <2>7. OnScreen(streamTokens', Run', 0, Lesser(0, tokensOut'))
    BY <1>3, <1>4, <2>4, <2>5
  <2>8. ~(tokensOut' < 0)
    BY <1>3
  <2> QED BY <1>3, <2>6, <2>7, <2>8 DEF Delivery
<1>10. Supply(0, 0)'
  <2> DEFINE v == [i \in 1..n |-> Token(i)']
  <2>1. PICK tail \in Tails' : up' = Lines(v) \o tail
    BY <1>2
  <2>2. v = [i \in 1..n |-> TokenOf(r, i)]
    BY <1>4 DEF Token, TokenOf
  <2> HIDE DEF v
  <2>6. PICK last \in Lasts(r) : CutOff(up', Lines(Full(r, n, last)))
    <3>1. tail \in TailsOf(r)
      BY <1>4 DEF Tails, TailsOf, Done, DoneOf, Error, ErrorOf
    <3> QED BY <1>4, <2>1, <2>2, <3>1, SaysAlmostAll
  <2>7. Reading(Full(r, n, last), 0, 0, <<>>, Lines(Full(r, n, last)))
    BY <1>4, FullIs, ReadsFresh
  <2>3. Lesser(0, n) = 0
    BY <1>4 DEF Lesser
  <2>4. \E l, rest :
            /\ l \in Lasts(Run') /\ CutOff(up', rest)
            /\ Reading(Full(Run', answers'[Run'], l), 0, 0, pending', rest)
    BY <1>3, <1>4, <2>6, <2>7
  <2>5. tokensOut' = Lesser(0, answers'[Run'])
    BY <1>3, <1>4, <2>3
  <2> QED BY <2>4, <2>5 DEF Supply
<1>11. Streaming'
  <2>1. isRunning' /\ Run' > 0 /\ tokensOut' \in 0..answers'[Run']
    BY <1>3, <1>4
  <2>2. 0 \in 0..(tokensOut' + 2) /\ 0 \in 0..2 /\ 0 \in 0..tokensOut' /\ 0 \in 0..(answers'[Run'] + 1)
    BY <1>3, <1>4
  <2>3. \E how \in {"no", "end", "fail"}, a \in 0..(tokensOut' + 2), e \in 0..2, c \in 0..tokensOut' :
          Delivery(how, a, e, c)'
    BY <1>9, <2>2, Zenon
  <2>4. \E p \in 0..(answers'[Run'] + 1), d \in 0..2 : Supply(p, d)'
    BY <1>10, <2>2, Zenon
  <2> QED BY <2>1, <2>3, <2>4 DEF Streaming
<1> QED BY <1>4, <1>5, <1>7, <1>8, <1>11 DEF StreamInv

\* While the server writes, the panel has read no more than tokens.
LEMMA Midway ==
    ASSUME NEW r \in Nat, NEW t \in Nat, NEW a, NEW e, NEW held, NEW rest,
           Reading(Written(r, t, "no"), a, e, held, rest)
    PROVE  a \in Nat /\ a <= t
<1>1. a \in 0..Len(Written(r, t, "no"))
  BY DEF Reading
<1> QED BY <1>1, WrittenOpen

\* What every step of the server leaves as it is.
ServerStep ==
    /\ open /\ open' = open /\ buffer' = buffer /\ answers' = answers /\ cleared' = cleared
    /\ isRunning' = isRunning /\ streamTokens' = streamTokens
    /\ streamError' = streamError /\ runMetrics' = runMetrics

LEMMA ServerKeeps ==
    ASSUME StreamInv, ServerStep, Streaming'
    PROVE  StreamInv'
<1>1. Screen' /\ Clean'
  BY DEF StreamInv, ServerStep, Screen, Clean, Run
<1> QED BY <1>1 DEF StreamInv, ServerStep, Run

\* What is known of a stream that is open and not served.
LEMMA Unserved ==
    ASSUME StreamInv, open, ~served
    PROVE  \E n \in Nat, a \in Nat, e \in 0..2, c \in 0..tokensOut, p \in 0..(answers[Run] + 1), d \in 0..2 :
              /\ answers[Run] = n /\ tokensOut \in 0..n /\ a <= tokensOut
              /\ Delivery("no", a, e, c) /\ Supply(p, d)
<1>1. Streaming /\ answers \in Seq(Nat)
  BY DEF StreamInv
<1>2. Run \in Nat /\ answers[Run] \in Nat /\ tokensOut \in 0..answers[Run]
  BY <1>1, RunIs DEF Streaming
<1>3. PICK how \in {"no", "end", "fail"}, a \in 0..(tokensOut + 2), e \in 0..2, c \in 0..tokensOut :
          Delivery(how, a, e, c)
  BY <1>1 DEF Streaming
<1>4. how = "no"
  BY <1>3 DEF Delivery
<1>5. Delivery("no", a, e, c)
  BY <1>3, <1>4
<1>6. Reading(Written(Run, tokensOut, "no"), a, e, buffer, down)
  BY <1>5 DEF Delivery
<1>7. a \in Nat /\ a <= tokensOut
  <2>1. tokensOut \in Nat
    BY <1>2
  <2> QED BY <1>2, <1>6, <2>1, Midway
<1>8. PICK p \in 0..(answers[Run] + 1), d \in 0..2 : Supply(p, d)
  BY <1>1 DEF Streaming
<1> QED BY <1>2, <1>5, <1>7, <1>8

\* The new state of a stream, from its parts.
LEMMA StillStreaming ==
    ASSUME StreamInv, ServerStep, NEW u \in Nat, NEW how \in {"no", "end", "fail"},
           NEW a \in Nat, NEW e \in 0..2, NEW c \in 0..u,
           tokensOut' = u, u <= answers[Run], a <= u, served' <=> how # "no",
           how = "end" => u = answers[Run],
           Reading(Written(Run, u, how), a, e, buffer, down'),
           OnScreen(streamTokens, Run, c, a), Run \notin cleared => c = 0,
           ~served' => \E p \in 0..(answers[Run] + 1), d \in 0..2 : Supply(p, d)'
    PROVE  StreamInv'
<1>1. Run' = Run /\ answers' = answers /\ streamTokens' = streamTokens /\ cleared' = cleared /\ buffer' = buffer
  BY DEF ServerStep, Run
<1>2. isRunning /\ Run > 0 /\ answers[Run] \in Nat
  <2>1. Streaming /\ answers \in Seq(Nat)
    BY DEF StreamInv, ServerStep
  <2> QED BY <2>1, RunIs DEF Streaming
<1>3. Lesser(a, u) = a /\ ~(u < a)
  BY DEF Lesser
<1>4. Delivery(how, a, e, c)'
  BY <1>1, <1>3 DEF Delivery
<1>5. Streaming'
  <2>1. isRunning' /\ Run' > 0 /\ tokensOut' \in 0..answers'[Run']
    BY <1>1, <1>2 DEF ServerStep
  <2>2. a \in 0..(tokensOut' + 2) /\ c \in 0..tokensOut'
    OBVIOUS
  <2>3. \E how_1 \in {"no", "end", "fail"}, a_1 \in 0..(tokensOut' + 2), e_1 \in 0..2, c_1 \in 0..tokensOut' :
          Delivery(how_1, a_1, e_1, c_1)'
    BY <1>4, <2>2, Zenon
  <2>4. ~served' => \E p \in 0..(answers'[Run'] + 1), d \in 0..2 : Supply(p, d)'
    BY <1>1
  <2> QED BY <2>1, <2>3, <2>4 DEF Streaming
<1> QED BY <1>5, ServerKeeps

LEMMA StepAdapterReads == ASSUME StreamInv, AdapterReads PROVE StreamInv'
<1>1. ServerStep /\ open /\ ~served /\ served' = served
  BY DEF AdapterReads, ServerStep, store, said
<1>2. answers \in Seq(Nat) /\ Run \in Nat
  BY RunIs DEF StreamInv
<1>3. PICK n \in Nat, a \in Nat, e \in 0..2, c \in 0..tokensOut, p \in 0..(answers[Run] + 1), d \in 0..2 :
              /\ answers[Run] = n /\ tokensOut \in 0..n /\ a <= tokensOut
              /\ Delivery("no", a, e, c) /\ Supply(p, d)
  BY <1>1, Unserved
<1>s. PICK last, rest :
          /\ last \in Lasts(Run) /\ CutOff(up, rest)
          /\ Reading(Full(Run, n, last), p, d, pending, rest)
  BY <1>3 DEF Supply
<1> DEFINE r == Run
           w == Full(r, n, last)
           t == tokensOut
<1>w. Full(Run, n, last) \in Seq(Chunk) /\ Len(Full(Run, n, last)) = n + 1
  BY <1>2, <1>s, FullIs, ZenonT(40)
<1>i. \A i \in 1..(n + 1) : Full(Run, n, last)[i].type = "token" <=> i <= n
  BY <1>2, <1>s, FullIs, ZenonT(40)
<1>4. /\ w \in Seq(Chunk) /\ Len(w) = n + 1
      /\ \A i \in 1..Len(w) : w[i].type = "token" <=> i <= n
  BY <1>w, <1>i, ZenonT(40)
<1>l. tokensOut = Lesser(p, answers[Run])
  BY <1>3, ZenonT(40) DEF Supply
<1>5. Reading(w, p, d, pending, rest) /\ t = Lesser(p, n) /\ p \in Nat
  BY <1>2, <1>3, <1>s, <1>l
<1>6. /\ Reading(Written(r, t, "no"), a, e, buffer, down)
      /\ OnScreen(streamTokens, r, c, Lesser(a, t)) /\ (r \notin cleared => c = 0)
  BY <1>3 DEF Delivery
<1>7. Lesser(a, t) = a
  BY <1>3 DEF Lesser
<1>8. PICK read \in Reads(up) :
          LET cut == Cut(pending \o read)
              tokens == OfType("token", cut.chunks)
          IN  /\ up' = Unread(up, read) /\ pending' = cut.rest
              /\ tokensOut' = tokensOut + Len(tokens)
              /\ Writes(tokens)
  BY DEF AdapterReads
<1> HIDE DEF w, r
<1>9. PICK b, f : /\ b \in p..Len(w)
                  /\ Cut(pending \o read).chunks = Slice(w, p, b)
                  /\ Reading(w, b, f, Cut(pending \o read).rest, Unread(rest, read))
                  /\ CutOff(Unread(up, read), Unread(rest, read))
  <2>1. read \in Reads(rest) /\ CutOff(Unread(up, read), Unread(rest, read))
    BY <1>s, ReadsCutOff
  <2> QED BY <1>4, <1>5, <2>1, ReadsOn
<1> DEFINE u == Lesser(b, n)
           tokens == OfType("token", Slice(w, p, b))
<1>10. b \in Nat /\ b <= n + 1 /\ u \in t..n /\ f \in 0..2
  <2>1. b \in p..(n + 1) /\ f \in 0..2
    BY <1>4, <1>9 DEF Reading
  <2> QED BY <1>5, <2>1 DEF Lesser
<1>11. tokens = Slice(w, t, u)
  <2>1. n \in 0..Len(w)
    BY <1>4
  <2> QED BY <1>4, <1>5, <1>9, <2>1, TokensOf
<1>12. tokens \in Seq(Chunk) /\ Written(r, t, "no") \o tokens = Written(r, u, "no")
  <2>1. t \in 0..n
    BY <1>3
  <2> HIDE DEF u, t
  <2>2. r \in Nat
    BY <1>2 DEF r
  <2>3. u \in t..n
    BY <1>10
  <2>5. last \in Lasts(r)
    BY <1>s DEF r
  <2>4. /\ Slice(Full(r, n, last), t, u) \in Seq(Chunk)
        /\ Written(r, t, "no") \o Slice(Full(r, n, last), t, u) = Written(r, u, "no")
    BY <2>1, <2>2, <2>3, <2>5, WritesTokens
  <2> HIDE DEF tokens
  <2> QED BY <1>11, <2>4 DEF w
<1>13. Len(tokens) = u - t
  <2>1. t \in Nat /\ u \in t..Len(w)
    BY <1>3, <1>4, <1>10
  <2> HIDE DEF tokens, u, t
  <2> QED BY <1>4, <1>11, <2>1, SliceIs
<1>14. tokensOut' = u /\ down' = down \o Lines(tokens) /\ Reading(w, b, f, pending', Unread(rest, read))
       /\ CutOff(up', Unread(rest, read))
  <2>1. tokensOut' = t + Len(tokens)
    BY <1>8, <1>9
  <2>2. down' = down \o Lines(tokens)
    BY <1>8, <1>9 DEF Writes
  <2>3. Reading(w, b, f, pending', Unread(rest, read)) /\ CutOff(up', Unread(rest, read))
    BY <1>8, <1>9
  <2>4. t \in Nat /\ u \in Nat
    BY <1>3, <1>10
  <2> HIDE DEF tokens, u
  <2> QED BY <1>13, <2>1, <2>2, <2>3, <2>4
<1> HIDE DEF tokens, u
<1>15. Reading(Written(r, u, "no"), a, e, buffer, down')
  <2>1. Written(r, t, "no") \in Seq(Chunk)
    BY <1>2, <1>3, WrittenOpen DEF r
  <2>2. Reading(Written(r, t, "no") \o tokens, a, e, buffer, down \o Lines(tokens))
    BY <1>6, <1>12, <2>1, WritesOn
  <2> QED BY <1>12, <1>14, <2>2
<1>16. Supply(b, f)'
  <2>1. Run' = r /\ answers' = answers
    BY <1>1 DEF ServerStep, Run, r
  <2>2. answers'[Run'] = n
    BY <1>3, <2>1 DEF r
  <2>3. last \in Lasts(Run') /\ Full(Run', answers'[Run'], last) = w
    BY <1>s, <2>1, <2>2 DEF r, w
  <2>4. tokensOut' = Lesser(b, answers'[Run'])
    BY <1>14, <2>2 DEF u
  <2> QED BY <1>14, <2>3, <2>4 DEF Supply
<1>17. \E p_1 \in 0..(answers[Run] + 1), d_1 \in 0..2 : Supply(p_1, d_1)'
  <2>1. b \in 0..(answers[Run] + 1)
    BY <1>3, <1>10
  <2> QED BY <1>10, <1>16, <2>1, Zenon
<1>18. /\ u \in Nat /\ u <= answers[Run] /\ a <= u /\ c \in 0..u
  BY <1>3, <1>10
<1>19. OnScreen(streamTokens, Run, c, a) /\ (Run \notin cleared => c = 0)
  BY <1>6, <1>7 DEF r
<1>20. Reading(Written(Run, u, "no"), a, e, buffer, down')
  BY <1>15 DEF r
<1>21. served' <=> "no" # "no"
  BY <1>1
<1> QED BY <1>1, <1>3, <1>14, <1>17, <1>18, <1>19, <1>20, <1>21, StillStreaming

LEMMA StepAdapterEnds == ASSUME StreamInv, AdapterEnds PROVE StreamInv'
<1>1. ServerStep /\ open /\ ~served /\ served' = TRUE /\ tokensOut' = tokensOut /\ up = <<>>
  BY DEF AdapterEnds, ServerStep, store, said
<1>2. answers \in Seq(Nat) /\ Run \in Nat
  BY RunIs DEF StreamInv
<1>3. PICK n \in Nat, a \in Nat, e \in 0..2, c \in 0..tokensOut, p \in 0..(answers[Run] + 1), d \in 0..2 :
              /\ answers[Run] = n /\ tokensOut \in 0..n /\ a <= tokensOut
              /\ Delivery("no", a, e, c) /\ Supply(p, d)
  BY <1>1, Unserved
<1> DEFINE t == tokensOut
           x == <<MetricsOf(Run, t), DoneOf(Run)>>
<1>4. t = n
  <2>1. PICK last, rest :
            /\ last \in Lasts(Run) /\ CutOff(up, rest)
            /\ Reading(Full(Run, n, last), p, d, pending, rest)
    BY <1>3 DEF Supply
  <2>2. t = Lesser(p, n)
    BY <1>3 DEF Supply
  <2>3. Len(Full(Run, n, last)) = n + 1
    BY <1>2, <2>1, FullIs
  <2>4. Len(rest) = 3 * (n + 1) - (3 * p + d) /\ p \in Nat /\ d \in 0..2
    BY <2>1, <2>3 DEF Reading
  <2>5. Len(rest) <= 3
    BY <1>1, <2>1 DEF CutOff
  <2>6. p >= n
    BY <2>4, <2>5
  <2> QED BY <2>2, <2>4, <2>6 DEF Lesser
<1>5. /\ Reading(Written(Run, t, "no"), a, e, buffer, down)
      /\ OnScreen(streamTokens, Run, c, Lesser(a, t)) /\ (Run \notin cleared => c = 0)
  BY <1>3 DEF Delivery
<1>6. Lesser(a, t) = a
  BY <1>3 DEF Lesser
<1>7. down' = down \o Lines(x)
  <2>1. down' = down \o Lines(<<Metrics(tokensOut), Done>>)
    BY DEF AdapterEnds, Writes
  <2>2. Metrics(tokensOut) = MetricsOf(Run, t) /\ Done = DoneOf(Run)
    BY DEF Metrics, MetricsOf, Done, DoneOf
  <2> QED BY <2>1, <2>2, Zenon
<1>8. t \in Nat
  BY <1>3
<1>9. x \in Seq(Chunk) /\ Written(Run, t, "no") \o x = Written(Run, t, "end")
  BY <1>2, <1>8, WritesEnd
<1> HIDE DEF x
<1>10. Reading(Written(Run, t, "end"), a, e, buffer, down')
  <2>1. Written(Run, t, "no") \in Seq(Chunk)
    BY <1>2, <1>8, WrittenOpen
  <2>2. Reading(Written(Run, t, "no") \o x, a, e, buffer, down \o Lines(x))
    BY <1>5, <1>9, <2>1, WritesOn
  <2> QED BY <1>7, <1>9, <2>2
<1>11. /\ t <= answers[Run] /\ t = answers[Run] /\ a <= t /\ c \in 0..t
  BY <1>3, <1>4
<1>12. OnScreen(streamTokens, Run, c, a)
  BY <1>5, <1>6
<1>13. served' <=> "end" # "no"
  BY <1>1
<1>14. ~served' => \E p_1 \in 0..(answers[Run] + 1), d_1 \in 0..2 : Supply(p_1, d_1)'
  BY <1>1
<1> QED BY <1>1, <1>3, <1>5, <1>8, <1>10, <1>11, <1>12, <1>13, <1>14, StillStreaming

LEMMA StepServerFails == ASSUME StreamInv, ServerFails PROVE StreamInv'
<1>1. ServerStep /\ open /\ ~served /\ served' = TRUE /\ tokensOut' = tokensOut
  BY DEF ServerFails, ServerStep, store, said
<1>2. answers \in Seq(Nat) /\ Run \in Nat
  BY RunIs DEF StreamInv
<1>3. PICK n \in Nat, a \in Nat, e \in 0..2, c \in 0..tokensOut, p \in 0..(answers[Run] + 1), d \in 0..2 :
              /\ answers[Run] = n /\ tokensOut \in 0..n /\ a <= tokensOut
              /\ Delivery("no", a, e, c) /\ Supply(p, d)
  BY <1>1, Unserved
<1> DEFINE t == tokensOut
           x == <<ErrorOf(Run)>>
<1>5. /\ Reading(Written(Run, t, "no"), a, e, buffer, down)
      /\ OnScreen(streamTokens, Run, c, Lesser(a, t)) /\ (Run \notin cleared => c = 0)
  BY <1>3 DEF Delivery
<1>6. Lesser(a, t) = a
  BY <1>3 DEF Lesser
<1>7. down' = down \o Lines(x)
  <2>1. down' = down \o Lines(<<Error>>)
    BY DEF ServerFails, Writes
  <2>2. Error = ErrorOf(Run)
    BY DEF Error, ErrorOf
  <2> QED BY <2>1, <2>2, Zenon
<1>8. t \in Nat
  BY <1>3
<1>9. x \in Seq(Chunk) /\ Written(Run, t, "no") \o x = Written(Run, t, "fail")
  <2>1. ErrorOf(Run) \in Chunk
    BY <1>2, ChunksAre
  <2>2. Written(Run, t, "no") \o <<ErrorOf(Run)>> = Written(Run, t, "fail")
    BY <1>2, <1>8, WritesError
  <2>3. <<ErrorOf(Run)>> \in Seq(Chunk)
    BY <2>1
  <2> QED BY <2>2, <2>3, Zenon
<1> HIDE DEF x
<1>10. Reading(Written(Run, t, "fail"), a, e, buffer, down')
  <2>1. Written(Run, t, "no") \in Seq(Chunk)
    BY <1>2, <1>8, WrittenOpen
  <2>2. Reading(Written(Run, t, "no") \o x, a, e, buffer, down \o Lines(x))
    BY <1>5, <1>9, <2>1, WritesOn
  <2> QED BY <1>7, <1>9, <2>2
<1>11. /\ t <= answers[Run] /\ a <= t /\ c \in 0..t
  BY <1>3
<1>12. OnScreen(streamTokens, Run, c, a)
  BY <1>5, <1>6
<1>13. served' <=> "fail" # "no"
  BY <1>1
<1>14. ~served' => \E p_1 \in 0..(answers[Run] + 1), d_1 \in 0..2 : Supply(p_1, d_1)'
  BY <1>1
<1> QED BY <1>1, <1>3, <1>5, <1>8, <1>10, <1>11, <1>12, <1>13, <1>14, StillStreaming

\* The answer is on its way to the panel.
LEMMA Delivered ==
    ASSUME StreamInv, open
    PROVE  /\ isRunning /\ Run \in Nat /\ Run > 0 /\ tokensOut \in Nat /\ tokensOut \in 0..answers[Run]
           /\ \E how \in {"no", "end", "fail"}, a \in Nat, e \in 0..2, c \in 0..tokensOut :
                 Delivery(how, a, e, c)
<1>1. Streaming /\ answers \in Seq(Nat)
  BY DEF StreamInv
<1>2. Run \in Nat /\ answers[Run] \in Nat /\ tokensOut \in 0..answers[Run] /\ Run > 0 /\ isRunning
  BY <1>1, RunIs DEF Streaming
<1>3. PICK how \in {"no", "end", "fail"}, a \in 0..(tokensOut + 2), e \in 0..2, c \in 0..tokensOut :
          Delivery(how, a, e, c)
  BY <1>1 DEF Streaming
<1>4. a \in Nat /\ tokensOut \in Nat
  BY <1>2
<1> QED BY <1>2, <1>3, <1>4

LEMMA StepPanelReads == ASSUME StreamInv, PanelReads PROVE StreamInv'
<1>1. /\ open /\ open' = open /\ answers' = answers /\ cleared' = cleared /\ isRunning' = isRunning
      /\ served' = served /\ up' = up /\ pending' = pending /\ tokensOut' = tokensOut
  BY DEF PanelReads, said
<1> DEFINE t == tokensOut
           r == Run
<1>2. /\ isRunning /\ r \in Nat /\ r > 0 /\ t \in Nat /\ t \in 0..answers[r]
      /\ \E how \in {"no", "end", "fail"}, a \in Nat, e \in 0..2, c \in 0..t : Delivery(how, a, e, c)
  BY <1>1, Delivered
<1>3. PICK how \in {"no", "end", "fail"}, a \in Nat, e \in 0..2, c \in 0..t : Delivery(how, a, e, c)
  BY <1>2
<1> DEFINE w == Written(r, t, how)
<1>4. /\ served <=> how # "no"
      /\ how = "end" => t = answers[r]
      /\ Reading(w, a, e, buffer, down)
      /\ OnScreen(streamTokens, r, c, Lesser(a, t))
      /\ r \notin cleared => c = 0
      /\ how = "end" /\ t < a /\ r \notin cleared => runMetrics = MetricsOf(r, t)
      /\ how = "fail" /\ t < a /\ r \notin cleared => streamError # None
  BY <1>3 DEF Delivery
<1>5. w \in Seq(Chunk) /\ Len(w) = t + More(how) /\ More(how) \in 0..2
  BY <1>2, WrittenIs
<1>6. PICK read \in Reads(down) :
          LET cut == Cut(buffer \o read)
          IN  /\ down' = Unread(down, read) /\ buffer' = cut.rest
              /\ Shows(cut.chunks)
  BY DEF PanelReads
<1> HIDE DEF w, r, t
<1>7. PICK b, f : /\ b \in a..Len(w)
                  /\ Cut(buffer \o read).chunks = Slice(w, a, b)
                  /\ Reading(w, b, f, Cut(buffer \o read).rest, Unread(down, read))
  BY <1>4, <1>5, ReadsOn
<1>8. Shows(Slice(w, a, b)) /\ Reading(w, b, f, buffer', down')
  BY <1>6, <1>7
<1>9. b \in Nat /\ b \in a..(t + 2) /\ f \in 0..2
  <2>1. f \in 0..2
    BY <1>8 DEF Reading
  <2>2. Len(w) \in Nat /\ Len(w) <= t + 2 /\ b \in a..Len(w)
    BY <1>2, <1>5, <1>7
  <2> QED BY <1>2, <2>1, <2>2
<1> DEFINE m == Lesser(a, t)
           l == Lesser(b, t)
<1>10. m \in 0..t /\ l \in m..t
  BY <1>2, <1>9 DEF Lesser
<1>11. /\ streamTokens' = streamTokens \o Slice(w, m, l)
       /\ runMetrics' = IF how = "end" /\ a <= t /\ t < b THEN MetricsOf(r, t) ELSE runMetrics
       /\ streamError' = IF how = "fail" /\ a <= t /\ t < b THEN "failed" ELSE streamError
  <2>1. b \in a..Len(Written(r, t, how)) /\ Shows(Slice(Written(r, t, how), a, b))
    BY <1>7, <1>8 DEF w
  <2>2. r \in Nat /\ t \in Nat
    BY <1>2
  <2> HIDE DEF m, l
  <2>3. /\ streamTokens' = streamTokens \o Slice(Written(r, t, how), Lesser(a, t), Lesser(b, t))
        /\ runMetrics' = IF how = "end" /\ a <= t /\ t < b THEN MetricsOf(r, t) ELSE runMetrics
        /\ streamError' = IF how = "fail" /\ a <= t /\ t < b THEN "failed" ELSE streamError
    BY <2>1, <2>2, ShowsIs
  <2> QED BY <2>3, Zenon DEF w, m, l
<1> HIDE DEF m, l
<1>12. streamTokens \in Seq(Chunk) /\ Ordered(streamTokens, cleared)
  BY DEF StreamInv, Screen
<1>13. /\ streamTokens' \in Seq(Chunk) /\ OnScreen(streamTokens', r, c, l)
       /\ Ordered(streamTokens', cleared)
  <2>1. OnScreen(streamTokens, r, c, m)
    BY <1>4 DEF m
  <2>2. /\ streamTokens \o Slice(Written(r, t, how), m, l) \in Seq(Chunk)
        /\ OnScreen(streamTokens \o Slice(Written(r, t, how), m, l), r, c, l)
        /\ Ordered(streamTokens \o Slice(Written(r, t, how), m, l), cleared)
    BY <1>2, <1>4, <1>10, <1>12, <2>1, ScreenGrows
  <2> QED BY <1>11, <2>2 DEF w
<1>14. \A i \in 1..Len(streamTokens') : streamTokens'[i].run <= r
  BY <1>2, <1>13, ScreenRuns
<1>15. Run' = r /\ tokensOut' = t
  BY <1>1 DEF Run, r, t
<1>16. Screen'
  BY <1>1, <1>13, <1>14, <1>15 DEF Screen
<1>17. Clean'
  BY <1>1, <1>2 DEF Clean
<1>18. /\ how = "end" /\ t < b /\ r \notin cleared => runMetrics' = MetricsOf(r, t)
       /\ how = "fail" /\ t < b /\ r \notin cleared => streamError' # None
  <2>1. a <= t \/ t < a
    BY <1>2
  <2>2. "failed" # None
    BY StreamsAssumption
  <2> QED BY <1>4, <1>11, <2>1, <2>2
<1>19. Delivery(how, b, f, c)'
  <2>1. Reading(Written(Run', tokensOut', how), b, f, buffer', down')
    BY <1>8, <1>15 DEF w
  <2>2. OnScreen(streamTokens', Run', c, Lesser(b, tokensOut'))
    BY <1>13, <1>15 DEF l
  <2>3. /\ served' <=> how # "no"
        /\ how = "end" => tokensOut' = answers'[Run']
        /\ Run' \notin cleared' => c = 0
    BY <1>1, <1>4, <1>15
  <2>4. /\ how = "end" /\ tokensOut' < b /\ Run' \notin cleared' => runMetrics' = MetricsOf(Run', tokensOut')
        /\ how = "fail" /\ tokensOut' < b /\ Run' \notin cleared' => streamError' # None
    BY <1>1, <1>15, <1>18
  <2> QED BY <2>1, <2>2, <2>3, <2>4 DEF Delivery
<1>20. Streaming'
  <2>1. isRunning' /\ Run' > 0 /\ tokensOut' \in 0..answers'[Run']
    BY <1>1, <1>2, <1>15
  <2>2. b \in 0..(tokensOut' + 2) /\ c \in 0..tokensOut'
    BY <1>9, <1>15 DEF t
  <2>3. \E how_1 \in {"no", "end", "fail"}, a_1 \in 0..(tokensOut' + 2), e_1 \in 0..2, c_1 \in 0..tokensOut' :
          Delivery(how_1, a_1, e_1, c_1)'
    BY <1>9, <1>19, <2>2, Zenon
  <2>4. ~served' => \E p \in 0..(answers'[Run'] + 1), d \in 0..2 : Supply(p, d)'
    <3>1. Streaming
      BY <1>1 DEF StreamInv
    <3>2. \A p, d : Supply(p, d) => Supply(p, d)'
      BY <1>1, <1>15 DEF Supply, r
    <3>3. ~served => \E p \in 0..(answers[Run] + 1), d \in 0..2 : Supply(p, d)
      BY <3>1 DEF Streaming
    <3>4. served' = served /\ answers'[Run'] = answers[Run]
      BY <1>1, <1>15 DEF r
    <3> QED BY <3>2, <3>3, <3>4
  <2> QED BY <2>1, <2>3, <2>4 DEF Streaming
<1>21. answers' \in Seq(Nat) /\ cleared' \subseteq 0..Run'
  BY <1>1, <1>15 DEF StreamInv, r
<1> QED BY <1>16, <1>17, <1>20, <1>21 DEF StreamInv

\* A stream that is closed with an error on screen, or by leaving.
LEMMA Closes ==
    ASSUME StreamInv, CloseStream, streamTokens' = streamTokens, cleared' = cleared,
           isRunning' \/ streamError' # None
    PROVE  StreamInv'
<1>1. open' = FALSE /\ answers' = answers /\ Run' = Run
  BY DEF CloseStream, Run, said
<1>2. Screen'
  BY <1>1 DEF StreamInv, Screen
<1>3. Clean'
  BY DEF Clean
<1> QED BY <1>1, <1>2, <1>3 DEF StreamInv

LEMMA StepPanelEnds == ASSUME StreamInv, PanelEnds PROVE StreamInv'
<1>1. /\ open /\ served /\ down = <<>> /\ Shows(Parsed(buffer)) /\ CloseStream
      /\ isRunning' = FALSE /\ cleared' = cleared /\ open' = FALSE /\ answers' = answers
  BY DEF PanelEnds, CloseStream, said
<1> DEFINE t == tokensOut
           r == Run
<1>2. /\ r \in Nat /\ r > 0 /\ t \in Nat /\ t \in 0..answers[r]
      /\ \E how \in {"no", "end", "fail"}, a \in Nat, e \in 0..2, c \in 0..t : Delivery(how, a, e, c)
  BY <1>1, Delivered
<1>3. PICK how \in {"no", "end", "fail"}, a \in Nat, e \in 0..2, c \in 0..t : Delivery(how, a, e, c)
  BY <1>2
<1> DEFINE w == Written(r, t, how)
<1>4. /\ served <=> how # "no"
      /\ how = "end" => t = answers[r]
      /\ Reading(w, a, e, buffer, down)
      /\ OnScreen(streamTokens, r, c, Lesser(a, t))
      /\ r \notin cleared => c = 0
      /\ how = "end" /\ t < a /\ r \notin cleared => runMetrics = MetricsOf(r, t)
      /\ how = "fail" /\ t < a /\ r \notin cleared => streamError # None
  BY <1>3 DEF Delivery
<1>5. w \in Seq(Chunk) /\ Len(w) = t + More(how)
  BY <1>2, WrittenIs
<1>6. how \in {"end", "fail"} /\ More(how) \in {1, 2}
  BY <1>1, <1>4 DEF More
<1> HIDE DEF w, r, t
<1>7. a = Len(w) /\ buffer = <<>>
  BY <1>1, <1>4, <1>5, ReadsAll
<1>8. t < a /\ Lesser(a, t) = t /\ Lesser(t, t) = t
  BY <1>2, <1>5, <1>6, <1>7 DEF Lesser
<1>9. Parsed(<<>>) = <<>>
  <2>1. ~\E c_1 \in {<<>>[i].chunk : i \in DOMAIN <<>>} : <<>> = <<Half(1, c_1), Half(2, c_1)>>
    <3>1. DOMAIN <<>> = {}
      OBVIOUS
    <3> QED BY <3>1
  <2> QED BY <2>1, Zenon DEF Parsed
<1>10. Slice(w, a, a) = <<>>
  <2>1. a \in a..Len(w)
    BY <1>7
  <2>2. Slice(w, a, a) \in Seq(Chunk) /\ Len(Slice(w, a, a)) = a - a
    BY <1>5, <2>1, SliceIs
  <2> QED BY <2>2
<1>11. /\ streamTokens' = streamTokens \o Slice(w, t, t)
       /\ runMetrics' = runMetrics /\ streamError' = streamError
  <2>1. a \in a..Len(Written(r, t, how)) /\ Shows(Slice(Written(r, t, how), a, a))
    BY <1>1, <1>7, <1>9, <1>10 DEF w
  <2>0. r \in Nat /\ t \in Nat
    BY <1>2
  <2>2. /\ streamTokens' = streamTokens \o Slice(Written(r, t, how), Lesser(a, t), Lesser(a, t))
        /\ runMetrics' = IF how = "end" /\ a <= t /\ t < a THEN MetricsOf(r, t) ELSE runMetrics
        /\ streamError' = IF how = "fail" /\ a <= t /\ t < a THEN "failed" ELSE streamError
    BY <2>0, <2>1, ShowsIs
  <2>3. ~(a <= t)
    BY <1>2, <1>8
  <2> QED BY <1>8, <2>2, <2>3 DEF w
<1>12. streamTokens' = streamTokens
  <2>1. streamTokens \in Seq(Chunk)
    BY DEF StreamInv, Screen
  <2>2. t \in t..Len(w)
    BY <1>2, <1>7, <1>8
  <2>3. Slice(w, t, t) \in Seq(Chunk) /\ Len(Slice(w, t, t)) = t - t
    BY <1>2, <1>5, <2>2, SliceIs
  <2>4. Slice(w, t, t) = <<>>
    BY <1>2, <2>3
  <2>5. streamTokens \o <<>> = streamTokens
    BY <2>1
  <2> QED BY <1>11, <2>4, <2>5
<1>13. Run' = Run
  BY <1>1 DEF Run
<1>14. Screen'
  BY <1>1, <1>12, <1>13 DEF StreamInv, Screen
<1>15. Clean'
  <2> SUFFICES ASSUME streamError = None, r \notin cleared
               PROVE  OnScreen(streamTokens, r, 0, answers[r]) /\ runMetrics = MetricsOf(r, answers[r])
    BY <1>1, <1>11, <1>12, <1>13 DEF Clean, r
  <2>1. how = "end"
    BY <1>4, <1>6, <1>8
  <2>2. c = 0 /\ t = answers[r] /\ runMetrics = MetricsOf(r, t)
    BY <1>4, <1>8, <2>1
  <2> QED BY <1>4, <1>8, <2>2
<1> QED BY <1>1, <1>13, <1>14, <1>15 DEF StreamInv

LEMMA StepClear == ASSUME StreamInv, Clear PROVE StreamInv'
<1>1. /\ streamTokens' = <<>> /\ streamError' = None /\ runMetrics' = None
      /\ cleared' = cleared \union {Run} /\ isRunning' = isRunning /\ open' = open
      /\ buffer' = buffer /\ down' = down /\ served' = served /\ up' = up /\ pending' = pending
      /\ tokensOut' = tokensOut /\ answers' = answers /\ Run' = Run
  BY DEF Clear, ResetStream, server, said, Run
<1>2. answers \in Seq(Nat) /\ Run \in Nat /\ cleared \subseteq 0..Run
  BY RunIs DEF StreamInv
<1>3. cleared' \subseteq 0..Run'
  BY <1>1, <1>2
<1>4. Screen'
  BY <1>1, NothingIsOrdered DEF Screen
<1>5. Clean'
  BY <1>1 DEF Clean
<1>6. open => Streaming'
  <2> SUFFICES ASSUME open PROVE Streaming'
    OBVIOUS
  <2>1. /\ isRunning /\ Run > 0 /\ tokensOut \in Nat /\ tokensOut \in 0..answers[Run]
        /\ Streaming
    BY Delivered DEF StreamInv
  <2>2. PICK how \in {"no", "end", "fail"}, a \in 0..(tokensOut + 2), e \in 0..2, c \in 0..tokensOut :
          Delivery(how, a, e, c)
    BY <2>1 DEF Streaming
  <2>3. PICK m \in 0..tokensOut : m \in Nat /\ m = Lesser(a, tokensOut)
    BY <2>1 DEF Lesser
  <2>4. OnScreen(<<>>, Run, m, m)
    <3>1. \A i \in 1..Len(<<>>) : <<>>[i].run < Run
      BY NothingIsOrdered
    <3> QED BY <1>2, <2>3, <3>1, NothingIsOrdered, ScreenFresh
  <2>5. Delivery(how, a, e, m)'
    <3>1. Run \in cleared'
      BY <1>1
    <3>2. /\ served' <=> how # "no"
          /\ how = "end" => tokensOut' = answers'[Run']
          /\ Reading(Written(Run', tokensOut', how), a, e, buffer', down')
      BY <1>1, <2>2 DEF Delivery
    <3>3. OnScreen(streamTokens', Run', m, Lesser(a, tokensOut'))
      BY <1>1, <2>3, <2>4
    <3> QED BY <1>1, <3>1, <3>2, <3>3 DEF Delivery
  <2>6. \E how_1 \in {"no", "end", "fail"}, a_1 \in 0..(tokensOut' + 2), e_1 \in 0..2, c_1 \in 0..tokensOut' :
          Delivery(how_1, a_1, e_1, c_1)'
    <3>1. a \in 0..(tokensOut' + 2) /\ m \in 0..tokensOut'
      BY <1>1, <2>3
    <3> QED BY <2>5, <3>1, Zenon
  <2>7. ~served' => \E p \in 0..(answers'[Run'] + 1), d \in 0..2 : Supply(p, d)'
    <3>1. \A p, d : Supply(p, d) => Supply(p, d)'
      BY <1>1 DEF Supply
    <3>2. ~served => \E p \in 0..(answers[Run] + 1), d \in 0..2 : Supply(p, d)
      BY <2>1 DEF Streaming
    <3>3. served' = served /\ answers'[Run'] = answers[Run]
      BY <1>1
    <3> QED BY <3>1, <3>2, <3>3
  <2>8. isRunning' /\ Run' > 0 /\ tokensOut' \in 0..answers'[Run']
    BY <1>1, <2>1
  <2> QED BY <2>6, <2>7, <2>8 DEF Streaming
<1> QED BY <1>1, <1>2, <1>3, <1>4, <1>5, <1>6 DEF StreamInv

LEMMA StepClickRun == ASSUME StreamInv, ClickRun PROVE StreamInv'
  BY Opens DEF ClickRun, ResetStream

LEMMA StepCancel == ASSUME StreamInv, Cancel PROVE StreamInv'
<1>1. "stopped" # None
  BY StreamsAssumption
<1> QED BY <1>1, Closes DEF Cancel

LEMMA StepBreaks ==
    ASSUME StreamInv, NEW message \in {"timed_out", "failed"}, Breaks(message)
    PROVE  StreamInv'
<1>1. message # None
  BY StreamsAssumption
<1> QED BY <1>1, Closes DEF Breaks

\* A step that leaves the stream and the store alone.
LEMMA StepAside ==
    ASSUME StreamInv, UNCHANGED <<store, open, buffer, server, said, cleared>>
    PROVE  StreamInv'
<1>1. /\ streamTokens' = streamTokens /\ streamError' = streamError /\ runMetrics' = runMetrics
      /\ cleared' = cleared /\ isRunning' = isRunning /\ open' = open
      /\ buffer' = buffer /\ down' = down /\ served' = served /\ up' = up /\ pending' = pending
      /\ tokensOut' = tokensOut /\ answers' = answers /\ Run' = Run
  BY DEF store, server, said, Run
<1>2. Screen' /\ Clean'
  BY <1>1 DEF StreamInv, Screen, Clean
<1>3. open => Streaming'
  <2> SUFFICES ASSUME open PROVE Streaming'
    OBVIOUS
  <2>1. Streaming
    BY DEF StreamInv
  <2>2. \A p, d : Supply(p, d) => Supply(p, d)'
    BY <1>1 DEF Supply
  <2>3. \A how, a, e, c : Delivery(how, a, e, c) => Delivery(how, a, e, c)'
    BY <1>1 DEF Delivery
  <2> QED BY <1>1, <2>1, <2>2, <2>3 DEF Streaming
<1> QED BY <1>1, <1>2, <1>3 DEF StreamInv

LEMMA StepLeave == ASSUME StreamInv, Leave PROVE StreamInv'
<1>1. CASE open
  <2>1. CloseStream /\ streamTokens' = streamTokens /\ cleared' = cleared /\ isRunning' = isRunning
    BY <1>1 DEF Leave, store
  <2>2. isRunning
    BY <1>1, Delivered
  <2> QED BY <2>1, <2>2, Closes
<1>2. CASE ~open
  BY <1>2, StepAside DEF Leave
<1> QED BY <1>1, <1>2

LEMMA StepReturn == ASSUME StreamInv, Return, isRunning \in BOOLEAN PROVE StreamInv'
<1>1. CASE isRunning
  <2>1. OpenStream /\ streamTokens' = streamTokens /\ cleared' = cleared /\ isRunning' = TRUE
    BY <1>1 DEF Return, store
  <2> QED BY <2>1, Opens
<1>2. CASE ~isRunning
  BY <1>2, StepAside DEF Return
<1> QED BY <1>1, <1>2

LEMMA StepReload == ASSUME StreamInv, Reload PROVE StreamInv'
<1>1. /\ streamTokens' = <<>> /\ cleared' = cleared \union {Run} /\ open' = FALSE
      /\ answers' = answers /\ Run' = Run
  BY DEF Reload, ResetStream, CloseStream, said, Run
<1>2. answers \in Seq(Nat) /\ Run \in Nat /\ cleared \subseteq 0..Run
  BY RunIs DEF StreamInv
<1>3. cleared' \subseteq 0..Run'
  BY <1>1, <1>2
<1>4. Screen'
  BY <1>1, NothingIsOrdered DEF Screen
<1>5. Clean'
  BY <1>1 DEF Clean
<1> QED BY <1>1, <1>2, <1>3, <1>4, <1>5 DEF StreamInv

StreamsInv == StreamInv /\ isRunning \in BOOLEAN

LEMMA StreamsStep == ASSUME StreamsInv, [StreamsNext]_streamVars PROVE StreamsInv'
<1>1. isRunning' \in BOOLEAN
  BY DEF StreamsInv, StreamsNext, streamVars, store, ClickRun, Cancel, Clear, Leave, Return, Reload,
         AdapterReads, AdapterEnds, ServerFails, PanelReads, PanelEnds, StreamTimesOut, RequestFails,
         Breaks
<1>2. StreamInv /\ isRunning \in BOOLEAN
  BY DEF StreamsInv
<1>3. CASE ClickRun
  BY <1>1, <1>2, <1>3, StepClickRun DEF StreamsInv
<1>4. CASE Cancel
  BY <1>1, <1>2, <1>4, StepCancel DEF StreamsInv
<1>5. CASE Clear
  BY <1>1, <1>2, <1>5, StepClear DEF StreamsInv
<1>6. CASE Leave
  BY <1>1, <1>2, <1>6, StepLeave DEF StreamsInv
<1>7. CASE Return
  BY <1>1, <1>2, <1>7, StepReturn DEF StreamsInv
<1>8. CASE Reload
  BY <1>1, <1>2, <1>8, StepReload DEF StreamsInv
<1>9. CASE AdapterReads
  BY <1>1, <1>2, <1>9, StepAdapterReads DEF StreamsInv
<1>10. CASE AdapterEnds
  BY <1>1, <1>2, <1>10, StepAdapterEnds DEF StreamsInv
<1>11. CASE ServerFails
  BY <1>1, <1>2, <1>11, StepServerFails DEF StreamsInv
<1>12. CASE PanelReads
  BY <1>1, <1>2, <1>12, StepPanelReads DEF StreamsInv
<1>13. CASE PanelEnds
  BY <1>1, <1>2, <1>13, StepPanelEnds DEF StreamsInv
<1>14. CASE StreamTimesOut \/ RequestFails
  BY <1>1, <1>2, <1>14, StepBreaks DEF StreamsInv, StreamTimesOut, RequestFails
<1>15. CASE UNCHANGED streamVars
  BY <1>1, <1>2, <1>15, StepAside DEF StreamsInv, streamVars
<1> QED BY <1>3, <1>4, <1>5, <1>6, <1>7, <1>8, <1>9, <1>10, <1>11, <1>12, <1>13, <1>14, <1>15
    DEF StreamsNext

LEMMA StreamsAlways == StreamsSpec => []StreamsInv
<1>1. StreamsInit => StreamsInv
  BY StreamsBegin DEF StreamsInv, StreamsInit
<1>2. StreamsInv /\ [StreamsNext]_streamVars => StreamsInv'
  BY StreamsStep
<1> QED BY <1>1, <1>2, PTL DEF StreamsSpec

\* The output of the panel is in the order the provider gave.
THEOREM TokensAreInOrder == StreamsSpec => []OutputInOrder
<1>1. StreamsInv => OutputInOrder
  BY DEF StreamsInv, StreamInv, Screen, Ordered, OutputInOrder
<1> QED BY <1>1, StreamsAlways, PTL

\* Of a sequence that shows run r from its first token to the one at m, m are of r.
LEMMA CountShown ==
    ASSUME NEW S \in Seq(Chunk), NEW r \in Nat, NEW m \in Nat, OnScreen(S, r, 0, m)
    PROVE  Cardinality({i \in DOMAIN S : S[i].run = r}) = m
<1>1. PICK k \in 0..Len(S) : ShowsFrom(S, r, 0, m, k)
  BY DEF OnScreen
<1>2. /\ Len(S) = k + m /\ DOMAIN S = 1..Len(S) /\ Len(S) \in Nat
      /\ \A i \in 1..k : S[i].run < r
      /\ \A i \in (k + 1)..Len(S) : S[i] = TokenOf(r, 0 + (i - k))
  BY <1>1 DEF ShowsFrom
<1>3. \A i \in (k + 1)..Len(S) : S[i].run = r
  <2> TAKE i \in (k + 1)..Len(S)
  <2>1. S[i] = TokenOf(r, 0 + (i - k))
    BY <1>2
  <2> QED BY <2>1 DEF TokenOf
<1>4. {i \in DOMAIN S : S[i].run = r} = (k + 1)..(k + m)
  <2>1. ASSUME NEW i \in 1..Len(S) PROVE S[i].run = r <=> i \in (k + 1)..(k + m)
    <3>1. CASE i <= k
      <4>1. S[i].run < r /\ i \notin (k + 1)..(k + m)
        BY <1>2, <3>1
      <4> QED BY <4>1
    <3>2. CASE ~(i <= k)
      BY <1>2, <1>3, <3>2
    <3> QED BY <3>1, <3>2
  <2> QED BY <1>2, <2>1
<1>5. Cardinality((k + 1)..(k + m)) = m
  <2>1. k + 1 \in Int /\ k + m \in Int
    OBVIOUS
  <2>2. Cardinality((k + 1)..(k + m)) = IF k + 1 > k + m THEN 0 ELSE (k + m) - (k + 1) + 1
    BY <2>1, FS_Interval
  <2> QED BY <2>2
<1> QED BY <1>4, <1>5

\* A run that ended cleanly is whole.
THEOREM CleanRunsAreWhole == StreamsSpec => []CleanRunIsWhole
<1>1. StreamsInv => CleanRunIsWhole
  <2> SUFFICES ASSUME StreamsInv, ~isRunning, streamError = None, Run > 0, Run \notin cleared
               PROVE  /\ Cardinality({i \in DOMAIN streamTokens : streamTokens[i].run = Run}) = answers[Run]
                      /\ runMetrics = Metrics(answers[Run])
    BY DEF CleanRunIsWhole, CleanRun
  <2>1. /\ OnScreen(streamTokens, Run, 0, answers[Run]) /\ runMetrics = MetricsOf(Run, answers[Run])
        /\ streamTokens \in Seq(Chunk) /\ answers \in Seq(Nat)
    BY DEF StreamsInv, StreamInv, Clean, Screen
  <2>2. Run \in Nat /\ answers[Run] \in Nat
    BY <2>1, RunIs
  <2>3. Metrics(answers[Run]) = MetricsOf(Run, answers[Run])
    BY DEF Metrics, MetricsOf
  <2> QED BY <2>1, <2>2, <2>3, CountShown
<1> QED BY <1>1, StreamsAlways, PTL
=============================================================================
