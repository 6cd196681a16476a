-------------------------- MODULE Middleware_proofs --------------------------
(***************************************************************************)
(* AuditQueue, for any number of entries, flushes and shutdown runs.       *)
(*                                                                         *)
(* An entry is written once because it is at one place at a time: in the   *)
(* buffer, in the rest of one batch, or in the table, from which only the  *)
(* rollback of a transaction that it joined takes it.  The shutdown drains *)
(* because on SQLite at most the flush that has the turn holds a batch,    *)
(* and from its splice to the exit nothing is enqueued; with the local     *)
(* driver no transaction is open then.                                     *)
(*                                                                         *)
(* RateLimit, for any requests, windows and limits.                        *)
(*                                                                         *)
(* The counter that a check reads is the number of checks it has admitted  *)
(* in its window, in the database and on Redis each for itself, until one  *)
(* of them fails; on a connection shared with a prompt's transaction it    *)
(* may be too low, never too high.                                         *)
(***************************************************************************)
EXTENDS AuditQueue, RateLimit, TLAPS

Distinct(q) == \A i, j \in 1..Len(q) : q[i] = q[j] => i = j

\* An entry is queued once, and only if it was enqueued.
QueuedOnce ==
    /\ Distinct(buffer)
    /\ \A r \in Runs : Distinct(batch[r])
    /\ \A e \in Entries : Buffered(e) => ~InBatch(e)
    /\ \A e \in Entries, q, r \in Runs :
          e \in Elements(batch[q]) /\ e \in Elements(batch[r]) => q = r
    /\ \A e \in Entries : Buffered(e) \/ InBatch(e) \/ persisted[e] > 0 => e \in enqueued

\* A shutdown run has a batch only while it flushes.
FlushPhase == \A s \in Shutdowns : phase[s] # "flush" => batch[s] = <<>>

\* An entry that was handed in is somewhere, or its row was undone.
Accounted ==
    \A e \in enqueued : Buffered(e) \/ InBatch(e) \/ persisted[e] > 0 \/ e \in undone

\* The transactions of others are on SQLite, a creation's with a networked driver only;
\* a promotion's is over before the next callback, and a shutdown run meets none.
OneConnection ==
    /\ tx = "none" => joined = {}
    /\ tx # "none" => backend # "postgres" /\ proc = "up"
    /\ tx = "create" => backend = "shared"
    /\ tx \in {"promote", "commit"} => turn \notin Shutdowns
    /\ Explained

\* On SQLite a flush runs through, so a shutdown run leaves nothing behind its splice.
OneChain ==
    backend # "postgres" =>
        /\ stale = {}
        /\ proc = "up" =>
              /\ \A r \in Runs : batch[r] # <<>> => turn = r
              /\ \A s \in Shutdowns : phase[s] \in {"flush", "close"} <=> turn = s
              /\ (\E s \in Shutdowns : turn = s) /\ faults = 0 => buffer = <<>>
        /\ proc = "exited" =>
              /\ \A r \in Runs : batch[r] = <<>>
              /\ faults = 0 => buffer = <<>>

Placed == Accounted /\ QueuedOnce /\ ExactlyOnce

IInv == TypeOK /\ Placed /\ FlushPhase /\ OneChain /\ OneConnection

-----------------------------------------------------------------------------
(* Sequences.                                                               *)

LEMMA AppendElements ==
    ASSUME NEW S, NEW q \in Seq(S), NEW e \in S
    PROVE  /\ Append(q, e) \in Seq(S) /\ Append(q, e) # <<>>
           /\ Elements(Append(q, e)) = Elements(q) \union {e}
  BY DEF Elements

LEMMA HeadElements ==
    ASSUME NEW S, NEW q \in Seq(S), NEW e \in S
    PROVE  /\ <<e>> \o q \in Seq(S)
           /\ Elements(<<e>> \o q) = Elements(q) \union {e}
<1>1. <<e>> \o q \in Seq(S)
  OBVIOUS
<1>2. Len(<<e>> \o q) = Len(q) + 1
  OBVIOUS
<1>3. \A i \in 1..Len(q) + 1 : (<<e>> \o q)[i] = IF i = 1 THEN e ELSE q[i - 1]
  OBVIOUS
<1>4. ASSUME NEW x \in Elements(<<e>> \o q) PROVE x \in Elements(q) \union {e}
  <2>1. PICK i \in 1..Len(q) + 1 : x = (<<e>> \o q)[i]
    BY <1>2, <1>4 DEF Elements
  <2>2. i # 1 => i - 1 \in 1..Len(q)
    OBVIOUS
  <2> QED BY <1>3, <2>1, <2>2 DEF Elements
<1>5. ASSUME NEW x \in Elements(q) PROVE x \in Elements(<<e>> \o q)
  <2>1. PICK i \in 1..Len(q) : x = q[i]
    BY <1>5 DEF Elements
  <2>2. i + 1 \in 1..Len(q) + 1 /\ (<<e>> \o q)[i + 1] = q[i]
    BY <1>3
  <2> QED BY <1>2, <2>1, <2>2 DEF Elements
<1>6. e \in Elements(<<e>> \o q)
  <2>1. 1 \in 1..Len(q) + 1 /\ (<<e>> \o q)[1] = e
    BY <1>3
  <2> QED BY <1>2, <2>1 DEF Elements
<1> QED BY <1>1, <1>4, <1>5, <1>6

LEMMA TailElements ==
    ASSUME NEW S, NEW q \in Seq(S), q # <<>>
    PROVE  /\ Tail(q) \in Seq(S) /\ Head(q) \in S
           /\ Elements(q) = Elements(Tail(q)) \union {Head(q)}
<1>1. Len(q) \in Nat \ {0} /\ Tail(q) \in Seq(S) /\ Len(Tail(q)) = Len(q) - 1
  OBVIOUS
<1>2. \A i \in 1..Len(q) - 1 : Tail(q)[i] = q[i + 1]
  OBVIOUS
<1>3. Head(q) = q[1] /\ Head(q) \in S
  OBVIOUS
<1>4. ASSUME NEW x \in Elements(q) PROVE x \in Elements(Tail(q)) \union {Head(q)}
  <2>1. PICK i \in 1..Len(q) : x = q[i]
    BY <1>4 DEF Elements
  <2>2. i # 1 => i - 1 \in 1..Len(q) - 1 /\ Tail(q)[i - 1] = q[i]
    BY <1>1, <1>2
  <2> QED BY <1>1, <1>3, <2>1, <2>2 DEF Elements
<1>5. ASSUME NEW x \in Elements(Tail(q)) PROVE x \in Elements(q)
  <2>1. PICK i \in 1..Len(q) - 1 : x = Tail(q)[i]
    BY <1>1, <1>5 DEF Elements
  <2> QED BY <1>1, <1>2, <2>1 DEF Elements
<1>6. Head(q) \in Elements(q)
  BY <1>1, <1>3 DEF Elements
<1> QED BY <1>1, <1>3, <1>4, <1>5, <1>6

LEMMA DistinctSequences ==
    ASSUME NEW S, NEW q \in Seq(S), Distinct(q)
    PROVE  /\ \A e \in S : e \notin Elements(q) => Distinct(Append(q, e)) /\ Distinct(<<e>> \o q)
           /\ q # <<>> => Distinct(Tail(q)) /\ Head(q) \notin Elements(Tail(q))
<1>1. ASSUME NEW e \in S, e \notin Elements(q) PROVE Distinct(Append(q, e))
  <2>1. Len(Append(q, e)) = Len(q) + 1 /\
        \A i \in 1..Len(q) + 1 : Append(q, e)[i] = IF i = Len(q) + 1 THEN e ELSE q[i]
    OBVIOUS
  <2> QED BY <1>1, <2>1 DEF Distinct, Elements
<1>2. ASSUME NEW e \in S, e \notin Elements(q) PROVE Distinct(<<e>> \o q)
  <2>1. Len(<<e>> \o q) = Len(q) + 1 /\
        \A i \in 1..Len(q) + 1 : (<<e>> \o q)[i] = IF i = 1 THEN e ELSE q[i - 1]
    OBVIOUS
  <2>2. \A i \in 1..Len(q) + 1 : i # 1 => i - 1 \in 1..Len(q) /\ q[i - 1] # e
    BY <1>2 DEF Elements
  <2>3. ASSUME NEW i \in 1..Len(q) + 1, NEW j \in 1..Len(q) + 1,
               (<<e>> \o q)[i] = (<<e>> \o q)[j]
        PROVE  i = j
    <3>1. CASE i = 1 \/ j = 1
      BY <2>1, <2>2, <2>3, <3>1
    <3>2. CASE i # 1 /\ j # 1
      <4>1. q[i - 1] = q[j - 1]
        BY <2>1, <2>3, <3>2
      <4> QED BY <2>2, <3>2, <4>1 DEF Distinct
    <3> QED BY <3>1, <3>2
  <2> QED BY <2>1, <2>3 DEF Distinct
<1>3. ASSUME q # <<>> PROVE Distinct(Tail(q)) /\ Head(q) \notin Elements(Tail(q))
  <2>1. /\ Len(q) \in Nat \ {0} /\ Len(Tail(q)) = Len(q) - 1 /\ Head(q) = q[1]
        /\ \A i \in 1..Len(q) - 1 : Tail(q)[i] = q[i + 1]
    BY <1>3
  <2>2. \A i \in 1..Len(q) - 1 : i + 1 \in 1..Len(q) /\ i + 1 # 1
    BY <2>1
  <2> QED BY <2>1, <2>2 DEF Distinct, Elements
<1> QED BY <1>1, <1>2, <1>3

LEMMA Empty == Elements(<<>>) = {} /\ Distinct(<<>>)
  BY DEF Elements, Distinct

-----------------------------------------------------------------------------
(* The three ways in which entries move.                                    *)

\* A flush takes what is buffered and what the response in hand adds to it.
LEMMA TakePlaces ==
    ASSUME IInv, NEW r \in Runs, NEW entries \in Seq(Entries), NEW new,
           batch[r] = <<>>, TakeBatch(r, entries), Distinct(entries),
           Elements(entries) = Elements(buffer) \union new, new \intersect enqueued = {},
           enqueued' = enqueued \union new, UNCHANGED <<backend, persisted, undone>>
    PROVE  Placed' /\ buffer' \in Seq(Entries) /\ batch' \in [Runs -> Seq(Entries)]
<1>1. /\ batch' = [batch EXCEPT ![r] = entries] /\ buffer' = <<>>
      /\ batch \in [Runs -> Seq(Entries)]
  BY DEF TakeBatch, IInv, TypeOK
<1>2. /\ Elements(batch'[r]) = Elements(buffer) \union new
      /\ Elements(batch[r]) = {}
      /\ \A q \in Runs : q # r => batch'[q] = batch[q]
      /\ Elements(buffer') = {}
  BY <1>1, Empty
<1>3. \A e : InBatch(e)' <=> InBatch(e) \/ Buffered(e) \/ e \in new
  BY <1>2 DEF InBatch, Buffered
<1>4. \A e : ~Buffered(e)'
  BY <1>2 DEF Buffered
<1>5. Accounted'
  BY <1>3, <1>4 DEF IInv, Placed, Accounted
<1>6. QueuedOnce'
  <2>1. Distinct(buffer') /\ \A q \in Runs : Distinct(batch'[q])
    BY <1>1, Empty DEF IInv, Placed, QueuedOnce
  <2>2. ASSUME NEW e \in Entries, NEW p \in Runs, NEW q \in Runs,
               e \in Elements(batch'[p]), e \in Elements(batch'[q])
        PROVE  p = q
    <3>1. \A b \in Runs : b # r => (e \in Elements(batch'[b]) => InBatch(e) /\ e \in enqueued)
      BY <1>2 DEF IInv, Placed, QueuedOnce, InBatch
    <3>2. e \in Elements(batch'[r]) /\ e \in enqueued => Buffered(e)
      BY <1>2 DEF Buffered
    <3> QED BY <1>2, <2>2, <3>1, <3>2 DEF IInv, Placed, QueuedOnce
  <2>3. \A e \in Entries : Buffered(e)' \/ InBatch(e)' \/ persisted'[e] > 0 => e \in enqueued'
    BY <1>3, <1>4 DEF IInv, Placed, QueuedOnce
  <2> QED BY <1>4, <2>1, <2>2, <2>3 DEF QueuedOnce
<1>7. ExactlyOnce'
  BY <1>3, <1>4 DEF IInv, Placed, QueuedOnce, ExactlyOnce
<1> QED BY <1>1, <1>5, <1>6, <1>7 DEF Placed

\* What all three results of an insert have in common: the batch loses its head.
LEMMA AdvanceMoves ==
    ASSUME IInv, NEW r \in Runs, batch[r] # <<>>, Advance(r), NEW h, h = Head(batch[r])
    PROVE  /\ h \in Entries
           /\ batch' \in [Runs -> Seq(Entries)]
           /\ Elements(batch[r]) = Elements(batch'[r]) \union {h}
           /\ Distinct(batch'[r]) /\ h \notin Elements(batch'[r])
           /\ \A q \in Runs : q # r => batch'[q] = batch[q]
           /\ \A e : InBatch(e)' => InBatch(e)
           /\ \A e : InBatch(e) => InBatch(e)' \/ e = h
           /\ InBatch(h) /\ ~InBatch(h)' /\ ~Buffered(h)
<1>1. batch \in [Runs -> Seq(Entries)] /\ batch[r] \in Seq(Entries) /\ Distinct(batch[r])
  BY DEF IInv, TypeOK, Placed, QueuedOnce
<1>2. batch' = [batch EXCEPT ![r] = Tail(batch[r])]
  BY DEF Advance
<1>3. /\ h \in Entries /\ Tail(batch[r]) \in Seq(Entries)
      /\ Elements(batch[r]) = Elements(Tail(batch[r])) \union {h}
  BY <1>1, TailElements
<1>4. Distinct(Tail(batch[r])) /\ h \notin Elements(Tail(batch[r]))
  BY <1>1, DistinctSequences
<1>5. batch'[r] = Tail(batch[r]) /\ \A q \in Runs : q # r => batch'[q] = batch[q]
  BY <1>1, <1>2
<1>6. /\ \A e : InBatch(e)' => InBatch(e)
      /\ \A e : InBatch(e) => InBatch(e)' \/ e = h
  BY <1>3, <1>5 DEF InBatch
<1>7. InBatch(h) /\ ~Buffered(h)
  BY <1>3 DEF InBatch, IInv, Placed, QueuedOnce
<1>8. ~InBatch(h)'
  <2> SUFFICES ASSUME NEW q \in Runs, h \in Elements(batch'[q]) PROVE FALSE
    BY DEF InBatch
  <2>1. q # r /\ batch'[q] = batch[q]
    BY <1>4, <1>5
  <2>2. h \in Elements(batch[q]) /\ h \in Elements(batch[r])
    BY <1>3, <2>1
  <2> QED BY <1>3, <2>1, <2>2 DEF IInv, Placed, QueuedOnce
<1> QED BY <1>1, <1>2, <1>3, <1>4, <1>5, <1>6, <1>7, <1>8

\* The head goes to the table, or back to the buffer, or to both.
LEMMA InsertPlaces ==
    ASSUME IInv, NEW r \in Runs, batch[r] # <<>>, Advance(r),
           UNCHANGED <<backend, enqueued, undone>>,
           \/ UNCHANGED buffer /\ persisted' = [persisted EXCEPT ![Head(batch[r])] = @ + 1]
           \/ Requeue(r) /\ UNCHANGED persisted
           \/ /\ Requeue(r) /\ persisted' = [persisted EXCEPT ![Head(batch[r])] = @ + 1]
              /\ backend = "postgres"
    PROVE  /\ Placed'
           /\ buffer' \in Seq(Entries) /\ batch' \in [Runs -> Seq(Entries)]
           /\ persisted' \in [Entries -> Nat]
<1> PICK h : h = Head(batch[r])
  OBVIOUS
<1>1. /\ h \in Entries
      /\ batch' \in [Runs -> Seq(Entries)]
      /\ Elements(batch[r]) = Elements(batch'[r]) \union {h}
      /\ Distinct(batch'[r]) /\ h \notin Elements(batch'[r])
      /\ \A q \in Runs : q # r => batch'[q] = batch[q]
      /\ \A e : InBatch(e)' => InBatch(e)
      /\ \A e : InBatch(e) => InBatch(e)' \/ e = h
      /\ InBatch(h) /\ ~InBatch(h)' /\ ~Buffered(h)
  BY AdvanceMoves
<1>2. buffer \in Seq(Entries) /\ persisted \in [Entries -> Nat] /\ Distinct(buffer)
  BY DEF IInv, TypeOK, Placed, QueuedOnce
<1>3. Requeue(r) => /\ buffer' \in Seq(Entries) /\ Distinct(buffer')
                    /\ \A e : Buffered(e)' <=> Buffered(e) \/ e = h
  <2>1. h \notin Elements(buffer)
    BY <1>1 DEF Buffered
  <2>2. /\ <<h>> \o buffer \in Seq(Entries)
        /\ Elements(<<h>> \o buffer) = Elements(buffer) \union {h}
    BY <1>1, <1>2, HeadElements
  <2>3. Distinct(<<h>> \o buffer)
    BY <1>1, <1>2, <2>1, DistinctSequences
  <2> QED BY <2>2, <2>3 DEF Requeue, Buffered
<1>4. UNCHANGED buffer => /\ buffer' \in Seq(Entries) /\ Distinct(buffer')
                          /\ \A e : Buffered(e)' <=> Buffered(e)
  BY <1>2 DEF Buffered
<1>5. /\ persisted' \in [Entries -> Nat]
      /\ \A e \in Entries : e # h => persisted'[e] = persisted[e]
      /\ persisted' = persisted \/ persisted'[h] = persisted[h] + 1
  <2>1. CASE UNCHANGED persisted
    BY <1>2, <2>1
  <2>2. CASE persisted' = [persisted EXCEPT ![h] = @ + 1]
    BY <1>1, <1>2, <2>2
  <2> QED BY <2>1, <2>2
<1>6. /\ buffer' \in Seq(Entries) /\ Distinct(buffer')
      /\ \A e : Buffered(e) => Buffered(e)'
      /\ \A e : Buffered(e)' => Buffered(e) \/ e = h
  BY <1>3, <1>4
<1>7. /\ Buffered(h)' \/ persisted'[h] = persisted[h] + 1
      /\ backend # "postgres" => UNCHANGED buffer \/ UNCHANGED persisted
  <2>1. CASE Requeue(r)
    BY <1>3, <2>1
  <2>2. CASE ~Requeue(r)
    BY <1>1, <1>2, <2>2
  <2> QED BY <2>1, <2>2
<1>8. Accounted'
  <2>1. ASSUME NEW e \in enqueued PROVE Buffered(e)' \/ InBatch(e)' \/ persisted'[e] > 0 \/ e \in undone'
    <3>1. e \in Entries /\ persisted[e] \in Nat
      BY <1>2 DEF IInv, TypeOK
    <3>2. CASE e = h
      BY <1>7, <3>1, <3>2
    <3>3. CASE e # h
      BY <1>1, <1>5, <1>6, <3>1, <3>3 DEF IInv, Placed, Accounted
    <3> QED BY <3>2, <3>3
  <2> QED BY <2>1 DEF Accounted
<1>9. QueuedOnce'
  <2>1. \A q \in Runs : Distinct(batch'[q])
    BY <1>1 DEF IInv, Placed, QueuedOnce
  <2>2. \A e \in Entries : Buffered(e) => ~InBatch(e)
    BY DEF IInv, Placed, QueuedOnce
  <2>3. \A e \in Entries : Buffered(e)' => ~InBatch(e)'
    BY <1>1, <1>6, <2>2
  <2>4. \A e \in Entries, p, q \in Runs :
            e \in Elements(batch'[p]) /\ e \in Elements(batch'[q]) => p = q
    BY <1>1 DEF IInv, Placed, QueuedOnce
  <2>5. \A e \in Entries : Buffered(e)' \/ InBatch(e)' \/ persisted'[e] > 0 => e \in enqueued'
    BY <1>1, <1>5, <1>6 DEF IInv, Placed, QueuedOnce
  <2> QED BY <1>6, <2>1, <2>3, <2>4, <2>5 DEF QueuedOnce
<1>10. ExactlyOnce'
  <2> SUFFICES ASSUME backend # "postgres", NEW e \in Entries, persisted'[e] > 0
               PROVE  persisted'[e] = 1 /\ ~Buffered(e)' /\ ~InBatch(e)'
    BY DEF ExactlyOnce
  <2>1. CASE e = h
    <3>1. persisted[h] = 0
      BY <1>1, <1>2 DEF IInv, Placed, ExactlyOnce
    <3>2. UNCHANGED buffer /\ persisted'[h] = 1
      BY <1>5, <1>7, <2>1, <3>1
    <3> QED BY <1>1, <1>4, <2>1, <3>2
  <2>2. CASE e # h
    <3>1. persisted[e] = 1 /\ ~Buffered(e) /\ ~InBatch(e)
      BY <1>5, <2>2 DEF IInv, Placed, ExactlyOnce
    <3> QED BY <1>1, <1>5, <1>6, <2>2, <3>1
  <2> QED BY <2>1, <2>2
<1> QED BY <1>1, <1>5, <1>6, <1>8, <1>9, <1>10 DEF Placed

\* Nothing moves.
LEMMA StillPlaced ==
    ASSUME IInv, UNCHANGED <<backend, enqueued, buffer, batch, persisted, undone>> PROVE Placed'
  BY DEF IInv, Placed, Accounted, QueuedOnce, ExactlyOnce, Buffered, InBatch

\* Rows go with the transaction they joined, and are remembered.
LEMMA UndoPlaces ==
    ASSUME IInv, Undo, UNCHANGED <<backend, enqueued, buffer, batch>>
    PROVE  /\ Placed' /\ persisted' \in [Entries -> Nat]
           /\ tx' = "none" /\ joined' = {} /\ undone' = undone \union joined
           /\ undone' \in SUBSET Entries
<1>1. /\ persisted' = [e \in Entries |-> IF e \in joined THEN 0 ELSE persisted[e]]
      /\ tx' = "none" /\ joined' = {} /\ undone' = undone \union joined
  BY DEF Undo
<1>2. /\ persisted \in [Entries -> Nat] /\ enqueued \in SUBSET Entries
      /\ undone \in SUBSET Entries /\ joined \in SUBSET Entries
  BY DEF IInv, TypeOK
<1>3. persisted' \in [Entries -> Nat]
  BY <1>1, <1>2
<1>4. /\ \A e \in Entries : e \notin joined => persisted'[e] = persisted[e]
      /\ \A e \in Entries : persisted'[e] > 0 => persisted'[e] = persisted[e]
  BY <1>1
<1>5. \A e : (Buffered(e)' <=> Buffered(e)) /\ (InBatch(e)' <=> InBatch(e))
  BY DEF Buffered, InBatch
<1>6. Accounted'
  BY <1>1, <1>2, <1>4, <1>5 DEF IInv, Placed, Accounted
<1>7. QueuedOnce'
  BY <1>4, <1>5 DEF IInv, Placed, QueuedOnce
<1>8. ExactlyOnce'
  BY <1>4, <1>5 DEF IInv, Placed, ExactlyOnce
<1> QED BY <1>1, <1>2, <1>3, <1>6, <1>7, <1>8 DEF Placed

-----------------------------------------------------------------------------
(* The steps.                                                               *)

LEMMA RunsApart == (\A f \in Flushes : f \in Runs /\ f # Free /\ f \notin Shutdowns)
                   /\ (\A s \in Shutdowns : s \in Runs /\ s # Free)
                   /\ (\A r \in Runs : r # Free)
  BY AuditAssumption DEF Runs

\* A flush that starts while no chain runs.
LEMMA TakeChains ==
    ASSUME IInv, NEW r \in Runs, NEW entries, TakeBatch(r, entries), proc = "up", turn = Free,
           \/ r \in Flushes /\ UNCHANGED phase
           \/ r \in Shutdowns /\ phase[r] = "otel" /\ phase' = [phase EXCEPT ![r] = "flush"],
           UNCHANGED <<backend, stale, proc, faults>>
    PROVE  FlushPhase' /\ OneChain'
<1>1. /\ buffer' = <<>>
      /\ batch' = [batch EXCEPT ![r] = entries] /\ batch \in [Runs -> Seq(Entries)]
      /\ backend # "postgres" => turn' = r
  BY DEF TakeBatch, AfterStatement, IInv, TypeOK
<1>2. \A q \in Runs : q # r => batch'[q] = batch[q]
  BY <1>1
<1>3. \A s \in Shutdowns : IF s = r THEN phase'[s] = "flush" ELSE phase'[s] = phase[s]
  BY RunsApart DEF IInv, TypeOK
<1>4. FlushPhase'
  BY <1>2, <1>3, RunsApart DEF IInv, FlushPhase
<1>5. OneChain'
  <2> SUFFICES ASSUME backend # "postgres" PROVE OneChain'
    BY DEF OneChain
  <2>1. stale = {} /\ \A q \in Runs : batch[q] = <<>>
    BY RunsApart DEF IInv, OneChain
  <2>2. \A s \in Shutdowns : phase[s] \notin {"flush", "close"}
    BY RunsApart DEF IInv, OneChain
  <2> QED BY <1>1, <1>2, <1>3, <2>1, <2>2 DEF OneChain
<1> QED BY <1>4, <1>5

LEMMA EnqueueKeeps ==
    ASSUME IInv, NEW e \in Entries, Enqueue(e) \/ PromoteEnqueues(e) PROVE IInv'
<1> DEFINE pushed == Append(buffer, e)
<1>1. /\ proc = "up" /\ turn = Free /\ e \notin enqueued /\ enqueued' = enqueued \union {e}
      /\ UNCHANGED <<backend, persisted, timerOn, phase, stale, drain, joined, undone, proc, faults>>
      /\ \/ tx' = tx /\ tx \in {"none", "create"}
         \/ tx' = "promote" /\ backend # "postgres"
  <2>1. CASE Enqueue(e)
    BY <2>1 DEF Enqueue, Idle, txVars
  <2>2. CASE PromoteEnqueues(e)
    BY <2>2 DEF PromoteEnqueues, Idle
  <2> QED BY <2>1, <2>2
<1>2. /\ pushed \in Seq(Entries) /\ pushed # <<>> /\ Distinct(pushed)
      /\ Elements(pushed) = Elements(buffer) \union {e}
  <2>1. buffer \in Seq(Entries) /\ Distinct(buffer) /\ e \notin Elements(buffer)
    BY <1>1 DEF IInv, TypeOK, Placed, QueuedOnce, Buffered
  <2>2. Distinct(pushed)
    BY <2>1, DistinctSequences
  <2>3. /\ pushed \in Seq(Entries) /\ pushed # <<>>
        /\ Elements(pushed) = Elements(buffer) \union {e}
    BY <2>1, AppendElements
  <2> QED BY <2>2, <2>3
<1>3. CASE buffer' = pushed /\ UNCHANGED <<batch, turn, dbOpen, tx>>
  <2>1. /\ \A x : Buffered(x)' <=> Buffered(x) \/ x = e
        /\ \A x : InBatch(x)' <=> InBatch(x)
    BY <1>2, <1>3 DEF Buffered, InBatch
  <2>2. ~Buffered(e) /\ ~InBatch(e) /\ ~(persisted[e] > 0)
    BY <1>1 DEF IInv, Placed, QueuedOnce
  <2>3. Placed'
    BY <1>1, <1>2, <1>3, <2>1, <2>2 DEF IInv, Placed, Accounted, QueuedOnce, ExactlyOnce
  <2>4. TypeOK'
    BY <1>1, <1>2, <1>3 DEF IInv, TypeOK
  <2>5. FlushPhase' /\ OneChain' /\ OneConnection'
    BY <1>1, <1>3, RunsApart DEF IInv, FlushPhase, OneChain, OneConnection, Explained
  <2> QED BY <2>3, <2>4, <2>5 DEF IInv
<1>4. ASSUME NEW f \in Flushes, batch[f] = <<>>, TakeBatch(f, pushed) PROVE IInv'
  <2> turn' \in {Free, f}
    BY <1>4 DEF TakeBatch, AfterStatement
  <2>1. Placed' /\ buffer' \in Seq(Entries) /\ batch' \in [Runs -> Seq(Entries)]
    BY <1>1, <1>2, <1>4, TakePlaces, RunsApart
  <2>2. TypeOK'
    BY <1>1, <1>4, <2>1, RunsApart DEF IInv, TypeOK, TakeBatch, AfterStatement
  <2>3. FlushPhase' /\ OneChain'
    BY <1>1, <1>4, TakeChains, RunsApart
  <2>4. OneConnection'
    BY <1>1, RunsApart DEF IInv, OneConnection, Explained
  <2> QED BY <2>1, <2>2, <2>3, <2>4 DEF IInv
<1> QED BY <1>3, <1>4 DEF Enqueue, PromoteEnqueues, txVars

LEMMA TimerFlushKeeps == ASSUME IInv, NEW f \in Flushes, TimerFlush(f) PROVE IInv'
<1>1. /\ proc = "up" /\ turn = Free /\ batch[f] = <<>> /\ TakeBatch(f, buffer)
      /\ tx \in {"none", "create"}
      /\ UNCHANGED <<backend, enqueued, persisted, timerOn, phase, stale, drain, tx, joined,
                     undone, proc, faults>>
  BY DEF TimerFlush, Idle, txVars
<1>2. buffer \in Seq(Entries) /\ Distinct(buffer)
  BY DEF IInv, TypeOK, Placed, QueuedOnce
<1>3. Placed' /\ buffer' \in Seq(Entries) /\ batch' \in [Runs -> Seq(Entries)]
  <2>1. enqueued' = enqueued \union {} /\ Elements(buffer) = Elements(buffer) \union {}
    BY <1>1
  <2> QED BY <1>1, <1>2, <2>1, TakePlaces, RunsApart
<1>4. TypeOK'
  BY <1>1, <1>3, RunsApart DEF IInv, TypeOK, TakeBatch, AfterStatement
<1>5. FlushPhase' /\ OneChain'
  BY <1>1, TakeChains, RunsApart
<1>6. OneConnection'
  BY <1>1 DEF IInv, OneConnection, Explained
<1> QED BY <1>3, <1>4, <1>5, <1>6 DEF IInv

\* Inserts: whoever has a batch has the turn on SQLite, and a failure there counts.
LEMMA FlushStepKeeps == ASSUME IInv, NEW r \in Runs, FlushStep(r) PROVE IInv'
<1>1. /\ proc = "up" /\ turn \in {Free, r} /\ batch[r] # <<>> /\ Advance(r)
      /\ UNCHANGED <<backend, enqueued, timerOn, phase, dbOpen, undone, proc>>
      /\ tx' = tx \/ (tx = "promote" /\ tx' = "commit")
      /\ joined' = joined \/ (tx # "none" /\ joined' = joined \union {Head(batch[r])})
      /\ faults' = faults \/ (faults < MaxFaults /\ faults' = faults + 1)
  <2>1. CASE Insert(r)
    BY <2>1 DEF Insert, MayRun, PastFirstInsert
  <2>2. CASE InsertFails(r)
    BY <2>2 DEF InsertFails, MayRun, PastFirstInsert
  <2>3. CASE InsertUnconfirmed(r)
    BY <2>3 DEF InsertUnconfirmed, MayRun, txVars
  <2> QED BY <2>1, <2>2, <2>3 DEF FlushStep
<1>2. \/ UNCHANGED buffer /\ persisted' = [persisted EXCEPT ![Head(batch[r])] = @ + 1]
      \/ Requeue(r) /\ UNCHANGED persisted
      \/ /\ Requeue(r) /\ persisted' = [persisted EXCEPT ![Head(batch[r])] = @ + 1]
         /\ backend = "postgres"
  BY DEF FlushStep, Insert, InsertFails, InsertUnconfirmed
<1>3. /\ Placed'
      /\ buffer' \in Seq(Entries) /\ batch' \in [Runs -> Seq(Entries)]
      /\ persisted' \in [Entries -> Nat]
  BY <1>1, <1>2, InsertPlaces
<1>4. TypeOK'
  <2>1. turn' \in Runs \union {Free} /\ stale' \in SUBSET Runs /\ drain' \in [Shutdowns -> SUBSET Runs]
    BY <1>1 DEF Advance, AfterStatement, IInv, TypeOK
  <2>2. faults' \in 0..MaxFaults
    BY <1>1, AuditAssumption DEF IInv, TypeOK
  <2>3. tx' \in {"none", "create", "promote", "commit"} /\ joined' \in SUBSET Entries
    <3>1. Head(batch[r]) \in Entries
      BY <1>1, TailElements DEF IInv, TypeOK
    <3> QED BY <1>1, <3>1 DEF IInv, TypeOK
  <2> QED BY <1>1, <1>3, <2>1, <2>2, <2>3 DEF IInv, TypeOK
<1>5. OneChain'
  <2> SUFFICES ASSUME backend # "postgres" PROVE OneChain'
    BY <1>1 DEF OneChain
  <2>1. turn = r /\ stale = {} /\ \A q \in Runs : q # r => batch[q] = <<>>
    BY <1>1 DEF IInv, OneChain
  <2>2. UNCHANGED buffer \/ faults' # 0
    <3>1. Accepted(r)
      BY <2>1 DEF Accepted
    <3>2. faults + 1 # 0
      BY DEF IInv, TypeOK
    <3> QED BY <3>1, <3>2 DEF FlushStep, Insert, InsertFails, InsertUnconfirmed
  <2>3. /\ stale' = {}
        /\ batch' = [batch EXCEPT ![r] = Tail(batch[r])]
        /\ turn' = IF Tail(batch[r]) # <<>> \/ r \notin Flushes THEN r ELSE Free
    <3>1. AfterStatement(r) = r
      BY DEF AfterStatement
    <3> QED BY <1>1, <2>1, <3>1 DEF Advance
  <2>4. /\ \A q \in Runs : batch'[q] # <<>> => turn' = q
        /\ \A s \in Shutdowns : turn' = s <=> turn = s
    BY <2>1, <2>3, RunsApart DEF IInv, TypeOK
  <2>5. (\E s \in Shutdowns : turn' = s) /\ faults' = 0 => buffer' = <<>>
    <3>1. faults' = 0 => faults = 0
      BY <1>1 DEF IInv, TypeOK
    <3> QED BY <1>1, <2>2, <2>4, <3>1 DEF IInv, OneChain
  <2> QED BY <1>1, <2>3, <2>4, <2>5 DEF IInv, OneChain
<1>6. FlushPhase'
  BY <1>1, RunsApart DEF IInv, TypeOK, FlushPhase, Advance
<1>7. OneConnection'
  <2>1. tx \in {"promote", "commit"} => turn' \notin Shutdowns
    <3>1. tx \in {"promote", "commit"} => turn = r /\ r \notin Shutdowns
      BY <1>1 DEF IInv, OneConnection, OneChain
    <3>2. turn' \in {Free, r}
      BY <1>1 DEF Advance, AfterStatement
    <3> QED BY <3>1, <3>2, RunsApart
  <2>2. Explained'
    BY <1>1 DEF IInv, TypeOK, OneConnection, Explained
  <2> QED BY <1>1, <2>1, <2>2 DEF IInv, OneConnection
<1> QED BY <1>3, <1>4, <1>5, <1>6, <1>7 DEF IInv

LEMMA SignalKeeps == ASSUME IInv, NEW s \in Shutdowns, Signal(s) PROVE IInv'
<1>1. Placed'
  BY StillPlaced DEF Signal, txVars
<1>2. TypeOK'
  BY DEF Signal, txVars, IInv, TypeOK, Phase
<1>3. FlushPhase' /\ OneChain' /\ OneConnection'
  BY RunsApart DEF Signal, Idle, txVars, IInv, TypeOK, FlushPhase, OneChain, OneConnection, Explained
<1> QED BY <1>1, <1>2, <1>3 DEF IInv

LEMMA ShutdownFlushKeeps == ASSUME IInv, NEW s \in Shutdowns, ShutdownFlush(s) PROVE IInv'
<1>1. /\ proc = "up" /\ turn = Free /\ phase[s] = "otel"
      /\ phase' = [phase EXCEPT ![s] = "flush"]
      /\ tx \in {"none", "create"}
      /\ UNCHANGED <<backend, enqueued, persisted, timerOn, stale, drain, tx, joined, undone,
                     proc, faults>>
  BY DEF ShutdownFlush, Idle, txVars
<1>0. OneConnection'
  BY <1>1 DEF IInv, OneConnection, Explained
<1>2. CASE buffer = <<>> /\ turn' = s /\ UNCHANGED <<buffer, batch, dbOpen>>
  <2>1. Placed'
    BY <1>1, <1>2, StillPlaced
  <2>2. TypeOK'
    BY <1>1, <1>2, RunsApart DEF IInv, TypeOK, Phase
  <2>3. \A t \in Shutdowns : phase'[t] = IF t = s THEN "flush" ELSE phase[t]
    BY <1>1 DEF IInv, TypeOK
  <2>4. FlushPhase'
    BY <1>2, <2>3 DEF IInv, FlushPhase
  <2>5. OneChain'
    BY <1>1, <1>2, <2>3, RunsApart DEF IInv, OneChain
  <2> QED BY <1>0, <2>1, <2>2, <2>4, <2>5 DEF IInv
<1>3. CASE TakeBatch(s, buffer)
  <2>1. batch[s] = <<>> /\ buffer \in Seq(Entries) /\ Distinct(buffer)
    BY <1>1 DEF IInv, TypeOK, Placed, QueuedOnce, FlushPhase
  <2>2. enqueued' = enqueued \union {} /\ Elements(buffer) = Elements(buffer) \union {}
    BY <1>1
  <2>3. Placed' /\ buffer' \in Seq(Entries) /\ batch' \in [Runs -> Seq(Entries)]
    BY <1>1, <1>3, <2>1, <2>2, TakePlaces, RunsApart
  <2>4. TypeOK'
    BY <1>1, <1>3, <2>3, RunsApart DEF IInv, TypeOK, Phase, TakeBatch, AfterStatement
  <2>5. FlushPhase' /\ OneChain'
    BY <1>1, <1>3, TakeChains, RunsApart
  <2> QED BY <1>0, <2>3, <2>4, <2>5 DEF IInv
<1> QED BY <1>2, <1>3 DEF ShutdownFlush, txVars

\* On SQLite closeDb() and the exit find a creation's transaction or none.
LEMMA ShutdownMeetsNone ==
    ASSUME IInv, NEW s \in Shutdowns, MayRun(s), phase[s] \in {"flush", "close"}
    PROVE  /\ tx \notin {"promote", "commit"}
           /\ backend # "shared" => joined = {}
  BY RunsApart DEF MayRun, IInv, TypeOK, OneChain, OneConnection

LEMMA CloseDbKeeps == ASSUME IInv, NEW s \in Shutdowns, CloseDb(s) PROVE IInv'
<1>1. /\ proc = "up" /\ turn \in {Free, s} /\ phase[s] = "flush" /\ batch[s] = <<>>
      /\ phase' = [phase EXCEPT ![s] = "close"] /\ timerOn' = FALSE /\ dbOpen' = FALSE
      /\ UNCHANGED <<backend, enqueued, buffer, batch, proc, faults>>
      /\ Undo \/ UNCHANGED <<persisted, tx, joined, undone>>
  BY DEF CloseDb, MayRun, txVars
<1>2. /\ stale' = stale \/ stale' = stale \union {r \in Runs : batch[r] # <<>>}
      /\ stale' \in SUBSET Runs /\ drain' \in [Shutdowns -> SUBSET Runs]
      /\ turn' \in {s, AfterStatement(s)}
  BY DEF CloseDb, IInv, TypeOK
<1>3. /\ Placed' /\ persisted' \in [Entries -> Nat]
      /\ \/ UNCHANGED <<tx, joined, undone>>
         \/ /\ tx' = "none" /\ joined' = {} /\ undone' = undone \union joined
            /\ undone' \in SUBSET Entries
  BY <1>1, StillPlaced, UndoPlaces DEF IInv, TypeOK
<1>4. TypeOK'
  BY <1>1, <1>2, <1>3, RunsApart DEF IInv, TypeOK, Phase, AfterStatement
<1>5. FlushPhase'
  BY <1>1 DEF IInv, TypeOK, FlushPhase
<1>6. OneChain'
  <2> SUFFICES ASSUME backend # "postgres" PROVE OneChain'
    BY <1>1 DEF OneChain
  <2>1. turn = s /\ turn' = s /\ \A r \in Runs : batch[r] = <<>>
    BY <1>1, <1>2 DEF IInv, OneChain, AfterStatement
  <2> QED BY <1>1, <1>2, <2>1 DEF IInv, TypeOK, OneChain
<1>7. OneConnection'
  <2>1. tx \notin {"promote", "commit"} /\ (backend # "shared" => joined = {})
    BY <1>1, ShutdownMeetsNone DEF MayRun
  <2>2. Explained'
    BY <1>1, <1>3, <2>1 DEF IInv, OneConnection, Explained
  <2> QED BY <1>1, <1>3, <2>1, <2>2 DEF IInv, OneConnection
<1> QED BY <1>3, <1>4, <1>5, <1>6, <1>7 DEF IInv

LEMMA ExitKeeps == ASSUME IInv, NEW s \in Shutdowns, Exit(s) PROVE IInv'
<1>1. /\ Placed' /\ persisted' \in [Entries -> Nat]
      /\ tx' = "none" /\ joined' = {} /\ undone' = undone \union joined
      /\ undone' \in SUBSET Entries
  BY UndoPlaces DEF Exit
<1>2. TypeOK'
  BY <1>1 DEF Exit, IInv, TypeOK
<1>3. FlushPhase'
  BY DEF Exit, IInv, FlushPhase
<1>4. OneChain'
  BY RunsApart DEF Exit, MayRun, IInv, TypeOK, FlushPhase, OneChain
<1>5. OneConnection'
  <2>1. backend # "shared" => joined = {}
    BY ShutdownMeetsNone DEF Exit
  <2>2. Explained'
    BY <1>1, <2>1 DEF Exit, MayRun, IInv, OneConnection, Explained
  <2> QED BY <1>1, <2>2 DEF OneConnection
<1> QED BY <1>1, <1>2, <1>3, <1>4, <1>5 DEF IInv

LEMMA KillKeeps == ASSUME IInv, Kill PROVE IInv'
<1>1. /\ Placed' /\ persisted' \in [Entries -> Nat]
      /\ tx' = "none" /\ joined' = {} /\ undone' = undone \union joined
      /\ undone' \in SUBSET Entries
  BY UndoPlaces DEF Kill
<1>2. TypeOK' /\ FlushPhase' /\ OneChain'
  BY <1>1 DEF Kill, IInv, TypeOK, FlushPhase, OneChain
<1>3. OneConnection'
  <2>1. backend \in {"sqlite", "shared", "postgres"}
    BY AuditAssumption DEF IInv, TypeOK
  <2> QED BY <1>1, <2>1 DEF Kill, IInv, OneConnection, Explained
<1> QED BY <1>1, <1>2, <1>3 DEF IInv

\* The transactions of the other handlers begin and end.
LEMMA TransactionsKeep ==
    ASSUME IInv, CreateBegins \/ CreateRollsBack \/ PromotionEnds PROVE IInv'
<1>1. CASE CreateBegins
  <2>1. Placed'
    BY <1>1, StillPlaced DEF CreateBegins
  <2>2. TypeOK' /\ FlushPhase' /\ OneChain' /\ OneConnection'
    BY <1>1 DEF CreateBegins, Idle, IInv, TypeOK, FlushPhase, OneChain, OneConnection, Explained
  <2> QED BY <2>1, <2>2 DEF IInv
<1>2. CASE PromotionCommits
  <2>1. Placed'
    BY <1>2, StillPlaced DEF PromotionCommits
  <2>2. TypeOK' /\ FlushPhase' /\ OneChain' /\ OneConnection'
    BY <1>2 DEF PromotionCommits, IInv, TypeOK, FlushPhase, OneChain, OneConnection, Explained
  <2> QED BY <2>1, <2>2 DEF IInv
<1>3. CASE CreateRollsBack \/ PromotionRollsBack
  <2>1. /\ Undo /\ proc = "up"
        /\ UNCHANGED <<backend, enqueued, buffer, batch, turn, timerOn, phase, dbOpen, stale,
                       drain, proc>>
        /\ \/ tx = "create" /\ faults' = faults
           \/ tx = "commit" /\ faults < MaxFaults /\ faults' = faults + 1
    BY <1>3 DEF CreateRollsBack, PromotionRollsBack, Idle
  <2>2. /\ Placed' /\ persisted' \in [Entries -> Nat]
        /\ tx' = "none" /\ joined' = {} /\ undone' = undone \union joined
        /\ undone' \in SUBSET Entries
    BY <2>1, UndoPlaces
  <2>3. faults' \in 0..MaxFaults /\ (faults' = 0 => faults = 0 /\ tx = "create")
    BY <2>1, AuditAssumption DEF IInv, TypeOK
  <2>4. TypeOK' /\ FlushPhase'
    BY <2>1, <2>2, <2>3 DEF IInv, TypeOK, FlushPhase
  <2>5. OneChain'
    BY <2>1, <2>3 DEF IInv, OneChain
  <2>6. OneConnection'
    <3>1. backend \in {"sqlite", "shared"} /\ faults' \in Nat
      BY <2>1, <2>3, AuditAssumption DEF IInv, TypeOK, OneConnection
    <3>2. Explained'
      BY <2>1, <2>3, <3>1 DEF IInv, OneConnection, Explained
    <3> QED BY <2>2, <3>2 DEF OneConnection
  <2> QED BY <2>2, <2>4, <2>5, <2>6 DEF IInv
<1> QED BY <1>1, <1>2, <1>3 DEF PromotionEnds

LEMMA StutterKeeps == ASSUME IInv, UNCHANGED vars PROVE IInv'
<1>1. Placed'
  BY StillPlaced DEF vars
<1>2. TypeOK' /\ FlushPhase' /\ OneChain' /\ OneConnection'
  BY DEF vars, IInv, TypeOK, FlushPhase, OneChain, OneConnection, Explained
<1> QED BY <1>1, <1>2 DEF IInv

-----------------------------------------------------------------------------
\* IInv is an invariant: one step per action.
THEOREM IInvIsInvariant == Spec => []IInv
<1>1. Init => IInv
  <2> SUFFICES ASSUME Init PROVE IInv
    OBVIOUS
  <2>1. TypeOK
    BY AuditAssumption DEF Init, TypeOK, Phase
  <2>2. Placed
    BY Empty DEF Init, Placed, Accounted, QueuedOnce, ExactlyOnce, Buffered, InBatch
  <2>3. FlushPhase /\ OneChain /\ OneConnection
    BY RunsApart DEF Init, FlushPhase, OneChain, OneConnection, Explained
  <2> QED BY <2>1, <2>2, <2>3 DEF IInv
<1>2. IInv /\ [Next]_vars => IInv'
  <2> SUFFICES ASSUME IInv, [Next]_vars PROVE IInv'
    OBVIOUS
  <2>0. CASE CreateBegins \/ CreateRollsBack \/ PromotionEnds
    BY <2>0, TransactionsKeep
  <2>1. CASE \E e \in Entries : Enqueue(e) \/ PromoteEnqueues(e)
    BY <2>1, EnqueueKeeps
  <2>2. CASE \E f \in Flushes : TimerFlush(f)
    BY <2>2, TimerFlushKeeps
  <2>3. CASE \E r \in Runs : FlushStep(r)
    BY <2>3, FlushStepKeeps
  <2>4. CASE \E s \in Shutdowns : Signal(s) \/ ShutdownStep(s)
    BY <2>4, SignalKeeps, ShutdownFlushKeeps, CloseDbKeeps, ExitKeeps DEF ShutdownStep
  <2>5. CASE Kill
    BY <2>5, KillKeeps
  <2>6. CASE Down \/ UNCHANGED vars
    BY <2>6, StutterKeeps DEF Down
  <2> QED BY <2>0, <2>1, <2>2, <2>3, <2>4, <2>5, <2>6 DEF Next
<1> QED BY <1>1, <1>2, PTL DEF Spec

\* No entry vanishes, however flushes overlap and inserts fail, unless its row goes with the
\* transaction of a creation or of a promotion that it joined on SQLite.
THEOREM EntriesStay == Spec => []NothingVanishes
<1>1. IInv => NothingVanishes
  BY DEF IInv, Placed, Accounted, OneConnection, NothingVanishes
<1> QED BY <1>1, IInvIsInvariant, PTL

\* On SQLite no entry is written twice.
THEOREM RowsAreWrittenOnce == Spec => []ExactlyOnce
<1>1. IInv => ExactlyOnce
  BY DEF IInv, Placed
<1> QED BY <1>1, IInvIsInvariant, PTL

\* On SQLite a graceful exit leaves no enqueued entry out of the table unless an insert or a
\* COMMIT failed; with a networked driver, unless it went with a creation's transaction.
THEOREM ShutdownDrains == Spec => []GracefulExitDrains
<1> SUFFICES ASSUME IInv PROVE GracefulExitDrains
  BY IInvIsInvariant, PTL
<1>1. ASSUME backend # "postgres", proc = "exited", faults = 0, NEW e \in enqueued
      PROVE  persisted[e] > 0 \/ e \in undone
  <2>1. ~Buffered(e) /\ ~InBatch(e)
    BY <1>1, Empty DEF IInv, OneChain, Buffered, InBatch
  <2> QED BY <2>1 DEF IInv, Placed, Accounted
<1>2. backend = "sqlite" /\ proc = "exited" /\ faults = 0 => undone = {}
  BY DEF IInv, OneConnection, Explained
<1> QED BY <1>1, <1>2 DEF GracefulExitDrains, Drained

-----------------------------------------------------------------------------
(***************************************************************************)
(* RateLimit, for any number of requests, routers, windows and any limit.  *)
(*                                                                         *)
(* A limit holds because the counter that a check reads says how many      *)
(* checks it has admitted in its window: the row on SQLite, until the next *)
(* window replaces it, and the counter of each window on Redis.  On a      *)
(* connection shared with createPrompt the row may count too few.  The two *)
(* counters are both in use only after Redis has come or gone.             *)
(***************************************************************************)

Windows == {w \in Time : w % 2 = 0}

\* The row counts the checks of its window, the latest one.
RowCounts ==
    OnSqlite /\ row # NoRow =>
        /\ row.start \in Windows /\ row.start <= now
        /\ row.count <= MaxRequests /\ row.count <= AdmittedIn(row.start)

RowCountsAll ==
    store = "sqlite" =>
        /\ ~writerTx
        /\ row = NoRow => \A t \in Time : admitted[t] = 0
        /\ row # NoRow => /\ AdmittedIn(row.start) = row.count
                          /\ \A t \in Time : t > row.start + 1 => admitted[t] = 0

DatabaseLimit == store = "sqlite" => \A w \in Windows : AdmittedIn(w) <= MaxRequests

\* Redis goes on counting when the limit is reached.
HitsCount ==
    \A w \in Windows :
        RedisAdmittedIn(w) = IF hits[w] <= MaxRequests THEN hits[w] ELSE MaxRequests

\* Until Redis comes or goes, one of the two counters is not in use.
Apart ==
    switches = 0 =>
        /\ redis = "up" => /\ \A t \in Time : admitted[t] = 0
                           /\ \A r \in Requests : pc[r] \notin {"update", "select", "insert"}
        /\ redis # "up" => /\ \A t \in Time : viaRedis[t] = 0
                           /\ \A r \in Requests : pc[r] # "incr"

\* The statements of a check are those of its database, a refused request is done, and one
\* that is not done has checks before it.
Stages ==
    \A r \in Requests :
        /\ pc[r] \in {"update", "select", "insert"} => store = "postgres"
        /\ reply[r] = "429" => pc[r] = "done"
        /\ pc[r] # "done" => passed[r] < Passes

Counts == RowCounts /\ RowCountsAll /\ DatabaseLimit /\ HitsCount /\ Apart /\ NoPrematureReject

LimiterInv == LimiterTypeOK /\ Stages /\ (failures = 0 => Counts)

-----------------------------------------------------------------------------
(* Windows.                                                                 *)

LEMMA InWindow ==
    ASSUME NEW t \in Time
    PROVE  WindowStart(t) \in Windows /\ (t = WindowStart(t) \/ t = WindowStart(t) + 1)
<1>1. t \in Nat /\ t <= MaxTime /\ MaxTime \in Nat
  BY RateAssumption DEF Time
<1>2. t % 2 \in {0, 1} /\ (t - (t % 2)) % 2 = 0 /\ t % 2 <= t
  BY <1>1
<1> QED BY <1>1, <1>2 DEF WindowStart, Windows, Time

LEMMA Disjoint ==
    ASSUME NEW v \in Windows, NEW w \in Windows
    PROVE  v < w => v + 2 <= w
<1>1. v \in Nat /\ w \in Nat /\ v % 2 = 0 /\ w % 2 = 0
  BY RateAssumption DEF Windows, Time
<1> QED BY <1>1

\* An admitted check counts in its window and in no other.
LEMMA CountsOne ==
    ASSUME NEW c \in [Time -> Nat], NEW d \in [Time -> Nat], NEW t \in Time, NEW w \in Windows,
           d[t] = c[t] + 1, \A u \in Time : u # t => d[u] = c[u]
    PROVE  /\ CountIn(c, w) \in Nat
           /\ CountIn(d, w) = IF w = WindowStart(t) THEN CountIn(c, w) + 1 ELSE CountIn(c, w)
<1>1. w \in Time /\ w \in Nat /\ Time \subseteq Nat
  BY RateAssumption DEF Windows, Time
<1>2. CountIn(c, w) \in Nat
  BY <1>1 DEF CountIn
<1>3. CASE w = WindowStart(t)
  <2>1. t = w \/ t = w + 1
    BY <1>3, InWindow
  <2> QED BY <1>1, <1>2, <1>3, <2>1 DEF CountIn
<1>4. CASE w # WindowStart(t)
  <2>1. t # w /\ t # w + 1
    <3>1. WindowStart(t) \in Windows /\ (t = WindowStart(t) \/ t = WindowStart(t) + 1)
      BY InWindow
    <3>2. WindowStart(t) \in Nat
      BY <3>1, RateAssumption DEF Windows, Time
    <3>3. w < WindowStart(t) \/ WindowStart(t) < w
      BY <1>1, <1>4, <3>2
    <3> QED BY <1>1, <3>1, <3>2, <3>3, Disjoint
  <2> QED BY <1>1, <1>2, <1>4, <2>1 DEF CountIn
<1> QED BY <1>2, <1>3, <1>4

LEMMA AdmitCounts ==
    ASSUME LimiterTypeOK, NEW r \in Requests, NEW t \in Time, Admit(r, t)
    PROVE  /\ admitted' \in [Time -> Nat] /\ viaRedis' = viaRedis
           /\ \A u \in Time : u # t => admitted'[u] = admitted[u]
           /\ \A w \in Windows :
                 /\ AdmittedIn(w) \in Nat
                 /\ AdmittedIn(w)' = IF w = WindowStart(t) THEN AdmittedIn(w) + 1 ELSE AdmittedIn(w)
<1>1. /\ admitted \in [Time -> Nat] /\ admitted' \in [Time -> Nat] /\ viaRedis' = viaRedis
      /\ admitted'[t] = admitted[t] + 1 /\ \A u \in Time : u # t => admitted'[u] = admitted[u]
  BY DEF LimiterTypeOK, Admit
<1>2. \A w : AdmittedIn(w) = CountIn(admitted, w) /\ AdmittedIn(w)' = CountIn(admitted', w)
  BY DEF AdmittedIn, CountIn
<1> QED BY <1>1, <1>2, CountsOne

LEMMA RedisAdmitCounts ==
    ASSUME LimiterTypeOK, NEW r \in Requests, NEW t \in Time, AdmitByRedis(r, t)
    PROVE  /\ viaRedis' \in [Time -> Nat] /\ admitted' = admitted
           /\ \A w \in Windows :
                 /\ RedisAdmittedIn(w) \in Nat
                 /\ RedisAdmittedIn(w)' = IF w = WindowStart(t) THEN RedisAdmittedIn(w) + 1
                                                                ELSE RedisAdmittedIn(w)
<1>1. /\ viaRedis \in [Time -> Nat] /\ viaRedis' \in [Time -> Nat] /\ admitted' = admitted
      /\ viaRedis'[t] = viaRedis[t] + 1 /\ \A u \in Time : u # t => viaRedis'[u] = viaRedis[u]
  BY DEF LimiterTypeOK, AdmitByRedis
<1>2. \A w : /\ RedisAdmittedIn(w) = CountIn(viaRedis, w)
             /\ RedisAdmittedIn(w)' = CountIn(viaRedis', w)
  BY DEF RedisAdmittedIn, CountIn
<1> QED BY <1>1, <1>2, CountsOne

\* What was admitted is never taken back.
Grows ==
    \A w \in Windows : /\ AdmittedIn(w) \in Nat /\ AdmittedIn(w)' \in Nat
                       /\ AdmittedIn(w)' >= AdmittedIn(w)
                       /\ RedisAdmittedIn(w) \in Nat /\ RedisAdmittedIn(w)' \in Nat
                       /\ RedisAdmittedIn(w)' >= RedisAdmittedIn(w)

LEMMA HistoriesGrow ==
    ASSUME LimiterTypeOK, NEW r \in Requests, NEW t \in Time,
           Admit(r, t) \/ AdmitByRedis(r, t) \/ UNCHANGED <<admitted, viaRedis>>
    PROVE  Grows
<1>1. \A w \in Windows : AdmittedIn(w) \in Nat /\ RedisAdmittedIn(w) \in Nat
  BY DEF LimiterTypeOK, AdmittedIn, RedisAdmittedIn, CountIn, Windows
<1>2. viaRedis' = viaRedis => \A w \in Windows : RedisAdmittedIn(w)' = RedisAdmittedIn(w)
  BY DEF RedisAdmittedIn
<1>3. admitted' = admitted => \A w \in Windows : AdmittedIn(w)' = AdmittedIn(w)
  BY DEF AdmittedIn
<1>4. CASE Admit(r, t)
  <2>1. \A w \in Windows : AdmittedIn(w)' \in {AdmittedIn(w), AdmittedIn(w) + 1}
    BY <1>4, AdmitCounts
  <2>2. \A w \in Windows : RedisAdmittedIn(w)' = RedisAdmittedIn(w)
    BY <1>2, <1>4, AdmitCounts
  <2> QED BY <1>1, <2>1, <2>2 DEF Grows
<1>5. CASE AdmitByRedis(r, t)
  <2>1. \A w \in Windows : RedisAdmittedIn(w)' \in {RedisAdmittedIn(w), RedisAdmittedIn(w) + 1}
    BY <1>5, RedisAdmitCounts
  <2>2. \A w \in Windows : AdmittedIn(w)' = AdmittedIn(w)
    BY <1>3, <1>5, RedisAdmitCounts
  <2> QED BY <1>1, <2>1, <2>2 DEF Grows
<1>6. CASE UNCHANGED <<admitted, viaRedis>>
  BY <1>1, <1>2, <1>3, <1>6 DEF Grows
<1> QED BY <1>4, <1>5, <1>6

-----------------------------------------------------------------------------
(* Types and stages.                                                        *)

\* What a step of request r does to its stage.
Moves(r) ==
    /\ pc' \in [Requests -> {"new", "update", "select", "insert", "incr", "next", "done"}]
    /\ passed' \in [Requests -> 0..Passes]
    /\ reply' \in [Requests -> {"none", "handled", "429", "500"}]
    /\ refusedBy' \in [Requests -> {"none", "redis", "database"}]
    /\ admitted' \in [Time -> Nat] /\ viaRedis' \in [Time -> Nat]
    /\ \A q \in Requests : q # r => /\ pc'[q] = pc[q] /\ reply'[q] = reply[q]
                                    /\ refusedBy'[q] = refusedBy[q]
    /\ Stages'

LEMMA AdmitMoves ==
    ASSUME LimiterTypeOK, Stages, NEW r \in Requests, NEW t \in Time,
           Admit(r, t) \/ AdmitByRedis(r, t), pc[r] # "done", reply[r] # "429", store' = store
    PROVE  Moves(r) /\ reply'[r] # "429" /\ pc'[r] \in {"next", "done"}
<1>1. passed[r] \in 0..Passes /\ passed[r] < Passes /\ Passes \in Nat
  BY RateAssumption DEF LimiterTypeOK, Stages
<1>2. Pass(r) /\ refusedBy' = refusedBy
  BY DEF Admit, AdmitByRedis, Pass
<1>3. passed' = [passed EXCEPT ![r] = @ + 1] /\ passed' \in [Requests -> 0..Passes]
  BY <1>1, <1>2 DEF Pass, LimiterTypeOK
<1>4. admitted' \in [Time -> Nat] /\ viaRedis' \in [Time -> Nat]
  BY AdmitCounts, RedisAdmitCounts DEF LimiterTypeOK
<1>5. CASE passed[r] + 1 = Passes
  <2>1. pc' = [pc EXCEPT ![r] = "done"] /\ reply' = [reply EXCEPT ![r] = "handled"]
    BY <1>2, <1>5 DEF Pass
  <2>2. Stages'
    BY <1>3, <2>1 DEF LimiterTypeOK, Stages
  <2> QED BY <1>2, <1>3, <1>4, <2>1, <2>2 DEF LimiterTypeOK, Moves
<1>6. CASE passed[r] + 1 # Passes
  <2>1. pc' = [pc EXCEPT ![r] = "next"] /\ reply' = reply
    BY <1>2, <1>6 DEF Pass
  <2>2. passed'[r] < Passes
    BY <1>1, <1>3, <1>6 DEF LimiterTypeOK
  <2>3. Stages'
    BY <1>3, <2>1, <2>2 DEF LimiterTypeOK, Stages
  <2> QED BY <1>2, <1>3, <1>4, <2>1, <2>3 DEF LimiterTypeOK, Moves
<1> QED BY <1>5, <1>6

LEMMA RefuseMoves ==
    ASSUME LimiterTypeOK, Stages, NEW r \in Requests, store' = store,
           \/ \E c \in {"redis", "database"} : Reject(r, c)
           \/ Refuse(r, "500") /\ UNCHANGED refusedBy
    PROVE  Moves(r) /\ UNCHANGED <<admitted, viaRedis>> /\ pc'[r] = "done"
<1>1. /\ pc' = [pc EXCEPT ![r] = "done"]
      /\ \E code \in {"429", "500"} : reply' = [reply EXCEPT ![r] = code]
      /\ UNCHANGED <<admitted, viaRedis, passed>>
  BY DEF Reject, Refuse
<1>2. \/ refusedBy' = refusedBy
      \/ \E c \in {"redis", "database"} : refusedBy' = [refusedBy EXCEPT ![r] = c]
  BY DEF Reject
<1>3. Stages'
  BY <1>1 DEF LimiterTypeOK, Stages
<1> QED BY <1>1, <1>2, <1>3 DEF LimiterTypeOK, Moves

\* The request goes on to another statement of its check.
LEMMA StepMoves ==
    ASSUME LimiterTypeOK, Stages, NEW r \in Requests, NEW stage \in {"update", "select", "insert", "incr"},
           pc' = [pc EXCEPT ![r] = stage], pc[r] # "done", stage # "incr" => store = "postgres",
           UNCHANGED <<store, passed, reply, refusedBy, admitted, viaRedis>>
    PROVE  Moves(r)
<1>1. Stages'
  BY DEF LimiterTypeOK, Stages
<1> QED BY <1>1 DEF LimiterTypeOK, Moves

LEMMA RowTypes ==
    ASSUME LimiterTypeOK
    PROVE  /\ row # NoRow => row \in RowSet /\ row.start \in Time /\ row.count \in Nat
           /\ \A t \in Time : [start |-> WindowStart(t), count |-> 1] \in RowSet
           /\ NoRow \notin RowSet
           /\ now \in Nat /\ MaxRequests \in Nat \ {0} /\ Time \subseteq Nat
<1>1. \A t \in Time : WindowStart(t) \in Time
  BY InWindow DEF Windows
<1>2. Time \subseteq Nat
  BY RateAssumption DEF Time
<1>3. NoRow \notin RowSet
  BY <1>2, RateAssumption DEF RowSet
<1> QED BY <1>1, <1>2, <1>3, RateAssumption DEF LimiterTypeOK, RowSet

\* The admissions of a window are never taken back, so an early refusal stays justified.
LEMMA StillJustified ==
    ASSUME LimiterTypeOK, NoPrematureReject, failures = 0, store' = store, NEW r \in Requests, Grows,
           Moves(r), \A q \in Requests : q # r => stamp'[q] = stamp[q],
           reply'[r] = "429" =>
               \E w \in Windows :
                   /\ w = WindowStart(stamp'[r])
                   /\ refusedBy'[r] = "redis" => RedisAdmittedIn(w) >= MaxRequests
                   /\ refusedBy'[r] = "database" /\ store # "postgres" => AdmittedIn(w) >= MaxRequests
    PROVE  NoPrematureReject'
<1> SUFFICES ASSUME NEW q \in Requests, reply'[q] = "429",
                    NEW w, w = WindowStart(stamp'[q])
             PROVE  /\ refusedBy'[q] = "redis" => RedisAdmittedIn(w)' >= MaxRequests
                    /\ refusedBy'[q] = "database" /\ store' # "postgres" =>
                          AdmittedIn(w)' >= MaxRequests
  BY DEF NoPrematureReject, RedisAdmittedIn, AdmittedIn, CountIn
<1>1. /\ w \in Windows
      /\ refusedBy'[q] = "redis" => RedisAdmittedIn(w) >= MaxRequests
      /\ refusedBy'[q] = "database" /\ store # "postgres" => AdmittedIn(w) >= MaxRequests
  <2>1. CASE q = r
    BY <2>1
  <2>2. CASE q # r
    <3>1. reply[q] = "429" /\ refusedBy'[q] = refusedBy[q] /\ w = WindowStart(stamp[q])
      BY <2>2 DEF Moves
    <3> QED BY <3>1, InWindow DEF LimiterTypeOK, NoPrematureReject
  <2> QED BY <2>1, <2>2
<1>2. /\ AdmittedIn(w) \in Nat /\ AdmittedIn(w)' \in Nat /\ AdmittedIn(w)' >= AdmittedIn(w)
      /\ RedisAdmittedIn(w) \in Nat /\ RedisAdmittedIn(w)' \in Nat
      /\ RedisAdmittedIn(w)' >= RedisAdmittedIn(w)
  BY <1>1 DEF Grows
<1> QED BY <1>1, <1>2, RateAssumption

\* A step of one request keeps to the counter in use.
LEMMA ApartKept ==
    ASSUME Apart, NEW r \in Requests, UNCHANGED <<redis, switches>>, Moves(r),
           switches = 0 /\ redis = "up" =>
               UNCHANGED admitted /\ pc'[r] \notin {"update", "select", "insert"},
           switches = 0 /\ redis # "up" => UNCHANGED viaRedis /\ pc'[r] # "incr"
    PROVE  Apart'
  BY DEF Apart, Moves

-----------------------------------------------------------------------------
(* The checks on SQLite.                                                    *)

\* What a check on SQLite starts from.
LEMMA SqliteCheck ==
    ASSUME LimiterInv, NEW r \in Requests, StartsOnSqlite(r),
           UNCHANGED <<deploymentVars, now, hits, writerTx>>
    PROVE  /\ OnSqlite /\ redis # "up" /\ now \in Time
           /\ pc[r] # "done" /\ reply[r] # "429"
           /\ stamp' \in [Requests -> Time] /\ stamp'[r] = now
           /\ \A q \in Requests : q # r => stamp'[q] = stamp[q]
           /\ UNCHANGED <<store, redis, switches, now, hits, writerTx>>
  BY DEF StartsOnSqlite, Waiting, deploymentVars, LimiterInv, LimiterTypeOK, Stages

\* What is admitted there leaves Redis alone.
LEMMA SqliteApart ==
    ASSUME LimiterInv, NEW r \in Requests, Admit(r, now), Moves(r), failures = 0, redis # "up",
           pc'[r] \in {"next", "done"}, UNCHANGED <<redis, switches, hits>>
    PROVE  Apart' /\ HitsCount'
<1>1. viaRedis' = viaRedis
  BY DEF Admit
<1>2. Apart'
  BY <1>1, ApartKept DEF LimiterInv, Counts
<1>3. HitsCount'
  BY <1>1 DEF LimiterInv, Counts, HitsCount, RedisAdmittedIn
<1> QED BY <1>2, <1>3

LEMMA SqliteJustified ==
    ASSUME LimiterInv, NEW r \in Requests, NEW t \in Time, Admit(r, t), Moves(r), failures = 0,
           store' = store, reply'[r] # "429", \A q \in Requests : q # r => stamp'[q] = stamp[q]
    PROVE  NoPrematureReject'
  BY HistoriesGrow, StillJustified DEF LimiterInv, Counts

\* The UPDATE finds room in the row of this window.
LEMMA IncrementKeeps ==
    ASSUME LimiterInv, NEW r \in Requests, CheckSqlite(r), CanIncrement(now), Increment, Admit(r, now)
    PROVE  LimiterInv'
<1>1. /\ OnSqlite /\ redis # "up" /\ now \in Time /\ ~writerTx
      /\ pc[r] # "done" /\ reply[r] # "429" /\ failures' = failures
      /\ stamp' \in [Requests -> Time] /\ \A q \in Requests : q # r => stamp'[q] = stamp[q]
      /\ UNCHANGED <<store, redis, switches, now, hits, writerTx>>
  BY SqliteCheck DEF CheckSqlite
<1>2. Moves(r) /\ reply'[r] # "429" /\ pc'[r] \in {"next", "done"}
  BY <1>1, AdmitMoves DEF LimiterInv
<1>4. /\ row \in RowSet /\ row # NoRow /\ row.count \in Nat /\ row.start \in Time
      /\ row.start = WindowStart(now) /\ row.count < MaxRequests
  BY RowTypes DEF LimiterInv, CanIncrement
<1>5. /\ row' \in RowSet /\ row' # NoRow
      /\ row'.start = row.start /\ row'.count = row.count + 1
  BY <1>4, RowTypes DEF LimiterInv, Increment, RowSet
<1>6. LimiterTypeOK'
  BY <1>1, <1>2, <1>5 DEF LimiterInv, LimiterTypeOK, Moves
<1>7. ASSUME failures' = 0 PROVE Counts'
  <2>1. Counts /\ failures = 0
    BY <1>1, <1>7 DEF LimiterInv
  <2>2. PICK w \in Windows : w = row.start /\ w = WindowStart(now) /\ (now = w \/ now = w + 1)
    BY <1>1, <1>4, InWindow
  <2>3. /\ AdmittedIn(w) \in Nat /\ AdmittedIn(w)' = AdmittedIn(w) + 1
        /\ \A v \in Windows : v # w => AdmittedIn(v)' = AdmittedIn(v)
    BY <1>1, <2>2, AdmitCounts DEF LimiterInv
  <2>4. RowCounts'
    <3>1. row.count <= AdmittedIn(w)
      BY <1>1, <1>4, <2>1, <2>2 DEF Counts, RowCounts
    <3>2. row'.start = w /\ w <= now' /\ row'.count <= MaxRequests /\ row'.count <= AdmittedIn(w)'
      BY <1>1, <1>4, <1>5, <2>1, <2>2, <2>3, <3>1, RowTypes DEF Counts, RowCounts, LimiterInv
    <3> QED BY <1>1, <3>2, <2>2 DEF RowCounts, AdmittedIn, CountIn
  <2>5. store = "sqlite" => AdmittedIn(w)' = row'.count
    BY <1>4, <1>5, <2>1, <2>2, <2>3 DEF Counts, RowCountsAll
  <2>6. RowCountsAll'
    <3> SUFFICES ASSUME store = "sqlite" PROVE RowCountsAll'
      BY <1>1 DEF RowCountsAll
    <3>1. \A t \in Time : t > w + 1 => admitted'[t] = 0
      <4> SUFFICES ASSUME NEW t \in Time, t > w + 1 PROVE admitted'[t] = 0
        OBVIOUS
      <4>1. t # now /\ admitted[t] = 0
        BY <1>4, <2>1, <2>2, RowTypes DEF Counts, RowCountsAll, LimiterInv
      <4> QED BY <1>1, <4>1, AdmitCounts DEF LimiterInv
    <3> QED BY <1>1, <1>5, <2>2, <2>5, <3>1 DEF RowCountsAll, AdmittedIn, CountIn
  <2>7. DatabaseLimit'
    <3>1. store = "sqlite" => AdmittedIn(w)' <= MaxRequests
      BY <1>4, <1>5, <2>5, RateAssumption
    <3> QED BY <1>1, <2>1, <2>3, <3>1 DEF Counts, DatabaseLimit
  <2>8. Apart' /\ HitsCount' /\ NoPrematureReject'
    BY <1>1, <1>2, <2>1, SqliteApart, SqliteJustified
  <2> QED BY <2>4, <2>6, <2>7, <2>8 DEF Counts
<1> QED BY <1>2, <1>6, <1>7 DEF LimiterInv, Moves

\* The row is of an earlier window: whoever comes first in this one starts it anew.
LEMMA ResetKeeps ==
    ASSUME LimiterInv, NEW r \in Requests, CheckSqlite(r), WindowPassed(now), Reset(now), Admit(r, now)
    PROVE  LimiterInv'
<1>1. /\ OnSqlite /\ redis # "up" /\ now \in Time /\ ~writerTx
      /\ pc[r] # "done" /\ reply[r] # "429" /\ failures' = failures
      /\ stamp' \in [Requests -> Time] /\ \A q \in Requests : q # r => stamp'[q] = stamp[q]
      /\ UNCHANGED <<store, redis, switches, now, hits, writerTx>>
  BY SqliteCheck DEF CheckSqlite
<1>2. Moves(r) /\ reply'[r] # "429" /\ pc'[r] \in {"next", "done"}
  BY <1>1, AdmitMoves DEF LimiterInv
<1>4. PICK w \in Windows : w = WindowStart(now) /\ (now = w \/ now = w + 1)
  BY <1>1, InWindow
<1>5. row' \in RowSet /\ row' # NoRow /\ row'.start = w /\ row'.count = 1
  BY <1>1, <1>4, RowTypes DEF LimiterInv, Reset, RowSet
<1>6. LimiterTypeOK'
  BY <1>1, <1>2, <1>5 DEF LimiterInv, LimiterTypeOK, Moves
<1>7. ASSUME failures' = 0 PROVE Counts'
  <2>1. Counts /\ failures = 0
    BY <1>1, <1>7 DEF LimiterInv
  <2>2. /\ AdmittedIn(w) \in Nat /\ AdmittedIn(w)' = AdmittedIn(w) + 1
        /\ \A v \in Windows : v # w => AdmittedIn(v)' = AdmittedIn(v)
    BY <1>1, <1>4, AdmitCounts DEF LimiterInv
  <2>3. RowCounts'
    <3>1. w <= now' /\ row'.count <= MaxRequests /\ row'.count <= AdmittedIn(w)'
      BY <1>1, <1>4, <1>5, <2>2, RowTypes DEF LimiterInv, Windows
    <3> QED BY <1>1, <1>4, <1>5, <3>1 DEF RowCounts, AdmittedIn, CountIn
  <2>4. store = "sqlite" => \A t \in Time : t >= w => admitted[t] = 0
    <3> SUFFICES ASSUME store = "sqlite", NEW t \in Time, t >= w PROVE admitted[t] = 0
      OBVIOUS
    <3>1. CASE row = NoRow
      BY <2>1, <3>1 DEF Counts, RowCountsAll
    <3>2. CASE row # NoRow
      <4>1. row.start \in Windows /\ row.start < w
        BY <1>1, <1>4, <2>1, <3>2 DEF Counts, RowCounts, WindowPassed
      <4>2. row.start + 2 <= w
        BY <4>1, Disjoint
      <4>3. t > row.start + 1
        BY <1>4, <4>1, <4>2, RowTypes DEF LimiterInv, Windows
      <4> QED BY <2>1, <3>2, <4>3 DEF Counts, RowCountsAll
    <3> QED BY <3>1, <3>2
  <2>5. store = "sqlite" => AdmittedIn(w) = 0
    <3> SUFFICES ASSUME store = "sqlite" PROVE AdmittedIn(w) = 0
      OBVIOUS
    <3>1. w \in Time /\ w \in Nat
      BY RowTypes DEF Windows, LimiterInv
    <3>2. admitted[w] = 0 /\ (w + 1 \in Time => admitted[w + 1] = 0)
      BY <2>4, <3>1
    <3> QED BY <3>2 DEF AdmittedIn, CountIn
  <2>6. RowCountsAll'
    <3> SUFFICES ASSUME store = "sqlite" PROVE RowCountsAll'
      BY <1>1 DEF RowCountsAll
    <3>1. AdmittedIn(w)' = row'.count
      BY <1>5, <2>2, <2>5
    <3>2. \A t \in Time : t > w + 1 => admitted'[t] = 0
      <4> SUFFICES ASSUME NEW t \in Time, t > w + 1 PROVE admitted'[t] = 0
        OBVIOUS
      <4>1. t # now /\ t >= w
        BY <1>4, RowTypes DEF LimiterInv, Windows
      <4> QED BY <1>1, <2>4, <4>1, AdmitCounts DEF LimiterInv
    <3> QED BY <1>1, <1>5, <3>1, <3>2 DEF RowCountsAll, AdmittedIn, CountIn
  <2>7. DatabaseLimit'
    <3>1. store = "sqlite" => AdmittedIn(w)' <= MaxRequests
      BY <2>2, <2>5, RateAssumption
    <3> QED BY <1>1, <2>1, <2>2, <3>1 DEF Counts, DatabaseLimit
  <2>8. Apart' /\ HitsCount' /\ NoPrematureReject'
    BY <1>1, <1>2, <2>1, SqliteApart, SqliteJustified
  <2> QED BY <2>3, <2>6, <2>7, <2>8 DEF Counts
<1> QED BY <1>2, <1>6, <1>7 DEF LimiterInv, Moves

\* What a refusal leaves alone, and why it is justified on a store that counts.
LEMMA RejectKeeps ==
    ASSUME LimiterInv, NEW r \in Requests, NEW c \in {"redis", "database"}, Reject(r, c),
           stamp' \in [Requests -> Time], \A q \in Requests : q # r => stamp'[q] = stamp[q],
           UNCHANGED <<store, redis, switches, now, row, writerTx, failures>>,
           hits' \in [Time -> Nat], failures = 0 => HitsCount',
           failures = 0 =>
               \E w \in Windows : /\ w = WindowStart(stamp'[r])
                                  /\ c = "redis" => RedisAdmittedIn(w) >= MaxRequests
                                  /\ c = "database" /\ store # "postgres" =>
                                        AdmittedIn(w) >= MaxRequests
    PROVE  LimiterInv'
<1>1. Moves(r) /\ UNCHANGED <<admitted, viaRedis>> /\ pc'[r] = "done"
  BY RefuseMoves DEF LimiterInv
<1>2. LimiterTypeOK'
  BY <1>1 DEF LimiterInv, LimiterTypeOK, Moves
<1>3. refusedBy'[r] = c
  BY DEF Reject, LimiterInv, LimiterTypeOK
<1>4. ASSUME failures' = 0 PROVE Counts'
  <2>1. Counts /\ failures = 0
    BY <1>4 DEF LimiterInv
  <2>2. RowCounts' /\ RowCountsAll' /\ DatabaseLimit'
    BY <1>1, <2>1 DEF Counts, RowCounts, RowCountsAll, DatabaseLimit, AdmittedIn, OnSqlite
  <2>3. Apart'
    BY <1>1, <2>1, ApartKept DEF Counts
  <2>4. NoPrematureReject'
    <3>1. Grows
      <4>1. 0 \in Time
        BY RateAssumption DEF Time
      <4> QED BY <1>1, <4>1, HistoriesGrow DEF LimiterInv
    <3> QED BY <1>1, <1>3, <2>1, <3>1, StillJustified DEF LimiterInv, Counts
  <2> QED BY <2>1, <2>2, <2>3, <2>4 DEF Counts
<1> QED BY <1>1, <1>2, <1>4 DEF LimiterInv, Moves

LEMMA CheckSqliteKeeps == ASSUME LimiterInv, NEW r \in Requests, CheckSqlite(r) PROVE LimiterInv'
<1>1. /\ OnSqlite /\ now \in Time /\ failures' = failures
      /\ stamp' \in [Requests -> Time] /\ stamp'[r] = now
      /\ \A q \in Requests : q # r => stamp'[q] = stamp[q]
      /\ UNCHANGED <<store, redis, switches, now, hits, writerTx>>
  BY SqliteCheck DEF CheckSqlite
<1>2. CASE ~CanIncrement(now) /\ ~WindowPassed(now) /\ row' = row /\ Reject(r, "database")
  <2>1. hits' \in [Time -> Nat] /\ (failures = 0 => HitsCount')
    <3>1. viaRedis' = viaRedis
      BY <1>2 DEF Reject, Refuse
    <3> QED BY <1>1, <3>1 DEF LimiterInv, LimiterTypeOK, Counts, HitsCount, RedisAdmittedIn
  <2>2. ASSUME failures = 0
        PROVE  \E w \in Windows : w = WindowStart(stamp'[r]) /\ AdmittedIn(w) >= MaxRequests
    <3>1. PICK w \in Windows : w = WindowStart(now) /\ (now = w \/ now = w + 1)
      BY <1>1, InWindow
    <3>2. /\ row # NoRow /\ row.start \in Windows /\ row.start <= now /\ ~(row.start < w)
          /\ row.count <= AdmittedIn(row.start)
      BY <1>1, <1>2, <2>2, <3>1 DEF WindowPassed, LimiterInv, Counts, RowCounts
    <3>3. row.start = w
      <4>1. w < row.start => w + 2 <= row.start
        BY <3>1, <3>2, Disjoint
      <4> QED BY <3>1, <3>2, <4>1, RowTypes DEF LimiterInv, Windows
    <3>4. AdmittedIn(w) \in Nat
      BY <3>1, RowTypes DEF AdmittedIn, CountIn, LimiterInv, LimiterTypeOK, Windows
    <3>5. row.count >= MaxRequests
      BY <1>2, <3>1, <3>2, <3>3, RowTypes DEF CanIncrement, LimiterInv
    <3> QED BY <1>1, <3>1, <3>2, <3>3, <3>4, <3>5, RowTypes DEF LimiterInv
  <2> QED BY <1>1, <1>2, <2>1, <2>2, RejectKeeps
<1> QED BY <1>2, IncrementKeeps, ResetKeeps DEF CheckSqlite

\* Only a connection that is shared has another transaction open: the row then counts too few.
LEMMA DuringWriterTxKeeps == ASSUME LimiterInv, NEW r \in Requests, CheckDuringWriterTx(r) PROVE LimiterInv'
<1>1. /\ OnSqlite /\ redis # "up" /\ now \in Time /\ writerTx /\ Admit(r, now)
      /\ pc[r] # "done" /\ reply[r] # "429" /\ failures' = failures /\ row' = row
      /\ stamp' \in [Requests -> Time] /\ \A q \in Requests : q # r => stamp'[q] = stamp[q]
      /\ UNCHANGED <<store, redis, switches, now, hits, writerTx>>
  BY SqliteCheck DEF CheckDuringWriterTx
<1>2. Moves(r) /\ reply'[r] # "429" /\ pc'[r] \in {"next", "done"}
  BY <1>1, AdmitMoves DEF LimiterInv
<1>3. LimiterTypeOK'
  BY <1>1, <1>2 DEF LimiterInv, LimiterTypeOK, Moves
<1>4. ASSUME failures' = 0 PROVE Counts'
  <2>1. Counts /\ failures = 0 /\ store = "shared"
    BY <1>1, <1>4 DEF LimiterInv, Counts, RowCountsAll, OnSqlite
  <2>2. RowCounts'
    <3> SUFFICES ASSUME row # NoRow
                 PROVE  /\ row.start \in Windows /\ row.start <= now /\ row.count <= MaxRequests
                        /\ row.count <= AdmittedIn(row.start)'
      BY <1>1 DEF RowCounts, AdmittedIn, CountIn
    <3>1. PICK w \in Windows : w = row.start
      BY <1>1, <2>1 DEF Counts, RowCounts
    <3>2. row.count <= AdmittedIn(w)
      BY <1>1, <2>1, <3>1 DEF Counts, RowCounts
    <3>3. row.count <= AdmittedIn(w)'
      BY <1>1, <3>2, AdmitCounts, RowTypes DEF LimiterInv
    <3> QED BY <1>1, <2>1, <3>1, <3>3 DEF Counts, RowCounts, AdmittedIn, CountIn
  <2>3. RowCountsAll' /\ DatabaseLimit'
    BY <1>1, <2>1 DEF RowCountsAll, DatabaseLimit
  <2>4. Apart' /\ HitsCount' /\ NoPrematureReject'
    BY <1>1, <1>2, <2>1, SqliteApart, SqliteJustified
  <2> QED BY <2>2, <2>3, <2>4 DEF Counts
<1> QED BY <1>2, <1>3, <1>4 DEF LimiterInv, Moves

-----------------------------------------------------------------------------
(* The checks on Redis and PostgreSQL, the failures, and the clock.         *)

\* Nothing is promised after a failure.
LEMMA NothingPromised == ASSUME failures' # 0 PROVE failures' = 0 => Counts'
  OBVIOUS

LEMMA RedisIncrKeeps == ASSUME LimiterInv, NEW r \in Requests, RedisIncr(r) PROVE LimiterInv'
<1>1. PICK t \in Time, w \in Windows :
        /\ t = stamp[r] /\ w = WindowStart(t)
        /\ hits' = [hits EXCEPT ![w] = @ + 1]
        /\ IF hits[w] + 1 > MaxRequests THEN Reject(r, "redis") ELSE AdmitByRedis(r, t)
  BY InWindow DEF LimiterInv, LimiterTypeOK, RedisIncr, OverLimit
<1>2. /\ pc[r] = "incr" /\ reply[r] # "429"
      /\ UNCHANGED <<store, redis, switches, now, row, writerTx, stamp, failures>>
  BY DEF RedisIncr, deploymentVars, LimiterInv, Stages
<1>3. /\ hits \in [Time -> Nat] /\ hits' \in [Time -> Nat] /\ hits'[w] = hits[w] + 1
      /\ \A v \in Windows : v # w => hits'[v] = hits[v]
      /\ hits[w] \in Nat /\ MaxRequests \in Nat
  BY <1>1, RateAssumption DEF LimiterInv, LimiterTypeOK, Windows
<1>4. stamp' \in [Requests -> Time] /\ stamp'[r] = t
  BY <1>1, <1>2 DEF LimiterInv, LimiterTypeOK
<1>5. CASE hits[w] + 1 > MaxRequests
  <2>1. Reject(r, "redis") /\ viaRedis' = viaRedis
    BY <1>1, <1>5 DEF Reject, Refuse
  <2>2. ASSUME failures = 0 PROVE HitsCount' /\ RedisAdmittedIn(w) >= MaxRequests
    <3>1. \A v \in Windows :
            RedisAdmittedIn(v) = IF hits[v] <= MaxRequests THEN hits[v] ELSE MaxRequests
      BY <2>2 DEF LimiterInv, Counts, HitsCount
    <3>2. RedisAdmittedIn(w) = MaxRequests
      BY <1>3, <1>5, <3>1
    <3>3. \A v \in Windows :
            RedisAdmittedIn(v) = IF hits'[v] <= MaxRequests THEN hits'[v] ELSE MaxRequests
      BY <1>3, <1>5, <3>1, <3>2
    <3> QED BY <1>3, <2>1, <3>2, <3>3 DEF HitsCount, RedisAdmittedIn
  <2> QED BY <1>1, <1>2, <1>3, <1>4, <2>1, <2>2, RejectKeeps
<1>6. CASE ~(hits[w] + 1 > MaxRequests)
  <2>1. AdmitByRedis(r, t)
    BY <1>1, <1>6
  <2>2. Moves(r) /\ reply'[r] # "429" /\ pc'[r] \in {"next", "done"}
    BY <1>2, <2>1, AdmitMoves DEF LimiterInv
  <2>3. LimiterTypeOK'
    BY <1>2, <1>3, <1>4, <2>2 DEF LimiterInv, LimiterTypeOK, Moves
  <2>4. ASSUME failures' = 0 PROVE Counts'
    <3>1. Counts /\ failures = 0
      BY <1>2, <2>4 DEF LimiterInv
    <3>2. \A v \in Windows :
            RedisAdmittedIn(v) = IF hits[v] <= MaxRequests THEN hits[v] ELSE MaxRequests
      BY <3>1 DEF Counts, HitsCount
    <3>3. RedisAdmittedIn(w) = hits[w] /\ RedisAdmittedIn(w) < MaxRequests
      BY <1>3, <1>6, <3>2
    <3>4. HitsCount'
      <4>1. \A v \in Windows :
              RedisAdmittedIn(v)' = IF hits'[v] <= MaxRequests THEN hits'[v] ELSE MaxRequests
        BY <1>1, <1>3, <1>6, <2>1, <3>2, <3>3, RedisAdmitCounts DEF LimiterInv
      <4> QED BY <4>1 DEF HitsCount, RedisAdmittedIn
    <3>5. admitted' = admitted
      BY <2>1 DEF AdmitByRedis
    <3>6. RowCounts' /\ RowCountsAll' /\ DatabaseLimit'
      BY <1>2, <3>1, <3>5 DEF Counts, RowCounts, RowCountsAll, DatabaseLimit, AdmittedIn, OnSqlite
    <3>7. Apart'
      <4>1. switches = 0 => redis = "up"
        BY <1>2, <3>1 DEF Counts, Apart
      <4> QED BY <1>2, <2>2, <3>1, <3>5, <4>1, ApartKept DEF Counts
    <3>8. NoPrematureReject'
      BY <1>2, <2>1, <2>2, <3>1, HistoriesGrow, StillJustified DEF LimiterInv, Counts
    <3> QED BY <3>4, <3>6, <3>7, <3>8 DEF Counts
  <2> QED BY <2>2, <2>3, <2>4 DEF LimiterInv, Moves
<1> QED BY <1>5, <1>6

\* A step that neither admits nor touches a counter: the request goes on.
LEMMA NextStatementKeeps ==
    ASSUME LimiterInv, NEW r \in Requests, NEW stage \in {"update", "select", "insert", "incr"},
           pc' = [pc EXCEPT ![r] = stage], pc[r] # "done", reply[r] # "429",
           stage # "incr" => \/ store = "postgres" /\ redis # "up"
                             \/ pc[r] \in {"update", "select", "insert"},
           stage = "incr" => redis = "up",
           UNCHANGED <<store, redis, switches, now, row, hits, writerTx, passed, reply, refusedBy,
                       admitted, viaRedis, failures>>,
           stamp' \in [Requests -> Time], \A q \in Requests : q # r => stamp'[q] = stamp[q]
    PROVE  LimiterInv'
<1>1. Moves(r)
  <2>1. stage # "incr" => store = "postgres"
    BY DEF LimiterInv, Stages
  <2> QED BY <2>1, StepMoves DEF LimiterInv
<1>2. LimiterTypeOK'
  BY <1>1 DEF LimiterInv, LimiterTypeOK, Moves
<1>3. pc'[r] = stage /\ reply'[r] # "429"
  BY DEF LimiterInv, LimiterTypeOK
<1>4. ASSUME failures' = 0 PROVE Counts'
  <2>1. Counts /\ failures = 0
    BY <1>4 DEF LimiterInv
  <2>2. RowCounts' /\ RowCountsAll' /\ DatabaseLimit' /\ HitsCount'
    BY <2>1 DEF Counts, RowCounts, RowCountsAll, DatabaseLimit, HitsCount, AdmittedIn,
                RedisAdmittedIn, OnSqlite
  <2>3. Apart'
    <3>1. switches = 0 /\ redis = "up" => stage \notin {"update", "select", "insert"}
      BY <2>1 DEF Counts, Apart
    <3> QED BY <1>1, <1>3, <2>1, <3>1, ApartKept DEF Counts
  <2>4. NoPrematureReject'
    <3>1. Grows
      <4>1. 0 \in Time
        BY RateAssumption DEF Time
      <4> QED BY <4>1, HistoriesGrow DEF LimiterInv
    <3> QED BY <1>1, <1>3, <2>1, <3>1, StillJustified DEF LimiterInv, Counts
  <2> QED BY <2>2, <2>3, <2>4 DEF Counts
<1> QED BY <1>1, <1>2, <1>4 DEF LimiterInv, Moves

LEMMA StartCheckKeeps == ASSUME LimiterInv, NEW r \in Requests, StartCheck(r) PROVE LimiterInv'
<1>1. /\ pc[r] # "done" /\ reply[r] # "429"
      /\ stamp' \in [Requests -> Time] /\ \A q \in Requests : q # r => stamp'[q] = stamp[q]
      /\ UNCHANGED <<store, redis, switches, now, row, hits, writerTx, passed, reply, refusedBy,
                     admitted, viaRedis, failures>>
  BY DEF StartCheck, Waiting, deploymentVars, LimiterInv, LimiterTypeOK, Stages
<1>2. \/ redis = "up" /\ pc' = [pc EXCEPT ![r] = "incr"]
      \/ redis # "up" /\ store = "postgres" /\ pc' = [pc EXCEPT ![r] = "update"]
  BY DEF StartCheck
<1> QED BY <1>1, <1>2, NextStatementKeeps

\* Only an UPDATE that finds room or an INSERT admits; on PostgreSQL that promises nothing.
LEMMA PgKeeps ==
    ASSUME LimiterInv, NEW r \in Requests, PgUpdate(r) \/ PgSelect(r) \/ PgInsert(r) PROVE LimiterInv'
<1>1. /\ pc[r] \in {"update", "select", "insert"} /\ pc[r] # "done" /\ store = "postgres"
      /\ reply[r] # "429" /\ stamp[r] \in Time /\ stamp' \in [Requests -> Time]
      /\ UNCHANGED <<store, redis, switches, now, hits, writerTx, stamp, failures>>
  BY DEF PgUpdate, PgSelect, PgInsert, deploymentVars, LimiterInv, Stages, LimiterTypeOK
<1>2. \/ /\ \E stage \in {"select", "insert"} : pc' = [pc EXCEPT ![r] = stage]
         /\ UNCHANGED <<row, passed, reply, refusedBy, admitted, viaRedis>>
      \/ Admit(r, stamp[r])
      \/ Reject(r, "database") /\ row' = row
  BY DEF PgUpdate, PgSelect, PgInsert
<1>3. CASE /\ \E stage \in {"select", "insert"} : pc' = [pc EXCEPT ![r] = stage]
           /\ UNCHANGED <<row, passed, reply, refusedBy, admitted, viaRedis>>
  BY <1>1, <1>3, NextStatementKeeps
<1>4. CASE Reject(r, "database") /\ row' = row
  <2>1. hits' \in [Time -> Nat] /\ (failures = 0 => HitsCount')
    <3>1. viaRedis' = viaRedis
      BY <1>4 DEF Reject, Refuse
    <3> QED BY <1>1, <3>1 DEF LimiterInv, LimiterTypeOK, Counts, HitsCount, RedisAdmittedIn
  <2>2. \E w \in Windows : w = WindowStart(stamp'[r])
    BY <1>1, InWindow
  <2> QED BY <1>1, <1>4, <2>1, <2>2, RejectKeeps
<1>5. CASE Admit(r, stamp[r])
  <2>1. Moves(r) /\ reply'[r] # "429" /\ pc'[r] \in {"next", "done"}
    BY <1>1, <1>5, AdmitMoves DEF LimiterInv
  <2>2. row' \in RowSet \union {NoRow}
    <3>1. CASE UNCHANGED row
      BY <3>1 DEF LimiterInv, LimiterTypeOK
    <3>2. CASE Reset(stamp[r])
      BY <1>1, <3>2, RowTypes DEF LimiterInv, Reset
    <3>3. CASE CanIncrement(stamp[r]) /\ Increment
      BY <3>3, RowTypes DEF LimiterInv, CanIncrement, Increment, RowSet
    <3> QED BY <3>1, <3>2, <3>3 DEF PgUpdate, PgSelect, PgInsert
  <2>3. LimiterTypeOK'
    BY <1>1, <2>1, <2>2 DEF LimiterInv, LimiterTypeOK, Moves
  <2>4. ASSUME failures' = 0 PROVE Counts'
    <3>1. Counts /\ failures = 0 /\ viaRedis' = viaRedis
      BY <1>1, <1>5, <2>4 DEF LimiterInv, Admit
    <3>2. RowCounts' /\ RowCountsAll' /\ DatabaseLimit'
      BY <1>1 DEF RowCounts, RowCountsAll, DatabaseLimit, OnSqlite
    <3>3. HitsCount'
      BY <1>1, <3>1 DEF Counts, HitsCount, RedisAdmittedIn
    <3>4. Apart'
      <4>1. switches = 0 => redis # "up"
        BY <1>1, <3>1 DEF Counts, Apart
      <4> QED BY <1>1, <2>1, <3>1, <4>1, ApartKept DEF Counts
    <3>5. NoPrematureReject'
      BY <1>1, <1>5, <2>1, <3>1, SqliteJustified
    <3> QED BY <3>2, <3>3, <3>4, <3>5 DEF Counts
  <2> QED BY <2>1, <2>3, <2>4 DEF LimiterInv, Moves
<1> QED BY <1>2, <1>3, <1>4, <1>5

LEMMA FailuresKeep ==
    ASSUME LimiterInv, NEW r \in Requests, CheckFails(r) \/ RedisFails(r) PROVE LimiterInv'
<1>1. /\ failures' \in 0..MaxFailures /\ failures' # 0
      /\ UNCHANGED <<store, redis, switches, now, row, writerTx>>
  BY RateAssumption DEF CheckFails, RedisFails, deploymentVars, LimiterInv, LimiterTypeOK
<1>2. pc[r] # "done" /\ reply[r] # "429"
  BY DEF CheckFails, RedisFails, StartsOnSqlite, Waiting, LimiterInv, Stages
<1>3. stamp' \in [Requests -> Time] /\ hits' \in [Time -> Nat]
  <2>1. CASE CheckFails(r)
    BY <2>1 DEF CheckFails, StartsOnSqlite, LimiterInv, LimiterTypeOK
  <2>2. CASE RedisFails(r)
    <3>1. WindowStart(stamp[r]) \in Time
      BY InWindow DEF LimiterInv, LimiterTypeOK, Windows
    <3> QED BY <2>2, <3>1 DEF RedisFails, LimiterInv, LimiterTypeOK
  <2> QED BY <2>1, <2>2
<1>4. Moves(r)
  <2>1. \/ Admit(r, now) \/ Admit(r, stamp[r]) \/ AdmitByRedis(r, stamp[r])
        \/ Refuse(r, "500") /\ UNCHANGED refusedBy
    BY DEF CheckFails, RedisFails
  <2>2. now \in Time /\ stamp[r] \in Time
    BY DEF LimiterInv, LimiterTypeOK
  <2> QED BY <1>1, <1>2, <2>1, <2>2, AdmitMoves, RefuseMoves DEF LimiterInv
<1>5. LimiterTypeOK'
  BY <1>1, <1>3, <1>4 DEF LimiterInv, LimiterTypeOK, Moves
<1> QED BY <1>1, <1>4, <1>5, NothingPromised DEF LimiterInv, Moves

\* Redis comes or goes: the two counters may both be in use from here on.
LEMMA SwitchKeeps == ASSUME LimiterInv, RedisSwitches PROVE LimiterInv'
<1>1. /\ switches' \in 0..MaxSwitches /\ switches' # 0 /\ redis' \in {"none", "up", "down"}
      /\ failures' \in 0..MaxFailures /\ hits' \in [Time -> Nat]
      /\ failures' = 0 => failures = 0 /\ hits' = hits
      /\ UNCHANGED <<store, now, row, writerTx, pc, stamp, passed, reply, refusedBy, admitted,
                     viaRedis>>
  BY RateAssumption DEF RedisSwitches, LimiterInv, LimiterTypeOK
<1>2. LimiterTypeOK' /\ Stages'
  BY <1>1 DEF LimiterInv, LimiterTypeOK, Stages
<1>3. ASSUME failures' = 0 PROVE Counts'
  BY <1>1, <1>3 DEF LimiterInv, Counts, RowCounts, RowCountsAll, DatabaseLimit, HitsCount, Apart,
                    NoPrematureReject, AdmittedIn, RedisAdmittedIn, OnSqlite
<1> QED BY <1>2, <1>3 DEF LimiterInv

LEMMA OthersKeep == ASSUME LimiterInv, Tick \/ WriterTx \/ UNCHANGED limiterVars PROVE LimiterInv'
<1>1. /\ now' \in Time /\ now <= now'
      /\ writerTx' \in BOOLEAN /\ (store = "sqlite" => writerTx' = writerTx)
      /\ UNCHANGED <<store, redis, switches, row, hits, pc, stamp, passed, reply, refusedBy, admitted,
                     viaRedis, failures>>
  <2>1. now \in Nat /\ MaxTime \in Nat /\ now \in Time
    BY RateAssumption DEF LimiterInv, LimiterTypeOK, Time
  <2>2. CASE Tick
    BY <2>1, <2>2 DEF Tick, deploymentVars, LimiterInv, LimiterTypeOK, Time
  <2>3. CASE WriterTx
    BY <2>1, <2>3 DEF WriterTx, deploymentVars, LimiterInv, LimiterTypeOK
  <2>4. CASE UNCHANGED limiterVars
    BY <2>1, <2>4 DEF limiterVars, LimiterInv, LimiterTypeOK
  <2> QED BY <2>2, <2>3, <2>4
<1>2. LimiterTypeOK' /\ Stages'
  BY <1>1 DEF LimiterInv, LimiterTypeOK, Stages
<1>3. ASSUME failures' = 0 PROVE Counts'
  <2>1. Counts /\ failures = 0
    BY <1>1, <1>3 DEF LimiterInv
  <2>2. RowCounts'
    <3>1. row # NoRow => row.start \in Nat /\ now \in Nat /\ now' \in Nat
      BY <1>1, RowTypes DEF LimiterInv
    <3> QED BY <1>1, <2>1, <3>1 DEF Counts, RowCounts, AdmittedIn, OnSqlite
  <2>3. RowCountsAll' /\ HitsCount' /\ DatabaseLimit' /\ Apart' /\ NoPrematureReject'
    BY <1>1, <2>1 DEF Counts, RowCountsAll, HitsCount, DatabaseLimit, Apart, NoPrematureReject,
                      AdmittedIn, RedisAdmittedIn
  <2> QED BY <2>2, <2>3 DEF Counts
<1> QED BY <1>2, <1>3 DEF LimiterInv

-----------------------------------------------------------------------------
\* LimiterInv is an invariant: one step per statement of a check.
THEOREM LimiterInvIsInvariant == LimiterSpec => []LimiterInv
<1>1. LimiterInit => LimiterInv
  <2> SUFFICES ASSUME LimiterInit PROVE LimiterInv
    OBVIOUS
  <2>1. LimiterTypeOK
    <3>1. 0 \in Time /\ 0 \in 0..Passes /\ 0 \in 0..MaxFailures /\ 0 \in 0..MaxSwitches
      BY RateAssumption DEF Time
    <3>2. /\ store \in Stores /\ redis \in {"none", "up", "down"} /\ switches \in 0..MaxSwitches
          /\ now \in Time /\ row = NoRow /\ writerTx \in BOOLEAN /\ failures \in 0..MaxFailures
      BY <3>1 DEF LimiterInit
    <3>3. hits \in [Time -> Nat] /\ admitted \in [Time -> Nat] /\ viaRedis \in [Time -> Nat]
      BY DEF LimiterInit
    <3>4. /\ stamp \in [Requests -> Time] /\ passed \in [Requests -> 0..Passes]
          /\ pc \in [Requests -> {"new", "update", "select", "insert", "incr", "next", "done"}]
          /\ reply \in [Requests -> {"none", "handled", "429", "500"}]
          /\ refusedBy \in [Requests -> {"none", "redis", "database"}]
      BY <3>1 DEF LimiterInit
    <3> QED BY <3>2, <3>3, <3>4 DEF LimiterTypeOK
  <2>2. Stages
    BY RateAssumption DEF LimiterInit, Stages
  <2>3. \A w \in Windows : AdmittedIn(w) = 0 /\ RedisAdmittedIn(w) = 0
    BY DEF LimiterInit, AdmittedIn, RedisAdmittedIn, CountIn, Windows
  <2>4. DatabaseLimit /\ HitsCount
    BY <2>3, RateAssumption DEF LimiterInit, DatabaseLimit, HitsCount, Windows
  <2>5. RowCounts /\ RowCountsAll /\ Apart /\ NoPrematureReject
    BY DEF LimiterInit, RowCounts, RowCountsAll, Apart, NoPrematureReject
  <2> QED BY <2>1, <2>2, <2>4, <2>5 DEF LimiterInv, Counts
<1>2. LimiterInv /\ [LimiterNext]_limiterVars => LimiterInv'
  <2> SUFFICES ASSUME LimiterInv, [LimiterNext]_limiterVars PROVE LimiterInv'
    OBVIOUS
  <2>1. ASSUME NEW r \in Requests, Check(r) PROVE LimiterInv'
    BY <2>1, CheckSqliteKeeps, DuringWriterTxKeeps, StartCheckKeeps, PgKeeps, RedisIncrKeeps,
       FailuresKeep DEF Check
  <2>2. CASE Tick \/ WriterTx \/ AllAnswered \/ UNCHANGED limiterVars
    BY <2>2, OthersKeep DEF AllAnswered
  <2>3. CASE RedisSwitches
    BY <2>3, SwitchKeeps
  <2> QED BY <2>1, <2>2, <2>3 DEF LimiterNext
<1> QED BY <1>1, <1>2, PTL DEF LimiterSpec

\* Whatever Redis does, no window admits more checks by Redis than the limit, nor by the rows
\* of SQLite with a connection of its own, and both together only once Redis has come or gone;
\* for any number of requests and routers, unless a store failed.
THEOREM WindowsKeepTheLimit == LimiterSpec => []WindowLimit
<1>1. LimiterInv => WindowLimit
  <2> SUFFICES ASSUME LimiterInv, failures = 0, NEW w \in Windows
               PROVE  /\ RedisAdmittedIn(w) <= MaxRequests
                      /\ store = "sqlite" => AdmittedIn(w) <= MaxRequests
                      /\ switches = 0 /\ (store = "sqlite" \/ redis = "up") =>
                            AdmittedIn(w) + RedisAdmittedIn(w) <= MaxRequests
    BY InWindow DEF WindowLimit
  <2>1. /\ Counts /\ MaxRequests \in Nat /\ hits[w] \in Nat /\ w \in Time
    <3>1. w \in Time
      BY DEF Windows
    <3>2. LimiterTypeOK /\ Counts
      BY DEF LimiterInv
    <3> QED BY <3>1, <3>2, RateAssumption DEF LimiterTypeOK
  <2>2. RedisAdmittedIn(w) \in Nat /\ RedisAdmittedIn(w) <= MaxRequests
    BY <2>1 DEF Counts, HitsCount
  <2>3. store = "sqlite" => AdmittedIn(w) <= MaxRequests
    BY <2>1 DEF Counts, DatabaseLimit
  <2>4. AdmittedIn(w) \in Nat
    BY <2>1 DEF AdmittedIn, CountIn, LimiterInv, LimiterTypeOK
  <2>5. ASSUME switches = 0
        PROVE  \/ AdmittedIn(w) = 0 /\ redis = "up"
               \/ RedisAdmittedIn(w) = 0 /\ redis # "up"
    BY <2>1, <2>5 DEF Counts, Apart, AdmittedIn, RedisAdmittedIn, CountIn
  <2> QED BY <2>1, <2>2, <2>3, <2>4, <2>5
<1> QED BY <1>1, LimiterInvIsInvariant, PTL

\* Nobody is refused before the counter asked has admitted the limit, PostgreSQL apart.
THEOREM NobodyIsRefusedEarly == LimiterSpec => []NoPrematureReject
<1>1. LimiterInv => NoPrematureReject
  <2>1. failures # 0 => NoPrematureReject
    BY DEF NoPrematureReject
  <2> QED BY <2>1 DEF LimiterInv, Counts
<1> QED BY <1>1, LimiterInvIsInvariant, PTL
=============================================================================
