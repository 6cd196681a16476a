-------------------------- MODULE Experiments_proofs --------------------------
(***************************************************************************)
(* Experiments, for any number of tests, requests and versions.            *)
(*                                                                         *)
(* That what is promoted won is not inductive: the winner travels from a   *)
(* result row through the request that promotes it to the pointer, the     *)
(* test and the audit log, and a rollback may bring older tables back.     *)
(* The invariant says the same of every place on that way.                 *)
(***************************************************************************)
EXTENDS Experiments, TLAPS

\* The tables d claim no winner that the history w does not know.
Justified(d, w) ==
    /\ d \in Tables
    /\ \A t \in Tests : d.tests[t] = None => d.results[t] = {}
    /\ \A t \in Tests : \A r \in d.results[t] :
          /\ r.winner = "A" => <<t, d.tests[t].a>> \in w
          /\ r.winner = "B" => <<t, d.tests[t].b>> \in w
    /\ \A t \in Tests : d.tests[t] # None /\ d.tests[t].promoted # None =>
          <<t, d.tests[t].promoted>> \in w
    /\ \A v \in d.pointed : \E t \in Tests : <<t, v>> \in w

Promoting == {"row", "pointer", "record"}
Labels == {"label prompt", "label version", "label write"}

\* Neither does the request with the state rec.
CallJustified(rec, w) ==
    /\ rec \in CallState
    /\ rec.next = "insert" => rec.test \in Tests /\ rec.got \in Winners
    /\ rec.next \in {"status", "result", "delete", "commit"} \union Promoting => rec.test \in Tests
    /\ rec.next \in Labels => rec.got \in Versions \union {None}
    /\ rec.next = "label write" => rec.got \in Versions
    /\ rec.next \in Promoting \union Labels /\ rec.test # None =>
          rec.got \in Versions /\ <<rec.test, rec.got>> \in w
    /\ rec.next = "commit" /\ rec.got # None => <<rec.test, rec.got>> \in w

IInv ==
    /\ TypeOK
    /\ Justified(db, won)
    /\ saved # None => Justified(saved, won)
    /\ \A c \in Calls : CallJustified(call[c], won)
    /\ audited \subseteq won

-----------------------------------------------------------------------------
LEMMA MoreHistory ==
    ASSUME NEW w, NEW x, w \subseteq x
    PROVE  /\ \A d : Justified(d, w) => Justified(d, x)
           /\ \A rec : CallJustified(rec, w) => CallJustified(rec, x)
<1>1. ASSUME NEW d, Justified(d, w) PROVE Justified(d, x)
  <2>1. \A v \in d.pointed : \E t \in Tests : <<t, v>> \in x
    BY <1>1 DEF Justified
  <2> QED BY <1>1, <2>1 DEF Justified
<1>2. ASSUME NEW rec, CallJustified(rec, w) PROVE CallJustified(rec, x)
  BY <1>2 DEF CallJustified
<1> QED BY <1>1, <1>2

\* A request that goes on leaves the others alone.
LEMMA Continued ==
    ASSUME IInv, NEW c \in Calls, NEW rec, GoOn(c, rec), CallJustified(rec, won'), won \subseteq won'
    PROVE  /\ call' \in [Calls -> CallState]
           /\ turn' \in Calls \union {Free}
           /\ \A b \in Calls : CallJustified(call'[b], won')
<1>1. call' = [call EXCEPT ![c] = rec] /\ turn' \in Calls \union {Free}
  BY DEF GoOn
<1>2. rec \in CallState
  BY DEF CallJustified
<1>3. \A b \in Calls : CallJustified(call[b], won')
  BY MoreHistory DEF IInv
<1> QED BY <1>1, <1>2, <1>3 DEF IInv, TypeOK

LEMMA DoneJustified == ASSUME NEW w PROVE CallJustified(Done, w) /\ CallJustified(Idle, w)
  BY DEF CallJustified, Done, Idle, CallState, Promoting, Labels

\* A request that throws leaves the tables as they are or as they were at BEGIN.
LEMMA Thrown ==
    ASSUME IInv, NEW c \in Calls, Throw(c), UNCHANGED won
    PROVE  /\ call' \in [Calls -> CallState]
           /\ turn' \in Calls \union {Free}
           /\ \A b \in Calls : CallJustified(call'[b], won')
           /\ saved' = None
           /\ Justified(db', won')
<1>1. GoOn(c, Done) /\ saved' = None /\ db' = IF saved = None THEN db ELSE saved
  BY DEF Throw, Return
<1> QED BY <1>1, Continued, DoneJustified DEF IInv

THEOREM InitIInv == Init => IInv
<1> SUFFICES ASSUME Init PROVE IInv
  OBVIOUS
<1>1. db \in Tables
  BY DEF Init, Tables
<1>2. \A c \in Calls : call[c] = Idle
  BY DEF Init
<1>3. call \in [Calls -> CallState]
  BY DEF Init, CallState
<1>4. TypeOK
  BY <1>1, <1>3, ExperimentsAssumption DEF Init, TypeOK
<1>5. Justified(db, won)
  BY <1>1 DEF Init, Justified
<1> QED BY <1>2, <1>4, <1>5, DoneJustified DEF Init, IInv

-----------------------------------------------------------------------------
(* Steps of one request.                                                    *)

\* What the lemmas about steps have in common: the request goes on with rec.
LEMMA CallOnly ==
    ASSUME IInv, NEW c \in Calls, NEW rec, GoOn(c, rec), CallJustified(rec, won),
           saved' = saved \/ saved' = db \/ saved' = None, audited' \subseteq won,
           UNCHANGED <<backend, now, versions, db, used, won, faults>>
    PROVE  IInv'
<1>1. /\ call' \in [Calls -> CallState]
      /\ turn' \in Calls \union {Free}
      /\ \A b \in Calls : CallJustified(call'[b], won')
  BY Continued
<1>2. Justified(db', won') /\ (saved' # None => Justified(saved', won'))
  BY DEF IInv
<1>3. saved' \in Tables \union {None} /\ db' \in Tables
  BY <1>2 DEF Justified
<1> QED BY <1>1, <1>2, <1>3 DEF IInv, TypeOK

\* A request that throws.
LEMMA CallThrows ==
    ASSUME IInv, NEW c \in Calls, Throw(c), audited' \subseteq won, faults' \in 0..MaxFaults,
           UNCHANGED <<backend, now, versions, used, won>>
    PROVE  IInv'
<1>1. /\ call' \in [Calls -> CallState]
      /\ turn' \in Calls \union {Free}
      /\ \A b \in Calls : CallJustified(call'[b], won')
      /\ saved' = None
      /\ Justified(db', won')
  BY Thrown
<1> QED BY <1>1 DEF IInv, TypeOK, Justified

\* A request that writes the tables and goes on with rec.
LEMMA CallWrites ==
    ASSUME IInv, NEW c \in Calls, NEW rec, GoOn(c, rec), CallJustified(rec, won'),
           saved' = saved \/ saved' = None, Justified(db', won'),
           won \subseteq won', won' \subseteq Tests \X Versions,
           UNCHANGED <<backend, now, versions, used, audited, faults>>
    PROVE  IInv'
<1>1. /\ call' \in [Calls -> CallState]
      /\ turn' \in Calls \union {Free}
      /\ \A b \in Calls : CallJustified(call'[b], won')
  BY Continued
<1>2. saved' # None => Justified(saved', won')
  BY MoreHistory DEF IInv
<1>3. saved' \in Tables \union {None} /\ db' \in Tables
  BY <1>2 DEF Justified
<1> QED BY <1>1, <1>2, <1>3 DEF IInv, TypeOK

LEMMA RunReadsKeeps ==
    ASSUME IInv, NEW c \in Calls, NEW t \in Tests, RunReads(c, t)
    PROVE  IInv'
<1>1. PICK w \in Outcomes(db.tests[t]) : GoOn(c, [next |-> "insert", test |-> t, got |-> w])
  BY DEF RunReads
<1>2. w \in Winners
  BY DEF Outcomes, Winners
<1>3. CallJustified([next |-> "insert", test |-> t, got |-> w], won)
  BY <1>2 DEF CallJustified, CallState, Statements, Promoting, Labels
<1> QED BY <1>1, <1>3, CallOnly DEF RunReads, IInv

LEMMA RunInsertsKeeps ==
    ASSUME IInv, NEW c \in Calls, RunInserts(c)
    PROVE  IInv'
<1> DEFINE t == call[c].test
           w == call[c].got
<1>1. t \in Tests /\ w \in Winners /\ CallJustified(call[c], won)
  BY DEF RunInserts, At, IInv, CallJustified
<1>2. CASE ~Referenced(t)
  BY <1>2, CallThrows DEF RunInserts, IInv, TypeOK
<1>3. CASE Referenced(t)
  <2>1. /\ db.tests[t] # None
        /\ db' = [db EXCEPT !.results[t] = @ \union {[winner |-> w, at |-> now]}]
        /\ won' = won \union ({t} \X Named(t, w))
        /\ GoOn(c, [call[c] EXCEPT !.next = "status"])
    BY <1>3 DEF RunInserts, Referenced, Recorded, Then
  <2>2. /\ db \in Tables /\ now \in 0..MaxTime /\ won \subseteq Tests \X Versions
        /\ db.tests[t] \in TestRow
    BY <1>1, <2>1 DEF IInv, TypeOK, Tables
  <2>3. won \subseteq won' /\ won' \subseteq Tests \X Versions
    BY <1>1, <2>1, <2>2 DEF Named
  <2>4. /\ w = "A" => <<t, db.tests[t].a>> \in won'
        /\ w = "B" => <<t, db.tests[t].b>> \in won'
    BY <2>1, <2>2 DEF Named, TestRow
  <2>5. Justified(db', won')
    <3>1. [winner |-> w, at |-> now] \in Result
      BY <1>1, <2>2 DEF Result
    <3>2. /\ db'.tests = db.tests /\ db'.pointed = db.pointed /\ db'.label = db.label
          /\ db'.results = [db.results EXCEPT ![t] = @ \union {[winner |-> w, at |-> now]}]
      BY <2>1, <2>2 DEF Tables
    <3>3. db' \in Tables
      <4>1. db'.results \in [Tests -> SUBSET Result]
        BY <1>1, <2>2, <3>1, <3>2 DEF Tables
      <4>2. db' = [tests |-> db'.tests, results |-> db'.results, pointed |-> db'.pointed, label |-> db'.label]
        BY <2>1, <2>2 DEF Tables
      <4> QED BY <2>2, <3>2, <4>1, <4>2 DEF Tables
    <3>4. Justified(db, won')
      BY <2>3, MoreHistory DEF IInv
    <3>5. /\ db'.results[t] = db.results[t] \union {[winner |-> w, at |-> now]}
          /\ \A s \in Tests : s # t => db'.results[s] = db.results[s]
      BY <1>1, <2>2, <3>2 DEF Tables
    <3>6. \A r \in db'.results[t] : r \in db.results[t] \/ r.winner = w
      BY <3>5
    <3> QED BY <2>1, <2>4, <3>2, <3>3, <3>4, <3>5, <3>6 DEF Justified
  <2>6. CallJustified([call[c] EXCEPT !.next = "status"], won')
    BY <1>1 DEF CallJustified, CallState, Statements, Promoting, Labels, Idle, Done
  <2> QED BY <1>3, <2>1, <2>3, <2>5, <2>6, CallWrites DEF RunInserts
<1> QED BY <1>2, <1>3

\* A row of ab_tests is written.
LEMMA RowWritten ==
    ASSUME IInv, NEW t \in Tests, NEW row \in TestRow,
           \A r \in db.results[t] : /\ r.winner = "A" => <<t, row.a>> \in won
                                    /\ r.winner = "B" => <<t, row.b>> \in won,
           row.promoted # None => <<t, row.promoted>> \in won,
           NEW d, d = [db EXCEPT !.tests[t] = row]
    PROVE  Justified(d, won)
<1>1. db \in Tables /\ Justified(db, won)
  BY DEF IInv, TypeOK
<1>2. /\ d.results = db.results /\ d.pointed = db.pointed /\ d.label = db.label
      /\ d.tests = [db.tests EXCEPT ![t] = row]
      /\ d = [tests |-> d.tests, results |-> d.results, pointed |-> d.pointed, label |-> d.label]
  BY <1>1 DEF Tables
<1>3. d.tests \in [Tests -> TestRow \union {None}]
  BY <1>1, <1>2 DEF Tables
<1>4. d \in Tables
  BY <1>1, <1>2, <1>3 DEF Tables
<1>5. d.tests[t] = row /\ \A s \in Tests : s # t => d.tests[s] = db.tests[s]
  BY <1>1, <1>2 DEF Tables
<1> QED BY <1>1, <1>2, <1>4, <1>5, NoneIsNoRow DEF Justified

\* UPDATE ab_tests.
LEMMA Updated ==
    ASSUME IInv, NEW t \in Tests
    PROVE  /\ Justified(UpdateTest(t, "status", "completed"), won)
           /\ \A v \in Versions : <<t, v>> \in won => Justified(UpdateTest(t, "promoted", v), won)
<1>1. CASE db.tests[t] = None
  BY <1>1 DEF UpdateTest, IInv
<1>2. CASE db.tests[t] # None
  <2>1. /\ db.tests[t] \in TestRow /\ db \in Tables
        /\ db.tests[t].promoted # None => <<t, db.tests[t].promoted>> \in won
        /\ \A r \in db.results[t] : /\ r.winner = "A" => <<t, db.tests[t].a>> \in won
                                    /\ r.winner = "B" => <<t, db.tests[t].b>> \in won
    BY <1>2 DEF IInv, TypeOK, Tables, Justified
  <2>2. Justified(UpdateTest(t, "status", "completed"), won)
    <3> DEFINE row == [db.tests[t] EXCEPT !.status = "completed"]
    <3>1. /\ row \in TestRow /\ row.a = db.tests[t].a /\ row.b = db.tests[t].b
          /\ row.promoted = db.tests[t].promoted
      BY <2>1 DEF TestRow
    <3>2. UpdateTest(t, "status", "completed") = [db EXCEPT !.tests[t] = row]
      BY <1>2 DEF UpdateTest
    <3> QED BY <2>1, <3>1, <3>2, RowWritten
  <2>3. ASSUME NEW v \in Versions, <<t, v>> \in won
        PROVE  Justified(UpdateTest(t, "promoted", v), won)
    <3> DEFINE row == [db.tests[t] EXCEPT !.promoted = v]
    <3>1. row \in TestRow /\ row.a = db.tests[t].a /\ row.b = db.tests[t].b /\ row.promoted = v
      BY <2>1 DEF TestRow
    <3>2. UpdateTest(t, "promoted", v) = [db EXCEPT !.tests[t] = row]
      BY <1>2 DEF UpdateTest
    <3> QED BY <2>1, <2>3, <3>1, <3>2, RowWritten
  <2> QED BY <2>2, <2>3
<1> QED BY <1>1, <1>2

\* Another label, other pointers that won, or the end of a test.
LEMMA OtherTables ==
    ASSUME IInv
    PROVE  /\ \A x \in Versions \union {None} : Justified([db EXCEPT !.label = x], won)
           /\ \A V \in SUBSET Versions : (\A v \in V : \E t \in Tests : <<t, v>> \in won)
                 => Justified([db EXCEPT !.pointed = V], won)
           /\ \A t \in Tests : Justified([db EXCEPT !.results[t] = {}], won)
           /\ \A t \in Tests : Justified([db EXCEPT !.tests[t] = None, !.results[t] = {}], won)
<1>1. db \in Tables /\ Justified(db, won)
  BY DEF IInv, TypeOK
<1>2. ASSUME NEW x \in Versions \union {None} PROVE Justified([db EXCEPT !.label = x], won)
  BY <1>1 DEF Justified, Tables
<1>3. ASSUME NEW V \in SUBSET Versions, \A v \in V : \E t \in Tests : <<t, v>> \in won
      PROVE  Justified([db EXCEPT !.pointed = V], won)
  <2> DEFINE d == [db EXCEPT !.pointed = V]
  <2>1. d.tests = db.tests /\ d.results = db.results /\ d.pointed = V /\ d \in Tables
    BY <1>1 DEF Tables
  <2> QED BY <1>1, <1>3, <2>1 DEF Justified
<1>4. ASSUME NEW t \in Tests PROVE Justified([db EXCEPT !.results[t] = {}], won)
  <2> DEFINE d == [db EXCEPT !.results[t] = {}]
  <2>1. /\ d.tests = db.tests /\ d.pointed = db.pointed /\ d.label = db.label
        /\ d.results = [db.results EXCEPT ![t] = {}]
        /\ d = [tests |-> d.tests, results |-> d.results, pointed |-> d.pointed, label |-> d.label]
    BY <1>1 DEF Tables
  <2>2. d.results \in [Tests -> SUBSET Result]
    BY <1>1, <2>1 DEF Tables
  <2>3. d \in Tables
    BY <1>1, <2>1, <2>2 DEF Tables
  <2>4. d.results[t] = {} /\ \A s \in Tests : s # t => d.results[s] = db.results[s]
    BY <1>1, <2>1 DEF Tables
  <2> QED BY <1>1, <2>1, <2>3, <2>4 DEF Justified
<1>5. ASSUME NEW t \in Tests
      PROVE  Justified([db EXCEPT !.tests[t] = None, !.results[t] = {}], won)
  <2> DEFINE d == [db EXCEPT !.tests[t] = None, !.results[t] = {}]
             T == [db.tests EXCEPT ![t] = None]
             R == [db.results EXCEPT ![t] = {}]
  <2>0. d = [db EXCEPT !.tests = T, !.results = R]
    BY <1>1 DEF Tables
  <2>1. d.pointed = db.pointed /\ d.label = db.label /\ d.tests = T /\ d.results = R
    BY <1>1, <2>0 DEF Tables
  <2>2. R \in [Tests -> SUBSET Result] /\ T \in [Tests -> TestRow \union {None}]
    BY <1>1 DEF Tables
  <2>3. d \in Tables
    <3> HIDE DEF T, R
    <3> QED BY <1>1, <2>0, <2>2 DEF Tables
  <2>4. /\ d.results[t] = {} /\ d.tests[t] = None
        /\ \A s \in Tests : s # t => d.results[s] = db.results[s] /\ d.tests[s] = db.tests[s]
    BY <1>1, <2>1 DEF Tables
  <2> QED BY <1>1, <2>1, <2>3, <2>4 DEF Justified
<1> QED BY <1>2, <1>3, <1>4, <1>5

\* A step that no request takes.
LEMMA NoCall ==
    ASSUME IInv, Justified(db', won), UNCHANGED <<backend, saved, call, turn, audited, won, faults>>,
           now' \in 0..MaxTime, versions' \in [Versions -> 0..MaxTime \union {None}],
           used' \in SUBSET Tests
    PROVE  IInv'
  BY DEF IInv, TypeOK, Justified

LEMMA PromoteKeeps ==
    ASSUME IInv, NEW c \in Calls,
           \/ PromoteReads(c) \/ PromoteFindsRow(c) \/ PromotePoints(c) \/ PromoteRecords(c)
           \/ PromoteCommits(c) \/ CommitFails(c)
    PROVE  IInv'
<1> DEFINE t == call[c].test
           v == call[c].got
<1> USE DEF Promoting, Labels
<1>1. CallJustified(call[c], won) /\ audited \subseteq won /\ won \subseteq Tests \X Versions
      /\ db \in Tables /\ Justified(db, won)
  BY DEF IInv, TypeOK
<1>2. CASE PromoteReads(c)
  <2>1. t \in Tests
    BY <1>1, <1>2 DEF PromoteReads, At, CallJustified
  <2>2. CASE Throw(c)
    BY <1>1, <1>2, <2>2, CallThrows DEF PromoteReads, IInv, TypeOK
  <2>3. CASE ~Throw(c)
    <3> DEFINE u(r) == VersionOf(t, r.winner)
               rec(r) == [next |-> IF u(r) = None THEN "commit" ELSE "row", test |-> t, got |-> u(r)]
    <3>1. PICK r \in Latest(t) : GoOn(c, rec(r)) /\ UNCHANGED <<db, saved>>
      BY <1>2, <2>3 DEF PromoteReads
    <3>2. r \in db.results[t] /\ db.tests[t] \in TestRow
      BY <1>1, <2>1, <3>1 DEF Latest, Justified, Tables
    <3>3. u(r) # None => u(r) \in Versions /\ <<t, u(r)>> \in won
      BY <1>1, <2>1, <3>2 DEF VersionOf, Justified, TestRow
    <3>4. CallJustified(rec(r), won)
      BY <2>1, <3>3 DEF CallJustified, CallState, Statements
    <3> QED BY <1>1, <1>2, <3>1, <3>4, CallOnly DEF PromoteReads
  <2> QED BY <2>2, <2>3
<1>3. CASE PromoteFindsRow(c)
  <2> DEFINE rec == [call[c] EXCEPT !.next = IF v \in Active THEN "pointer" ELSE "record"]
  <2>1. GoOn(c, rec)
    BY <1>3 DEF PromoteFindsRow, Then
  <2>2. v \in Versions /\ t \in Tests /\ <<t, v>> \in won
    BY <1>1, <1>3, ExperimentsAssumption DEF PromoteFindsRow, At, CallJustified
  <2>3. CallJustified(rec, won)
    <3>1. rec \in CallState /\ rec.test = t /\ rec.got = v /\ rec.next \in {"pointer", "record"}
      BY <1>1, <1>3, <2>2 DEF PromoteFindsRow, At, CallJustified, CallState, Statements, Idle, Done
    <3> QED BY <2>2, <3>1 DEF CallJustified
  <2> QED BY <1>1, <1>3, <2>1, <2>3, CallOnly DEF PromoteFindsRow
<1>4. CASE PromotePoints(c)
  <2> DEFINE rec == [call[c] EXCEPT !.next = "record"]
  <2>1. GoOn(c, rec) /\ t \in Tests /\ v \in Versions /\ <<t, v>> \in won
    BY <1>1, <1>4, ExperimentsAssumption DEF PromotePoints, Then, At, CallJustified
  <2>2. CallJustified(rec, won')
    BY <1>1, <1>4, <2>1 DEF PromotePoints, At, CallJustified, CallState, Statements, Idle, Done
  <2>3. Justified(db', won')
    <3>1. db.pointed \union {v} \in SUBSET Versions
      BY <1>1, <2>1 DEF Tables
    <3>2. \A x \in db.pointed \union {v} : \E s \in Tests : <<s, x>> \in won
      BY <1>1, <2>1 DEF Justified
    <3> QED BY <1>4, <3>1, <3>2, OtherTables DEF PromotePoints
  <2> QED BY <1>1, <1>4, <2>1, <2>2, <2>3, CallWrites DEF PromotePoints
<1>5. CASE PromoteRecords(c)
  <2> DEFINE rec == [call[c] EXCEPT !.next = "label prompt"]
  <2>1. GoOn(c, rec) /\ t \in Tests /\ v \in Versions /\ <<t, v>> \in won
    BY <1>1, <1>5, ExperimentsAssumption DEF PromoteRecords, Then, At, CallJustified
  <2>2. CallJustified(rec, won')
    BY <1>1, <1>5, <2>1 DEF PromoteRecords, At, CallJustified, CallState, Statements, Idle, Done
  <2>3. Justified(db', won')
    BY <1>5, <2>1, Updated DEF PromoteRecords
  <2> QED BY <1>1, <1>5, <2>1, <2>2, <2>3, CallWrites DEF PromoteRecords
<1>6. ASSUME At(c, "commit"), Enqueue(c) PROVE audited' \subseteq won
  BY <1>1, <1>6 DEF At, Enqueue, CallJustified
<1>7. CASE PromoteCommits(c)
  <2>1. GoOn(c, Done) /\ saved' = None
    BY <1>7 DEF PromoteCommits, Return
  <2> QED BY <1>6, <1>7, <2>1, DoneJustified, CallOnly DEF PromoteCommits
<1>8. CASE CommitFails(c)
  <2>1. faults' \in 0..MaxFaults
    BY <1>8, ExperimentsAssumption DEF CommitFails, IInv, TypeOK
  <2> QED BY <1>6, <1>8, <2>1, CallThrows DEF CommitFails
<1> QED BY <1>2, <1>3, <1>4, <1>5, <1>7, <1>8

LEMMA LabelKeeps ==
    ASSUME IInv, NEW c \in Calls, LabelFindsPrompt(c) \/ LabelFindsVersion(c) \/ LabelWrites(c)
    PROVE  IInv'
<1> DEFINE v == call[c].got
<1> USE DEF Promoting, Labels
<1>1. CallJustified(call[c], won) /\ audited \subseteq won /\ won \subseteq Tests \X Versions
      /\ faults \in 0..MaxFaults
  BY DEF IInv, TypeOK
<1>2. CASE LabelFindsPrompt(c)
  <2> DEFINE rec == [call[c] EXCEPT !.next = "label version"]
  <2>1. CASE Active # {}
    <3>1. GoOn(c, rec) /\ UNCHANGED <<db, saved>>
      BY <1>2, <2>1 DEF LabelFindsPrompt, Then
    <3>2. CallJustified(rec, won)
      BY <1>1, <1>2 DEF LabelFindsPrompt, At, CallJustified, CallState, Statements, Idle, Done
    <3> QED BY <1>1, <1>2, <3>1, <3>2, CallOnly DEF LabelFindsPrompt
  <2>2. CASE Active = {}
    BY <1>1, <1>2, <2>2, CallThrows DEF LabelFindsPrompt
  <2> QED BY <2>1, <2>2
<1>3. CASE LabelFindsVersion(c)
  <2>1. CASE Throw(c)
    BY <1>1, <1>3, <2>1, CallThrows DEF LabelFindsVersion
  <2>2. CASE ~Throw(c)
    <3> DEFINE rec(u) == [call[c] EXCEPT !.next = "label write", !.got = u]
    <3>1. PICK u \in LabelVersions(v) : GoOn(c, rec(u)) /\ UNCHANGED <<db, saved>>
      BY <1>3, <2>2 DEF LabelFindsVersion
    <3>2. u \in Versions /\ (v # None => u = v)
      BY <3>1 DEF LabelVersions, Newest, Active
    <3>3. CallJustified(rec(u), won)
      BY <1>1, <1>3, <3>2, ExperimentsAssumption
         DEF LabelFindsVersion, At, CallJustified, CallState, Statements, Idle, Done
    <3> QED BY <1>1, <1>3, <3>1, <3>3, CallOnly DEF LabelFindsVersion
  <2> QED BY <2>1, <2>2
<1>4. CASE LabelWrites(c)
  <2>1. v \in Versions /\ Justified(db', won')
    BY <1>1, <1>4, OtherTables DEF LabelWrites, At, CallJustified
  <2>2. CASE call[c].test = None
    <3>1. GoOn(c, Done) /\ saved' = None
      BY <1>4, <2>2 DEF LabelWrites, Return
    <3> QED BY <1>1, <1>4, <2>1, <3>1, DoneJustified, CallWrites DEF LabelWrites
  <2>3. CASE call[c].test # None
    <3> DEFINE rec == [call[c] EXCEPT !.next = "commit"]
    <3>1. GoOn(c, rec) /\ UNCHANGED saved
      BY <1>4, <2>3 DEF LabelWrites, Then
    <3>2. CallJustified(rec, won')
      BY <1>1, <1>4, <2>3 DEF LabelWrites, At, CallJustified, CallState, Statements, Idle, Done
    <3> QED BY <1>1, <1>4, <2>1, <3>1, <3>2, CallWrites DEF LabelWrites
  <2> QED BY <2>2, <2>3
<1> QED BY <1>2, <1>3, <1>4

-----------------------------------------------------------------------------
(* SQLite: a promotion is all or nothing.                                   *)

\* Each promotion in the tables d has its pointer, and each pointer its entry.
Whole(d, entries) ==
    /\ \A t \in Tests : d.tests[t] # None /\ d.tests[t].promoted # None =>
          d.tests[t].promoted \in d.pointed /\ <<t, d.tests[t].promoted>> \in entries
    /\ \A v \in d.pointed : \E t \in Tests : <<t, v>> \in entries

\* rec is a request between promoteWinner's BEGIN and its COMMIT.
InPromotion(rec) ==
    \/ rec.next \in {"result", "commit"} \union Promoting
    \/ rec.next \in Labels /\ rec.test # None

\* The audit entry that it will enqueue.
Entry(rec) == {rec.test} \X ({rec.got} \ {None})

\* How far it has come: from the pointer on the tables are whole but for its entry, unless
\* its version has no active row, and then the label will refuse it.
SoFar(rec, d, act, entries) ==
    /\ rec.next \in {"result", "row", "pointer"} => Whole(d, entries)
    /\ rec.next \in {"pointer", "label write"} => rec.got \in act
    /\ rec.next = "commit" => rec.got \in act \union {None}
    /\ rec.next \in {"record", "commit"} \union Labels /\ rec.got \in act =>
          rec.got \in d.pointed /\ Whole(d, entries \union Entry(rec))
    /\ rec.next = "commit" /\ rec.got = None => Whole(d, entries)

\* One request at a time is in its chain, and only a promotion has a transaction open;
\* what others would see, and what a rollback brings back, is whole.
OneChain ==
    backend = "sqlite" =>
        /\ \A c \in Calls : call[c] \in {Idle, Done} \/ turn = c
        /\ turn = Free => saved = None
        /\ \A c \in Calls : turn = c => (saved # None <=> InPromotion(call[c]))
        /\ Whole(IF saved = None THEN db ELSE saved, audited)
        /\ \A c \in Calls : InPromotion(call[c]) => SoFar(call[c], db, Active, audited)

LEMMA MoreEntries ==
    ASSUME NEW d, NEW w, NEW x, w \subseteq x, Whole(d, w) PROVE Whole(d, x)
<1>1. \A v \in d.pointed : \E t \in Tests : <<t, v>> \in x
  BY DEF Whole
<1> QED BY <1>1 DEF Whole

LEMMA EndNext == Done.next = "done" /\ Idle.next = "idle"
  BY DEF Done, Idle

LEMMA NotInPromotion == ~InPromotion(Idle) /\ ~InPromotion(Done)
  BY DEF InPromotion, Idle, Done, Promoting, Labels

\* The request whose statement runs is the only one in its chain.
LEMMA Alone ==
    ASSUME OneChain, backend = "sqlite", NEW c \in Calls, turn \in {Free, c}
    PROVE  /\ \A b \in Calls \ {c} : call[b] \in {Idle, Done}
           /\ call[c] \notin {Idle, Done} => turn = c
           /\ turn = Free => saved = None /\ Whole(db, audited)
  BY ExperimentsAssumption DEF OneChain

\* It goes on with rec, or returns.
LEMMA ChainGoesOn ==
    ASSUME IInv, OneChain, backend = "sqlite", NEW c \in Calls, turn \in {Free, c},
           NEW rec, GoOn(c, rec), UNCHANGED backend,
           Whole(IF saved' = None THEN db' ELSE saved', audited'),
           rec = Done => saved' = None,
           rec # Done => (saved' # None <=> InPromotion(rec)),
           InPromotion(rec) => SoFar(rec, db', Active', audited')
    PROVE  OneChain'
<1>1. \A b \in Calls \ {c} : call[b] \in {Idle, Done}
  BY Alone
<1>2. /\ call'[c] = rec
      /\ \A b \in Calls \ {c} : call'[b] = call[b]
      /\ turn' = IF rec = Done THEN Free ELSE c
  BY DEF GoOn, IInv, TypeOK
<1>3. \A b \in Calls : call'[b] \in {Idle, Done} \/ turn' = b
  BY <1>1, <1>2
<1>4. turn' = Free => saved' = None
  BY <1>2, ExperimentsAssumption
<1>5. \A b \in Calls : turn' = b => (saved' # None <=> InPromotion(call'[b]))
  BY <1>2, ExperimentsAssumption
<1>6. \A b \in Calls : InPromotion(call'[b]) => SoFar(call'[b], db', Active', audited')
  BY <1>1, <1>2, NotInPromotion
<1> QED BY <1>3, <1>4, <1>5, <1>6 DEF OneChain

\* A step between two chains.
LEMMA ChainRests ==
    ASSUME OneChain, turn = Free, Whole(db, audited) => Whole(db', audited),
           UNCHANGED <<backend, saved, call, turn, audited>>
    PROVE  OneChain'
<1> SUFFICES ASSUME backend = "sqlite" PROVE OneChain'
  BY DEF OneChain
<1>1. saved = None /\ Whole(db', audited) /\ \A c \in Calls : call[c] \in {Idle, Done}
  BY ExperimentsAssumption DEF OneChain
<1> QED BY <1>1, NotInPromotion, ExperimentsAssumption DEF OneChain

LEMMA ChainThrows ==
    ASSUME IInv, OneChain, NEW c \in Calls, turn \in {Free, c}, Throw(c),
           audited \subseteq audited', UNCHANGED backend
    PROVE  OneChain'
<1> SUFFICES ASSUME backend = "sqlite" PROVE OneChain'
  BY DEF OneChain
<1>1. GoOn(c, Done) /\ saved' = None /\ db' = IF saved = None THEN db ELSE saved
  BY DEF Throw, Return
<1>2. Whole(db', audited')
  BY <1>1, MoreEntries DEF OneChain
<1> QED BY <1>1, <1>2, NotInPromotion, ChainGoesOn


\* The statements of a promotion.
LEMMA PromoteChain ==
    ASSUME IInv, OneChain, backend = "sqlite", NEW c \in Calls,
           \/ PromoteReads(c) \/ PromoteFindsRow(c) \/ PromotePoints(c) \/ PromoteRecords(c)
           \/ PromoteCommits(c) \/ CommitFails(c)
    PROVE  OneChain'
<1> DEFINE t == call[c].test
           v == call[c].got
<1> USE DEF Promoting, Labels
<1>1. /\ CallJustified(call[c], won) /\ db \in Tables /\ UNCHANGED <<backend, versions>>
      /\ turn \in {Free, c} /\ call[c].next \in {"result", "commit"} \union Promoting
  BY DEF IInv, TypeOK, PromoteReads, PromoteFindsRow, PromotePoints, PromoteRecords,
         PromoteCommits, CommitFails, At
<1>2. /\ InPromotion(call[c]) /\ turn = c /\ saved # None /\ Whole(saved, audited)
      /\ SoFar(call[c], db, Active, audited) /\ Active' = Active
  <2>1. InPromotion(call[c])
    BY <1>1 DEF InPromotion
  <2>2. call[c] # Idle /\ call[c] # Done
    BY <1>1, EndNext
  <2> QED BY <1>1, <2>1, <2>2 DEF OneChain, Active
<1>3. CASE PromoteReads(c)
  <2>1. CASE Throw(c)
    BY <1>1, <1>3, <2>1, ChainThrows DEF PromoteReads
  <2>2. CASE ~Throw(c)
    <3> DEFINE u(r) == VersionOf(t, r.winner)
               rec(r) == [next |-> IF u(r) = None THEN "commit" ELSE "row", test |-> t, got |-> u(r)]
    <3>1. PICK r \in Latest(t) : GoOn(c, rec(r)) /\ UNCHANGED <<db, saved, audited>>
      BY <1>3, <2>2 DEF PromoteReads
    <3>2. Whole(db, audited)
      BY <1>2, <1>3 DEF SoFar, PromoteReads, At
    <3>3. InPromotion(rec(r)) /\ rec(r) # Done
      BY DEF InPromotion, Done
    <3>4. SoFar(rec(r), db, Active, audited)
      <4>1. u(r) \notin Active \/ u(r) # None
        BY ExperimentsAssumption DEF Active
      <4> QED BY <3>2, <4>1 DEF SoFar
    <3> QED BY <1>1, <1>2, <3>1, <3>3, <3>4, ChainGoesOn
  <2> QED BY <2>1, <2>2
<1>4. CASE PromoteFindsRow(c)
  <2> DEFINE rec == [call[c] EXCEPT !.next = IF v \in Active THEN "pointer" ELSE "record"]
  <2>1. GoOn(c, rec) /\ UNCHANGED <<db, saved, audited>> /\ Whole(db, audited)
    BY <1>2, <1>4 DEF PromoteFindsRow, Then, At, SoFar
  <2>2. /\ rec.next = IF v \in Active THEN "pointer" ELSE "record"
        /\ rec.got = v /\ rec.test = t
    BY <1>1 DEF CallJustified, CallState, Idle, Done
  <2> HIDE DEF rec
  <2>3. SoFar(rec, db, Active, audited) /\ InPromotion(rec) /\ rec # Done
    BY <2>1, <2>2 DEF SoFar, InPromotion, Done
  <2> QED BY <1>1, <1>2, <2>1, <2>3, ChainGoesOn
<1>5. CASE PromotePoints(c)
  <2> DEFINE rec == [call[c] EXCEPT !.next = "record"]
  <2>1. GoOn(c, rec) /\ UNCHANGED <<saved, audited>> /\ Whole(db, audited) /\ v \in Active
    BY <1>2, <1>5 DEF PromotePoints, Then, At, SoFar
  <2>2. rec.next = "record" /\ rec.got = v /\ rec.test = t
    BY <1>1 DEF CallJustified, CallState, Idle, Done
  <2> HIDE DEF rec
  <2>3. db'.pointed = db.pointed \union {v} /\ db'.tests = db.tests
    BY <1>1, <1>5 DEF PromotePoints, Tables
  <2>4. t \in Tests /\ v # None
    BY <1>1, <1>5, <2>1, ExperimentsAssumption DEF CallJustified, PromotePoints, At, Active
  <2>5. Whole(db', audited \union Entry(rec))
    <3>1. <<t, v>> \in Entry(rec)
      BY <2>2, <2>4 DEF Entry
    <3>2. \A u \in db'.pointed : \E s \in Tests : <<s, u>> \in audited \union Entry(rec)
      BY <2>1, <2>3, <2>4, <3>1 DEF Whole
    <3> QED BY <2>1, <2>3, <3>2 DEF Whole
  <2>6. SoFar(rec, db', Active, audited) /\ InPromotion(rec) /\ rec # Done
    BY <2>2, <2>3, <2>5 DEF SoFar, InPromotion, Done
  <2> QED BY <1>1, <1>2, <2>1, <2>6, ChainGoesOn
<1>6. CASE PromoteRecords(c)
  <2> DEFINE rec == [call[c] EXCEPT !.next = "label prompt"]
  <2>1. GoOn(c, rec) /\ UNCHANGED <<saved, audited>>
    BY <1>6 DEF PromoteRecords, Then
  <2>2. rec.next = "label prompt" /\ rec.got = v /\ rec.test = t
    BY <1>1 DEF CallJustified, CallState, Idle, Done
  <2>3. t \in Tests /\ t # None /\ Entry(rec) = Entry(call[c])
    BY <1>1, <1>6, <2>2, ExperimentsAssumption DEF CallJustified, PromoteRecords, At, Entry
  <2> HIDE DEF rec
  <2>4. ASSUME v \in Active
        PROVE  v \in db'.pointed /\ Whole(db', audited \union Entry(rec))
    <3>1. v \in db.pointed /\ Whole(db, audited \union Entry(rec)) /\ <<t, v>> \in Entry(rec)
      BY <1>2, <1>6, <2>2, <2>3, <2>4, ExperimentsAssumption
         DEF SoFar, PromoteRecords, At, Entry, Active
    <3>2. /\ db'.pointed = db.pointed
          /\ \A s \in Tests \ {t} : db'.tests[s] = db.tests[s]
          /\ db'.tests[t] # None => db'.tests[t].promoted = v
      <4>1. CASE db.tests[t] = None
        BY <1>6, <2>3, <4>1 DEF PromoteRecords, UpdateTest
      <4>2. CASE db.tests[t] # None
        <5>1. db' = [db EXCEPT !.tests[t]["promoted"] = v] /\ db.tests[t] \in TestRow
          BY <1>1, <1>6, <2>3, <4>2 DEF PromoteRecords, UpdateTest, Tables
        <5> QED BY <1>1, <2>3, <5>1 DEF Tables, TestRow
      <4> QED BY <4>1, <4>2
    <3> QED BY <3>1, <3>2 DEF Whole
  <2>5. SoFar(rec, db', Active, audited)
    BY <2>2, <2>4 DEF SoFar
  <2>6. InPromotion(rec) /\ rec # Done
    BY <2>2, <2>3, EndNext DEF InPromotion
  <2> QED BY <1>1, <1>2, <2>1, <2>5, <2>6, ChainGoesOn
<1>7. CASE PromoteCommits(c)
  <2>1. GoOn(c, Done) /\ saved' = None /\ db' = db /\ audited' = audited \union Entry(call[c])
    BY <1>7 DEF PromoteCommits, Return, Enqueue, Entry
  <2>2. Whole(db', audited')
    <3>1. CASE v = None
      BY <1>2, <1>7, <2>1, <3>1, MoreEntries DEF SoFar, PromoteCommits, At
    <3>2. CASE v # None
      BY <1>2, <1>7, <2>1, <3>2 DEF SoFar, PromoteCommits, At
    <3> QED BY <3>1, <3>2
  <2> QED BY <1>1, <2>1, <2>2, NotInPromotion, ChainGoesOn
<1>8. CASE CommitFails(c)
  BY <1>1, <1>8, ChainThrows DEF CommitFails, Enqueue
<1> QED BY <1>3, <1>4, <1>5, <1>6, <1>7, <1>8

\* The label, by itself or as the end of a promotion.
LEMMA LabelChain ==
    ASSUME IInv, OneChain, backend = "sqlite", NEW c \in Calls,
           LabelFindsPrompt(c) \/ LabelFindsVersion(c) \/ LabelWrites(c)
    PROVE  OneChain'
<1> DEFINE t == call[c].test
           v == call[c].got
<1> USE DEF Promoting, Labels
<1>1. /\ CallJustified(call[c], won) /\ db \in Tables /\ UNCHANGED <<backend, versions, audited>>
      /\ turn \in {Free, c} /\ call[c].next \in Labels
  BY DEF IInv, TypeOK, LabelFindsPrompt, LabelFindsVersion, LabelWrites, At
<1>2. /\ turn = c /\ (saved # None <=> t # None) /\ (InPromotion(call[c]) <=> t # None)
      /\ Whole(IF saved = None THEN db ELSE saved, audited)
      /\ (t # None => SoFar(call[c], db, Active, audited)) /\ Active' = Active
  <2>1. InPromotion(call[c]) <=> t # None
    BY <1>1 DEF InPromotion
  <2>2. call[c] # Idle /\ call[c] # Done
    BY <1>1, EndNext
  <2> QED BY <1>1, <2>1, <2>2 DEF OneChain, Active
<1>3. CASE LabelFindsPrompt(c)
  <2> DEFINE rec == [call[c] EXCEPT !.next = "label version"]
  <2>1. CASE Active # {}
    <3>1. GoOn(c, rec) /\ UNCHANGED <<db, saved>>
      BY <1>3, <2>1 DEF LabelFindsPrompt, Then
    <3>2. rec.next = "label version" /\ rec.got = v /\ rec.test = t
      BY <1>1 DEF CallJustified, CallState, Idle, Done
    <3>3. Entry(rec) = Entry(call[c])
      BY <3>2 DEF Entry
    <3> HIDE DEF rec
    <3>4. rec # Done /\ (InPromotion(rec) <=> t # None)
      BY <3>2, EndNext DEF InPromotion
    <3>5. ASSUME t # None PROVE SoFar(rec, db, Active, audited)
      BY <1>2, <1>3, <3>2, <3>3, <3>5 DEF SoFar, LabelFindsPrompt, At
    <3> QED BY <1>1, <1>2, <3>1, <3>4, <3>5, ChainGoesOn
  <2>2. CASE Active = {}
    BY <1>1, <1>3, <2>2, ChainThrows DEF LabelFindsPrompt
  <2> QED BY <2>1, <2>2
<1>4. CASE LabelFindsVersion(c)
  <2>1. CASE Throw(c)
    BY <1>1, <1>4, <2>1, ChainThrows DEF LabelFindsVersion
  <2>2. CASE ~Throw(c)
    <3> DEFINE rec(u) == [call[c] EXCEPT !.next = "label write", !.got = u]
    <3>1. PICK u \in LabelVersions(v) : GoOn(c, rec(u)) /\ UNCHANGED <<db, saved>>
      BY <1>4, <2>2 DEF LabelFindsVersion
    <3> DEFINE rc == rec(u)
    <3>2. rc.next = "label write" /\ rc.got = u /\ rc.test = t
      BY <1>1 DEF CallJustified, CallState, Idle, Done
    <3>3. t # None => u = v /\ u \in Active
      BY <1>1, <1>4, <3>1, ExperimentsAssumption DEF LabelVersions, CallJustified, LabelFindsVersion, At
    <3>4. GoOn(c, rc)
      BY <3>1
    <3> HIDE DEF rc
    <3>5. t # None => Entry(rc) = Entry(call[c])
      BY <3>2, <3>3 DEF Entry
    <3>6. rc # Done /\ (InPromotion(rc) <=> t # None)
      BY <3>2, EndNext DEF InPromotion
    <3>7. ASSUME t # None PROVE SoFar(rc, db, Active, audited)
      BY <1>2, <1>4, <3>2, <3>3, <3>5, <3>7 DEF SoFar, LabelFindsVersion, At
    <3> QED BY <1>1, <1>2, <3>1, <3>4, <3>6, <3>7, ChainGoesOn
  <2> QED BY <2>1, <2>2
<1>5. CASE LabelWrites(c)
  <2>1. db'.tests = db.tests /\ db'.pointed = db.pointed
    BY <1>1, <1>5 DEF LabelWrites, Tables
  <2>2. \A w : Whole(db, w) => Whole(db', w)
    BY <2>1 DEF Whole
  <2>3. CASE t = None
    BY <1>1, <1>2, <1>5, <2>2, <2>3, NotInPromotion, ChainGoesOn DEF LabelWrites, Return
  <2>4. CASE t # None
    <3> DEFINE rec == [call[c] EXCEPT !.next = "commit"]
    <3>1. GoOn(c, rec) /\ UNCHANGED saved
      BY <1>5, <2>4 DEF LabelWrites, Then
    <3>2. rec.next = "commit" /\ rec.got = v /\ rec.test = t
      BY <1>1 DEF CallJustified, CallState, Idle, Done
    <3>3. Entry(rec) = Entry(call[c])
      BY <3>2 DEF Entry
    <3> HIDE DEF rec
    <3>4. v \in Active /\ v # None /\ v \in db.pointed /\ Whole(db, audited \union Entry(rec))
      BY <1>1, <1>2, <1>5, <2>4, <3>3, ExperimentsAssumption
         DEF SoFar, LabelWrites, At, CallJustified
    <3>5. rec # Done /\ InPromotion(rec) /\ SoFar(rec, db', Active, audited)
      BY <2>1, <2>2, <3>2, <3>4 DEF SoFar, InPromotion, Done
    <3> QED BY <1>1, <1>2, <2>4, <3>1, <3>5, ChainGoesOn
  <2> QED BY <2>3, <2>4
<1> QED BY <1>3, <1>4, <1>5

-----------------------------------------------------------------------------
THEOREM StepIInv == IInv /\ [Next]_vars => IInv'
<1> SUFFICES ASSUME IInv, [Next]_vars PROVE IInv'
  OBVIOUS
<1> USE DEF Promoting, Labels
<1>0. /\ Justified(db, won) /\ TypeOK /\ audited \subseteq won /\ db \in Tables
      /\ \A c \in Calls : CallJustified(call[c], won)
  BY DEF IInv, TypeOK
<1>1. ASSUME NEW t \in Tests, NEW a \in Versions, NEW b \in Versions, NEW e \in Evaluations,
             CreateTest(t, a, b, e)
      PROVE  IInv'
  <2> DEFINE row == [a |-> a, b |-> b, eval |-> e, status |-> "running", promoted |-> None]
  <2>1. row \in TestRow /\ row.promoted = None
    BY DEF TestRow
  <2>2. db.tests[t] = None
    BY <1>1 DEF CreateTest
  <2>3. Justified(db', won)
    BY <1>0, <1>1, <2>1, <2>2, RowWritten DEF CreateTest, Justified
  <2> QED BY <1>0, <1>1, <2>3, NoCall DEF CreateTest, TypeOK
<1>2. ASSUME NEW c \in Calls, NEW t \in Tests, RunReads(c, t) PROVE IInv'
  BY <1>2, RunReadsKeeps
<1>3. ASSUME NEW c \in Calls, NEW t \in Tests, PromoteBegins(c, t) PROVE IInv'
  <2> DEFINE rec == [next |-> "result", test |-> t, got |-> None]
  <2>1. GoOn(c, rec) /\ (saved' = db \/ saved' = None)
    BY <1>3 DEF PromoteBegins
  <2>2. CallJustified(rec, won)
    BY DEF CallJustified, CallState, Statements
  <2> QED BY <1>0, <1>3, <2>1, <2>2, CallOnly DEF PromoteBegins
<1>4. ASSUME NEW c \in Calls, NEW t \in Tests, DeletesResults(c, t) PROVE IInv'
  <2> DEFINE rec == [next |-> "delete", test |-> t, got |-> None]
  <2>1. CallJustified(rec, won')
    BY DEF CallJustified, CallState, Statements
  <2>2. Justified(db', won')
    BY <1>4, OtherTables DEF DeletesResults
  <2> QED BY <1>0, <1>4, <2>1, <2>2, CallWrites DEF DeletesResults, TypeOK
<1>5. ASSUME NEW c \in Calls, NEW v \in Versions \union {None}, LabelBegins(c, v) PROVE IInv'
  <2> DEFINE rec == [next |-> "label prompt", test |-> None, got |-> v]
  <2>1. CallJustified(rec, won)
    BY DEF CallJustified, CallState, Statements
  <2> QED BY <1>0, <1>5, <2>1, CallOnly DEF LabelBegins
<1>6. ASSUME NEW c \in Calls, CallStep(c) PROVE IInv'
  <2>1. CASE RunInserts(c)
    BY <2>1, RunInsertsKeeps
  <2>2. CASE RunCompletes(c)
    <3>1. Justified(db', won')
      BY <1>0, <2>2, Updated DEF RunCompletes, At, CallJustified
    <3> QED BY <1>0, <2>2, <3>1, DoneJustified, CallWrites DEF RunCompletes, Return, TypeOK
  <2>3. CASE DeletesTest(c)
    <3>1. Justified(db', won')
      BY <1>0, <2>3, OtherTables DEF DeletesTest, At, CallJustified
    <3> QED BY <1>0, <2>3, <3>1, DoneJustified, CallWrites DEF DeletesTest, Return, TypeOK
  <2>4. CASE StatementFails(c)
    <3>1. faults' \in 0..MaxFaults
      BY <1>0, <2>4, ExperimentsAssumption DEF StatementFails, TypeOK
    <3> QED BY <1>0, <2>4, <3>1, CallThrows DEF StatementFails
  <2> QED BY <1>6, <2>1, <2>2, <2>3, <2>4, PromoteKeeps, LabelKeeps DEF CallStep
<1>7. ASSUME DeleteLabel PROVE IInv'
  BY <1>0, <1>7, OtherTables, NoCall DEF DeleteLabel, TypeOK
<1>8. ASSUME NEW t \in Tests, DeleteEvaluation(t) PROVE IInv'
  <2> DEFINE row == [db.tests[t] EXCEPT !.eval = NoEval]
  <2>1. db.tests[t] \in TestRow
    BY <1>0, <1>8 DEF DeleteEvaluation, Tables
  <2>2. /\ row \in TestRow /\ row.a = db.tests[t].a /\ row.b = db.tests[t].b
        /\ row.promoted = db.tests[t].promoted
    BY <2>1 DEF TestRow, Evaluations
  <2>3. db' = [db EXCEPT !.tests[t] = row]
    BY <1>8 DEF DeleteEvaluation
  <2>4. /\ db.tests[t].promoted # None => <<t, db.tests[t].promoted>> \in won
        /\ \A r \in db.results[t] : /\ r.winner = "A" => <<t, db.tests[t].a>> \in won
                                    /\ r.winner = "B" => <<t, db.tests[t].b>> \in won
    BY <1>0, <1>8 DEF DeleteEvaluation, Justified
  <2>5. Justified(db', won)
    <3> HIDE DEF row
    <3> QED BY <2>2, <2>3, <2>4, RowWritten
  <2> QED BY <1>0, <1>8, <2>5, NoCall DEF DeleteEvaluation, TypeOK
<1>9. ASSUME NEW v \in Versions, RegistryActivates(v) PROVE IInv'
  <2>1. versions' \in [Versions -> 0..MaxTime \union {None}]
    <3>1. PICK at \in 0..now : versions' = [versions EXCEPT ![v] = at]
      BY <1>9 DEF RegistryActivates
    <3>2. at \in 0..MaxTime
      BY <1>0, ExperimentsAssumption DEF TypeOK
    <3> QED BY <1>0, <3>1, <3>2 DEF TypeOK
  <2> QED BY <1>0, <1>9, <2>1, NoCall DEF RegistryActivates, TypeOK
<1>10. ASSUME NEW v \in Versions, RegistryReopens(v) PROVE IInv'
  <2> DEFINE V == db.pointed \ {v}
  <2>1. Justified([db EXCEPT !.pointed = V], won)
    <3>1. V \in SUBSET Versions /\ \A x \in V : \E t \in Tests : <<t, x>> \in won
      BY <1>0 DEF Justified, Tables
    <3> HIDE DEF V
    <3> QED BY <3>1, OtherTables
  <2>2. Justified(db', won)
    BY <1>0, <1>10, <2>1 DEF RegistryReopens
  <2> QED BY <1>0, <1>10, <2>2, NoCall DEF RegistryReopens, TypeOK
<1>11. ASSUME Tick PROVE IInv'
  <2>1. now' \in 0..MaxTime
    BY <1>0, <1>11, ExperimentsAssumption DEF Tick, TypeOK
  <2> QED BY <1>0, <1>11, <2>1, NoCall DEF Tick, TypeOK
<1>12. ASSUME Crash PROVE IInv'
  <2>1. Justified(db', won') /\ saved' = None /\ db' \in Tables
    BY <1>0, <1>12 DEF Crash, IInv, Justified
  <2>2. \A c \in Calls : call'[c] \in {Idle, Done}
    BY <1>12 DEF Crash
  <2>3. \A c \in Calls : CallJustified(call'[c], won')
    BY <2>2, DoneJustified
  <2>4. call' \in [Calls -> CallState]
    BY <1>12 DEF Crash, CallState
  <2>5. faults' \in 0..MaxFaults
    BY <1>0, <1>12, ExperimentsAssumption DEF Crash, TypeOK
  <2> QED BY <1>0, <1>12, <2>1, <2>3, <2>4, <2>5 DEF Crash, IInv, TypeOK
<1>13. ASSUME UNCHANGED vars PROVE IInv'
  BY <1>13 DEF IInv, TypeOK, vars
<1> QED BY <1>1, <1>2, <1>3, <1>4, <1>5, <1>6, <1>7, <1>8, <1>9, <1>10, <1>11, <1>12, <1>13
        DEF Next, Quiet

LEMMA BackendStays == [Next]_vars => UNCHANGED backend
<1> SUFFICES ASSUME [Next]_vars PROVE backend' = backend
  OBVIOUS
<1>1. ASSUME NEW c \in Calls, CallStep(c) PROVE backend' = backend
  BY <1>1 DEF CallStep, RunInserts, RunCompletes, PromoteReads, PromoteFindsRow, PromotePoints,
     PromoteRecords, PromoteCommits, CommitFails, LabelFindsPrompt, LabelFindsVersion,
     LabelWrites, DeletesTest, StatementFails
<1>2. ASSUME NEW c \in Calls, NEW t \in Tests,
             RunReads(c, t) \/ PromoteBegins(c, t) \/ DeletesResults(c, t)
      PROVE  backend' = backend
  BY <1>2 DEF RunReads, PromoteBegins, DeletesResults
<1>3. ASSUME NEW v \in Versions, RegistryActivates(v) \/ RegistryReopens(v) PROVE backend' = backend
  BY <1>3 DEF RegistryActivates, RegistryReopens
<1> QED BY <1>1, <1>2, <1>3 DEF Next, vars, CreateTest, LabelBegins, DeleteLabel,
           DeleteEvaluation, Tick, Crash, Quiet

\* Each statement keeps the promise of the transaction.
LEMMA StepChain == IInv /\ OneChain /\ [Next]_vars => OneChain'
<1> SUFFICES ASSUME IInv, OneChain, [Next]_vars, backend = "sqlite" PROVE OneChain'
  BY BackendStays DEF OneChain
<1>0. /\ db \in Tables /\ saved \in Tables \union {None} /\ UNCHANGED backend
      /\ call \in [Calls -> CallState] /\ \A c \in Calls : CallJustified(call[c], won)
  BY BackendStays DEF IInv, TypeOK
<1>1. ASSUME NEW d, d.pointed = db.pointed,
             \A t \in Tests : d.tests[t] # None =>
                 d.tests[t].promoted = None \/ (db.tests[t] # None
                                                 /\ d.tests[t].promoted = db.tests[t].promoted)
      PROVE  \A w : Whole(db, w) => Whole(d, w)
  BY <1>1 DEF Whole
<1>2. ASSUME NEW t \in Tests, NEW a \in Versions, NEW b \in Versions, NEW e \in Evaluations,
             CreateTest(t, a, b, e)
      PROVE  OneChain'
  <2>1. db'.pointed = db.pointed /\ db'.tests[t].promoted = None
        /\ \A s \in Tests \ {t} : db'.tests[s] = db.tests[s]
    BY <1>0, <1>2 DEF CreateTest, Tables
  <2> QED BY <1>1, <1>2, <2>1, ChainRests DEF CreateTest
<1>3. ASSUME NEW c \in Calls, NEW t \in Tests, RunReads(c, t) PROVE OneChain'
  <2>1. PICK w : GoOn(c, [next |-> "insert", test |-> t, got |-> w])
    BY <1>3 DEF RunReads
  <2> DEFINE rec == [next |-> "insert", test |-> t, got |-> w]
  <2>2. rec.next = "insert" /\ GoOn(c, rec)
    BY <2>1
  <2> HIDE DEF rec
  <2>3. rec # Done /\ ~InPromotion(rec)
    BY <2>2, EndNext DEF InPromotion, Promoting, Labels
  <2> QED BY <1>0, <1>3, <2>2, <2>3, Alone, ChainGoesOn DEF RunReads, Idles, At
<1>4. ASSUME NEW c \in Calls, NEW t \in Tests, PromoteBegins(c, t) PROVE OneChain'
  <2> DEFINE rec == [next |-> "result", test |-> t, got |-> None]
  <2>1. rec.next = "result" /\ GoOn(c, rec) /\ saved' = db /\ db' = db /\ audited' = audited
    BY <1>4 DEF PromoteBegins
  <2> HIDE DEF rec
  <2>2. Whole(db, audited) /\ turn = Free /\ db # None
    BY <1>0, <1>4, Alone, NoneIsNoRow DEF PromoteBegins, Idles
  <2>3. rec # Done /\ InPromotion(rec) /\ SoFar(rec, db, Active', audited)
    BY <2>1, <2>2, EndNext DEF InPromotion, SoFar, Promoting, Labels
  <2> QED BY <1>0, <2>1, <2>2, <2>3, ChainGoesOn
<1>5. ASSUME NEW c \in Calls, NEW t \in Tests, DeletesResults(c, t) PROVE OneChain'
  <2> DEFINE rec == [next |-> "delete", test |-> t, got |-> None]
  <2>1. rec.next = "delete" /\ GoOn(c, rec) /\ saved' = saved /\ audited' = audited /\ turn = Free
    BY <1>5 DEF DeletesResults, Idles
  <2>2. db'.pointed = db.pointed /\ db'.tests = db.tests
    BY <1>0, <1>5 DEF DeletesResults, Tables
  <2>3. saved = None /\ Whole(db', audited)
    BY <1>1, <2>1, <2>2, Alone
  <2> HIDE DEF rec
  <2>4. rec # Done /\ ~InPromotion(rec)
    BY <2>1, EndNext DEF InPromotion, Promoting, Labels
  <2> QED BY <1>0, <2>1, <2>3, <2>4, ChainGoesOn
<1>6. ASSUME NEW c \in Calls, NEW v \in Versions \union {None}, LabelBegins(c, v) PROVE OneChain'
  <2> DEFINE rec == [next |-> "label prompt", test |-> None, got |-> v]
  <2>1. /\ rec.next = "label prompt" /\ rec.test = None /\ GoOn(c, rec) /\ turn = Free
        /\ UNCHANGED <<db, saved, audited>>
    BY <1>6 DEF LabelBegins, Idles
  <2> HIDE DEF rec
  <2>2. rec # Done /\ ~InPromotion(rec)
    BY <2>1, EndNext DEF InPromotion, Promoting, Labels
  <2> QED BY <1>0, <2>1, <2>2, Alone, ChainGoesOn
<1>7. ASSUME NEW c \in Calls, CallStep(c) PROVE OneChain'
  <2>1. ASSUME RunInserts(c) \/ RunCompletes(c) \/ DeletesTest(c)
        PROVE  turn = c /\ saved = None /\ Whole(db, audited) /\ audited' = audited
    <3>1. call[c].next \in {"insert", "status", "delete"} /\ turn \in {Free, c}
      BY <2>1 DEF RunInserts, RunCompletes, DeletesTest, At
    <3>2. call[c] \notin {Idle, Done} /\ ~InPromotion(call[c])
      BY <3>1, EndNext DEF InPromotion, Promoting, Labels
    <3> QED BY <2>1, <3>1, <3>2 DEF OneChain, RunInserts, RunCompletes, DeletesTest
  <2>2. CASE RunInserts(c)
    <3>1. CASE Throw(c)
      BY <1>0, <2>1, <2>2, <3>1, ChainThrows DEF RunInserts
    <3>2. CASE ~Throw(c)
      <4> DEFINE rec == [call[c] EXCEPT !.next = "status"]
      <4>1. GoOn(c, rec) /\ UNCHANGED saved
        BY <2>2, <3>2 DEF RunInserts, Then
      <4>2. rec.next = "status"
        <5>1. call[c] \in CallState
          BY <1>0
        <5> QED BY <5>1 DEF CallState, Idle, Done
      <4>3. db'.pointed = db.pointed /\ db'.tests = db.tests
        BY <1>0, <2>2, <3>2 DEF RunInserts, Tables
      <4>4. Whole(db', audited)
        BY <1>1, <2>1, <2>2, <4>3
      <4> HIDE DEF rec
      <4>5. rec # Done /\ ~InPromotion(rec)
        BY <4>2, EndNext DEF InPromotion, Promoting, Labels
      <4> QED BY <1>0, <2>1, <2>2, <4>1, <4>4, <4>5, ChainGoesOn
    <3> QED BY <3>1, <3>2
  <2>3. CASE RunCompletes(c)
    <3> DEFINE t == call[c].test
    <3>1. t \in Tests
      BY <1>0, <2>3 DEF CallJustified, RunCompletes, At
    <3>2. /\ db'.pointed = db.pointed
          /\ \A s \in Tests \ {t} : db'.tests[s] = db.tests[s]
          /\ db.tests[t] = None => db'.tests[t] = None
          /\ db.tests[t] # None => db'.tests[t].promoted = db.tests[t].promoted
      <4>1. CASE db.tests[t] = None
        BY <2>3, <3>1, <4>1 DEF RunCompletes, UpdateTest
      <4>2. CASE db.tests[t] # None
        <5>1. db' = [db EXCEPT !.tests[t]["status"] = "completed"] /\ db.tests[t] \in TestRow
          BY <1>0, <2>3, <3>1, <4>2 DEF RunCompletes, UpdateTest, Tables
        <5> QED BY <1>0, <3>1, <4>2, <5>1 DEF Tables, TestRow
      <4> QED BY <4>1, <4>2
    <3>3. Whole(db', audited)
      BY <1>1, <2>1, <2>3, <3>1, <3>2
    <3> QED BY <1>0, <2>1, <2>3, <3>3, NotInPromotion, ChainGoesOn DEF RunCompletes, Return
  <2>4. CASE DeletesTest(c)
    <3> DEFINE t == call[c].test
    <3>1. t \in Tests
      BY <1>0, <2>4 DEF CallJustified, DeletesTest, At
    <3>2. /\ db'.pointed = db.pointed /\ db'.tests[t] = None
          /\ \A s \in Tests \ {t} : db'.tests[s] = db.tests[s]
      BY <1>0, <2>4, <3>1 DEF DeletesTest, Tables
    <3>3. Whole(db', audited)
      BY <1>1, <2>1, <2>4, <3>1, <3>2
    <3> QED BY <1>0, <2>1, <2>4, <3>3, NotInPromotion, ChainGoesOn DEF DeletesTest, Return
  <2>5. CASE StatementFails(c)
    BY <1>0, <2>5, ChainThrows DEF StatementFails
  <2> QED BY <1>7, <2>2, <2>3, <2>4, <2>5, PromoteChain, LabelChain DEF CallStep
<1>8. ASSUME DeleteLabel PROVE OneChain'
  <2>1. db'.pointed = db.pointed /\ db'.tests = db.tests
    BY <1>0, <1>8 DEF DeleteLabel, Tables
  <2> QED BY <1>1, <1>8, <2>1, ChainRests DEF DeleteLabel
<1>9. ASSUME NEW t \in Tests, DeleteEvaluation(t) PROVE OneChain'
  <2>1. /\ db'.pointed = db.pointed /\ db'.tests[t].promoted = db.tests[t].promoted
        /\ \A s \in Tests \ {t} : db'.tests[s] = db.tests[s]
    <3>1. db.tests[t] \in TestRow
      BY <1>0, <1>9 DEF DeleteEvaluation, Tables
    <3> QED BY <1>0, <1>9, <3>1 DEF DeleteEvaluation, Tables, TestRow
  <2> QED BY <1>1, <1>9, <2>1, ChainRests DEF DeleteEvaluation
<1>10. ASSUME NEW v \in Versions, RegistryActivates(v) PROVE OneChain'
  BY <1>10, ChainRests DEF RegistryActivates
<1>11. CASE Tick
  BY <1>11, ChainRests DEF Tick
<1>12. CASE Crash
  <2>1. \A c \in Calls : call'[c] \in {Idle, Done}
    BY <1>12 DEF Crash
  <2>2. saved' = None /\ turn' = Free /\ audited' = audited /\ Whole(db', audited)
    BY <1>12 DEF Crash, OneChain
  <2> QED BY <2>1, <2>2, NotInPromotion, ExperimentsAssumption DEF OneChain
<1>13. CASE UNCHANGED vars
  BY <1>13 DEF OneChain, vars, Active
<1>14. ASSUME NEW v \in Versions, RegistryReopens(v) PROVE OneChain'
  BY <1>14 DEF RegistryReopens
<1> QED BY <1>2, <1>3, <1>4, <1>5, <1>6, <1>7, <1>8, <1>9, <1>10, <1>11, <1>12, <1>13, <1>14
        DEF Next, Quiet

LEMMA SpecIInv == Spec => []IInv
  BY InitIInv, StepIInv, PTL DEF Spec

LEMMA IInvGives == IInv => TypeOK /\ PromotedWon /\ NoOrphanResult
<1> SUFFICES ASSUME IInv PROVE PromotedWon /\ NoOrphanResult
  BY DEF IInv
<1>1. audited \subseteq won /\ Justified(db, won)
  BY DEF IInv
<1> QED BY <1>1 DEF PromotedWon, NoOrphanResult, Justified

\* Every reachable state is of the right type, for every number of tests, requests
\* and versions.
THEOREM TypeCorrect == Spec => []TypeOK
  BY SpecIInv, IInvGives, PTL

\* Whatever overlaps, fails or is rolled back, a version is pointed at, recorded or
\* audited as promoted only if a result of that test named it the winner.
THEOREM OnlyWinnersArePromoted == Spec => []PromotedWon
  BY SpecIInv, IInvGives, PTL

\* On SQLite, whatever statement fails or whenever the process stops, others see a promotion
\* with its pointer and its audit entry, or not at all.
THEOREM PromotionsAreWhole == Spec => []PromotionIsWhole
<1>1. Init => OneChain
  BY NotInPromotion, ExperimentsAssumption DEF Init, OneChain, Whole
<1>2. OneChain => PromotionIsWhole
  BY DEF OneChain, Whole, PromotionIsWhole
<1> QED BY <1>1, <1>2, SpecIInv, StepChain, PTL DEF Spec

\* However a run and a deletion overlap, no result is left without its test.
THEOREM ResultsHaveTests == Spec => []NoOrphanResult
  BY SpecIInv, IInvGives, PTL
=============================================================================
