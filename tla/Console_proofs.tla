--------------------------- MODULE Console_proofs ---------------------------
(***************************************************************************)
(* The records: Telemetry, for any number of clients, workspaces, ids and  *)
(* rows.                                                                   *)
(*                                                                         *)
(* That a span is in the workspace of its trace is not inductive: it rests *)
(* on what createSpan read before its INSERT, so the invariant says the    *)
(* same of the spans under way, and a deletion under way has announced its *)
(* id.  A trace created under an old id finds no span of the old one,      *)
(* because every span has a trace: the two properties are proved together. *)
(*                                                                         *)
(* The pages: Dashboard, for any number of rows, arguments, clicks and     *)
(* mutations.  What is shown is what was put into the cache before, so the *)
(* invariant is about every entry that is fresh or may be shown, and about *)
(* every answer on its way: an answer shows what the page was told of      *)
(* before it was read, and news finds every key that owes it.              *)
(***************************************************************************)
EXTENDS Telemetry, Dashboard, FiniteSetTheorems, SequenceTheorems, TLAPS

\* What a request half way knows: rec is its state, tr the traces, to the ids touched.
Knows(rec, tr, to) ==
    /\ rec.op = "insert span" =>
          \/ Row(rec.trace, rec.ws) \in tr
          \/ backend = "postgres" /\ rec.trace \in to
    /\ "op" \in DOMAIN rec
    /\ rec.op = "delete spans" => "id" \in DOMAIN rec
    /\ rec.op \in {"delete spans", "delete trace"} => rec.id \in to

RequestsKnow ==
    /\ DOMAIN req = Clients
    /\ \A c \in Clients : Knows(req[c], traces, touched)

\* The rows are records with these columns, and a trace id is there once.
Columns ==
    /\ \A t \in traces : t = Row(t.id, t.ws)
    /\ \A r \in runs : r = [id |-> r.id, trace |-> r.trace, ws |-> r.ws, status |-> r.status]
    /\ \A d \in datasets : d = Dataset(d.id, d.ws, d.count)
    /\ \A t, u \in traces : t.id = u.id => t = u

IInv == RequestsKnow /\ Columns /\ EveryChildHasParent /\ SpanInItsWorkspace

-----------------------------------------------------------------------------
LEMMA Idles == ASSUME NEW tr, NEW to PROVE Knows(NoRequest, tr, to)
  BY DEF Knows, NoRequest

\* A request goes on; the traces and the touched ids only grow.
LEMMA GoesOn ==
    ASSUME IInv, NEW c \in Clients, NEW rec, Goes(c, rec), Knows(rec, traces', touched'),
           traces \subseteq traces', touched \subseteq touched', UNCHANGED backend
    PROVE  RequestsKnow'
<1>1. DOMAIN req' = Clients
  BY DEF IInv, RequestsKnow, Goes
<1>2. ASSUME NEW d \in Clients PROVE Knows(req'[d], traces', touched')
  <2>1. CASE d = c
    BY <2>1 DEF IInv, RequestsKnow, Goes
  <2>2. CASE d # c
    BY <2>2 DEF IInv, RequestsKnow, Goes, Knows
  <2> QED BY <2>1, <2>2
<1> QED BY <1>1, <1>2 DEF RequestsKnow, Knows

\* A step that writes none of the tables with children.
LEMMA OnlyRequest ==
    ASSUME IInv, NEW c \in Clients, NEW rec, Goes(c, rec), Knows(rec, traces, touched'),
           UNCHANGED <<backend, traces, spans, runs, dataVars>>, touched \subseteq touched'
    PROVE  IInv'
<1>1. RequestsKnow'
  BY GoesOn
<1>2. Columns' /\ EveryChildHasParent'
  BY DEF IInv, Columns, EveryChildHasParent, HasId, Row, Dataset, dataVars
<1>3. SpanInItsWorkspace'
  BY DEF IInv, SpanInItsWorkspace
<1> QED BY <1>1, <1>2, <1>3 DEF IInv

-----------------------------------------------------------------------------
(* The steps about traces.                                                  *)

LEMMA CreateTraceKeeps == ASSUME IInv, NEW c \in Clients, CreateTrace(c) PROVE IInv'
<1>1. PICK id \in Ids, w \in Workspaces :
        traces' = IF HasId(traces, id) THEN traces ELSE traces \union {Row(id, w)}
  BY DEF CreateTrace
<1>2. Goes(c, NoRequest) /\ UNCHANGED <<backend, spans, runs, dataVars, touched>>
  BY DEF CreateTrace, Arrives, Ends
<1>3. RequestsKnow'
  BY <1>1, <1>2, GoesOn, Idles
<1>4. Columns'
  BY <1>1, <1>2 DEF IInv, Columns, HasId, Row, dataVars
<1>5. EveryChildHasParent'
  BY <1>1, <1>2 DEF IInv, EveryChildHasParent, HasId, dataVars
<1>6. SpanInItsWorkspace'
  BY <1>1, <1>2 DEF IInv, EveryChildHasParent, SpanInItsWorkspace, HasId, Row
<1> QED BY <1>3, <1>4, <1>5, <1>6 DEF IInv

\* The span under way has read its trace in its own workspace.
LEMMA CreateSpanKeeps == ASSUME IInv, NEW c \in Clients, CreateSpan(c) PROVE IInv'
<1>1. PICK id \in Ids, w \in Workspaces :
        Goes(c, IF Has(traces, id, w)
                THEN [op |-> "insert span", id |-> Fresh, trace |-> id, ws |-> w] ELSE NoRequest)
  BY DEF CreateSpan
<1>2. UNCHANGED <<backend, traces, spans, runs, dataVars, touched>>
  BY DEF CreateSpan, Arrives, traceVars
<1>3. Has(traces, id, w) => Row(id, w) \in traces
  BY DEF IInv, Columns, Has, Row
<1>4. Has(traces, id, w) =>
        Knows([op |-> "insert span", id |-> Fresh, trace |-> id, ws |-> w], traces, touched')
  BY <1>3 DEF Knows
<1> QED BY <1>1, <1>2, <1>4, OnlyRequest, Idles

\* Two traces of one id are one, so the trace the foreign key finds is the one that was read.
LEMMA InsertSpanKeeps == ASSUME IInv, NEW c \in Clients, InsertSpan(c) PROVE IInv'
<1> DEFINE s == [id |-> req[c].id, trace |-> req[c].trace, ws |-> req[c].ws]
<1>1. /\ req[c].op = "insert span" /\ Goes(c, NoRequest)
      /\ UNCHANGED <<backend, traces, runs, dataVars, touched>>
      /\ spans' = spans \/ (HasId(traces, s.trace) /\ spans' = spans \union {s})
  BY DEF InsertSpan, At, Ends
<1>2. RequestsKnow'
  BY <1>1, GoesOn, Idles
<1>3. Columns' /\ EveryChildHasParent'
  BY <1>1 DEF IInv, Columns, EveryChildHasParent, HasId, Row, Dataset, dataVars
<1>4. \/ Row(s.trace, s.ws) \in traces
      \/ backend = "postgres" /\ s.trace \in touched
  BY <1>1 DEF IInv, RequestsKnow, Knows
<1>5. \A t \in traces : s.trace = t.id => s.ws = t.ws \/ (backend = "postgres" /\ t.id \in touched)
  BY <1>4 DEF IInv, Columns, Row
<1>6. SpanInItsWorkspace'
  BY ZenonT(40), <1>1, <1>5 DEF IInv, SpanInItsWorkspace
<1> QED BY <1>2, <1>3, <1>6 DEF IInv

LEMMA DeleteTraceKeeps == ASSUME IInv, NEW c \in Clients, DeleteTrace(c) PROVE IInv'
<1>1. PICK id \in Ids, w \in Workspaces :
        IF Has(traces, id, w)
        THEN Goes(c, [op |-> "delete spans", id |-> id, ws |-> w]) /\ touched' = touched \union {id}
        ELSE Ends(c) /\ UNCHANGED touched
  BY DEF DeleteTrace
<1>2. UNCHANGED <<backend, traces, spans, runs, dataVars>>
  BY DEF DeleteTrace, Arrives, traceVars
<1>3. CASE Has(traces, id, w)
  <2>1. Knows([op |-> "delete spans", id |-> id, ws |-> w], traces, touched')
    BY <1>1, <1>3 DEF Knows
  <2>2. touched \subseteq touched'
    BY <1>1, <1>3
  <2> QED BY <1>1, <1>2, <1>3, <2>1, <2>2, OnlyRequest
<1>4. CASE ~Has(traces, id, w)
  BY <1>1, <1>2, <1>4, OnlyRequest, Idles DEF Ends
<1> QED BY <1>3, <1>4

LEMMA DeleteSpansKeeps == ASSUME IInv, NEW c \in Clients, DeleteSpans(c) PROVE IInv'
<1> DEFINE rec == [req[c] EXCEPT !.op = "delete trace"]
<1>1. /\ req[c].op = "delete spans" /\ Goes(c, rec)
      /\ spans' \subseteq spans
      /\ UNCHANGED <<backend, traces, runs, dataVars, touched>>
  BY DEF DeleteSpans, At
<1>2. {"op", "id"} \subseteq DOMAIN req[c] /\ req[c].id \in touched
  BY <1>1 DEF IInv, RequestsKnow, Knows
<1>3. "op" \in DOMAIN rec /\ rec.op = "delete trace" /\ rec.id = req[c].id
  BY <1>2
<1>4. Knows(rec, traces', touched')
  BY <1>1, <1>2, <1>3 DEF Knows
<1> HIDE DEF rec
<1>5. RequestsKnow'
  BY <1>1, <1>4, GoesOn
<1>6. Columns' /\ EveryChildHasParent' /\ SpanInItsWorkspace'
  BY <1>1 DEF IInv, Columns, EveryChildHasParent, SpanInItsWorkspace, HasId, Row, Dataset, dataVars
<1> QED BY <1>5, <1>6 DEF IInv

\* Whoever still awaits the insert of a span runs beside the deletion, so on PostgreSQL.
LEMMA DeleteTraceRowKeeps == ASSUME IInv, NEW c \in Clients, DeleteTraceRow(c) PROVE IInv'
<1> DEFINE id == req[c].id
           w == req[c].ws
<1>1. /\ req[c].op = "delete trace" /\ Turn(c) /\ Goes(c, NoRequest)
      /\ traces' = traces \ {Row(id, w)}
      /\ UNCHANGED <<backend, dataVars, touched>>
  BY DEF DeleteTraceRow, At, Ends
<1>2. id \in touched
  BY <1>1 DEF IInv, RequestsKnow, Knows
<1>3. /\ ~Has(traces, id, w) => traces' = traces /\ spans' = spans /\ runs' = runs
      /\ Has(traces, id, w) =>
           /\ spans' = {s \in spans : s.trace # id}
           /\ runs' = {IF r.trace = id THEN [r EXCEPT !.trace = None] ELSE r : r \in runs}
  <2>1. Row(id, w).id = id /\ Row(id, w).ws = w
    BY DEF Row
  <2>2. ~Has(traces, id, w) => traces' = traces
    BY <1>1, <2>1 DEF Has
  <2> QED BY <2>2 DEF DeleteTraceRow
<1>4. \A r \in runs' : /\ r = [id |-> r.id, trace |-> r.trace, ws |-> r.ws, status |-> r.status]
                       /\ r.trace = None \/ r.trace # id \/ ~Has(traces, id, w)
                       /\ r.trace = None \/ \E q \in runs : q.trace = r.trace
  <2>1. CASE ~Has(traces, id, w)
    BY <1>3, <2>1 DEF IInv, Columns
  <2>2. CASE Has(traces, id, w)
    <3> SUFFICES ASSUME NEW q \in runs,
                        NEW r, r = IF q.trace = id THEN [q EXCEPT !.trace = None] ELSE q
                 PROVE  /\ r = [id |-> r.id, trace |-> r.trace, ws |-> r.ws, status |-> r.status]
                        /\ r.trace = None \/ r.trace # id
                        /\ r.trace = None \/ r.trace = q.trace
      BY <1>3, <2>2
    <3>1. q = [id |-> q.id, trace |-> q.trace, ws |-> q.ws, status |-> q.status]
      BY DEF IInv, Columns
    <3>2. [q EXCEPT !.trace = None] = [id |-> q.id, trace |-> None, ws |-> q.ws, status |-> q.status]
      BY <3>1
    <3> QED BY <3>1, <3>2
  <2> QED BY <2>1, <2>2
<1>5. \A d \in Clients : Knows(req'[d], traces', touched')
  <2> TAKE d \in Clients
  <2>1. CASE d = c
    BY <1>1, <2>1, Idles DEF Goes, IInv, RequestsKnow
  <2>2. CASE d # c
    <3>1. req'[d] = req[d] /\ Knows(req[d], traces, touched)
      BY <1>1, <2>2 DEF IInv, RequestsKnow, Goes
    <3>2. req[d].op = "insert span" => backend = "postgres"
      BY <1>1, <2>2 DEF Turn, Free, Between
    <3> QED BY <1>1, <1>2, <3>1, <3>2 DEF Knows, Row
  <2> QED BY <2>1, <2>2
<1>6. RequestsKnow'
  BY <1>1, <1>5 DEF IInv, RequestsKnow, Goes, Knows
<1>7. Columns'
  BY <1>1, <1>4 DEF IInv, Columns, Row, Dataset, dataVars
<1>8. \A x : x # id /\ HasId(traces, x) => HasId(traces', x)
  <2> SUFFICES ASSUME NEW t \in traces, t.id # id PROVE t \in traces'
    BY DEF HasId
  <2>1. Row(id, w).id = id
    BY DEF Row
  <2> QED BY <1>1, <2>1
<1>9. EveryChildHasParent'
  <2>1. \A s \in spans' : HasId(traces', s.trace)
    BY <1>3, <1>8 DEF IInv, EveryChildHasParent
  <2>2. \A r \in runs' : r.trace = None \/ HasId(traces', r.trace)
    BY <1>3, <1>4, <1>8 DEF IInv, EveryChildHasParent
  <2> QED BY <1>1, <2>1, <2>2 DEF IInv, EveryChildHasParent, HasId, dataVars
<1>10. SpanInItsWorkspace'
  BY <1>1, <1>3 DEF IInv, SpanInItsWorkspace
<1> QED BY <1>6, <1>7, <1>9, <1>10 DEF IInv

-----------------------------------------------------------------------------
(* The steps about runs.                                                    *)

\* A step that writes the runs alone, each of them a row that has its trace.
LEMMA RunsOnly ==
    ASSUME IInv, NEW c \in Clients, Goes(c, NoRequest),
           UNCHANGED <<backend, traces, spans, dataVars, touched>>,
           \A r \in runs' : /\ r = [id |-> r.id, trace |-> r.trace, ws |-> r.ws, status |-> r.status]
                            /\ r.trace = None \/ HasId(traces, r.trace)
    PROVE  IInv'
<1>1. RequestsKnow'
  BY GoesOn, Idles
<1>2. Columns' /\ EveryChildHasParent' /\ SpanInItsWorkspace'
  BY DEF IInv, Columns, EveryChildHasParent, SpanInItsWorkspace, HasId, Row, Dataset, dataVars
<1> QED BY <1>1, <1>2 DEF IInv

LEMMA InsertRunKeeps == ASSUME IInv, NEW c \in Clients, InsertRun(c) PROVE IInv'
<1> DEFINE t == req[c].trace
           row == [id |-> req[c].id, trace |-> t, ws |-> req[c].ws, status |-> "running"]
<1>1. /\ Goes(c, NoRequest) /\ UNCHANGED <<backend, traces, spans, dataVars, touched>>
      /\ runs' = IF t = None \/ HasId(traces, t) THEN runs \union {row} ELSE runs
  BY DEF InsertRun, At, Ends
<1>2. \A r \in runs : /\ r = [id |-> r.id, trace |-> r.trace, ws |-> r.ws, status |-> r.status]
                      /\ r.trace = None \/ HasId(traces, r.trace)
  BY DEF IInv, Columns, EveryChildHasParent
<1> QED BY <1>1, <1>2, RunsOnly

LEMMA SetRunKeeps == ASSUME IInv, NEW c \in Clients, SetRun(c) PROVE IInv'
<1>1. /\ Goes(c, NoRequest) /\ UNCHANGED <<backend, traces, spans, dataVars, touched>>
      /\ runs' = {IF r.id = req[c].id /\ r.ws = req[c].ws THEN [r EXCEPT !.status = "failed"] ELSE r
                    : r \in runs}
  BY DEF SetRun, At, Ends
<1>2. \A r \in runs : /\ r = [id |-> r.id, trace |-> r.trace, ws |-> r.ws, status |-> r.status]
                      /\ r.trace = None \/ HasId(traces, r.trace)
                      /\ [r EXCEPT !.status = "failed"] =
                           [id |-> r.id, trace |-> r.trace, ws |-> r.ws, status |-> "failed"]
  BY DEF IInv, Columns, EveryChildHasParent
<1>3. \A r \in runs' : /\ r = [id |-> r.id, trace |-> r.trace, ws |-> r.ws, status |-> r.status]
                       /\ r.trace = None \/ HasId(traces, r.trace)
  <2> TAKE r \in runs'
  <2>1. PICK q \in runs : r = q \/ r = [q EXCEPT !.status = "failed"]
    BY <1>1
  <2>2. r = q \/ r = [id |-> q.id, trace |-> q.trace, ws |-> q.ws, status |-> "failed"]
    BY <1>2, <2>1
  <2> QED BY <1>2, <2>2
<1> QED BY <1>1, <1>3, RunsOnly

LEMMA RunStepKeeps == ASSUME IInv, NEW c \in Clients, RunStep(c) PROVE IInv'
<1>1. CASE CreateRun(c)
  <2>1. PICK id \in Ids \union {None}, w \in Workspaces :
          Goes(c, IF id # None /\ ~Has(traces, id, w) THEN NoRequest
                  ELSE [op |-> "insert run", id |-> Fresh, trace |-> id, ws |-> w])
    BY <1>1 DEF CreateRun
  <2>2. Knows([op |-> "insert run", id |-> Fresh, trace |-> id, ws |-> w], traces, touched)
    BY DEF Knows
  <2> QED BY <1>1, <2>1, <2>2, OnlyRequest, Idles DEF CreateRun, Arrives, traceVars
<1>2. CASE UpdateRun(c)
  <2>1. PICK r \in runs : Goes(c, [op |-> "update run", id |-> r.id, ws |-> r.ws])
    BY <1>2 DEF UpdateRun
  <2>2. Knows([op |-> "update run", id |-> r.id, ws |-> r.ws], traces, touched)
    BY DEF Knows
  <2> QED BY <1>2, <2>1, <2>2, OnlyRequest DEF UpdateRun, Arrives, traceVars
<1>3. CASE DeleteRun(c)
  <2>1. PICK r \in runs : Goes(c, [op |-> "delete run", id |-> r.id, ws |-> r.ws])
    BY <1>3 DEF DeleteRun
  <2>2. Knows([op |-> "delete run", id |-> r.id, ws |-> r.ws], traces, touched)
    BY DEF Knows
  <2> QED BY <1>3, <2>1, <2>2, OnlyRequest DEF DeleteRun, Arrives, traceVars
<1>4. CASE DeleteRunRow(c)
  <2>1. /\ runs' \subseteq runs /\ Goes(c, NoRequest)
        /\ UNCHANGED <<backend, traces, spans, dataVars, touched>>
    BY <1>4 DEF DeleteRunRow, At, Ends
  <2> QED BY <2>1, RunsOnly DEF IInv, Columns, EveryChildHasParent
<1> QED BY <1>1, <1>2, <1>3, <1>4, InsertRunKeeps, SetRunKeeps DEF RunStep

LEMMA TraceStepKeeps == ASSUME IInv, NEW c \in Clients, TraceStep(c) PROVE IInv'
  BY CreateTraceKeeps, CreateSpanKeeps, InsertSpanKeeps, DeleteTraceKeeps, DeleteSpansKeeps,
     DeleteTraceRowKeeps DEF TraceStep

-----------------------------------------------------------------------------
(* The steps about datasets and evaluations.                                *)

\* The parents of the rows about datasets and evaluations are there.
DataHasParents ==
    /\ \A i \in items : HasId(datasets, i.dataset)
    /\ \A r \in results : HasId(evaluations, r.evaluation)
    /\ \A r \in evalRuns : /\ HasId(evaluations, r.evaluation)
                           /\ r.dataset = None \/ HasId(datasets, r.dataset)

\* A step that leaves traces, spans and runs alone.
LEMMA DataOnly ==
    ASSUME IInv, NEW c \in Clients, NEW rec, Goes(c, rec), Knows(rec, traces, touched'),
           UNCHANGED <<backend, traceVars>>, touched \subseteq touched',
           \A d \in datasets' : d = Dataset(d.id, d.ws, d.count),
           DataHasParents'
    PROVE  IInv'
<1>1. RequestsKnow'
  BY GoesOn DEF traceVars
<1>2. Columns' /\ EveryChildHasParent'
  BY DEF IInv, Columns, EveryChildHasParent, DataHasParents, HasId, Row, Dataset, traceVars
<1>3. SpanInItsWorkspace'
  BY DEF IInv, SpanInItsWorkspace, traceVars
<1> QED BY <1>1, <1>2, <1>3 DEF IInv

LEMMA Fields ==
    /\ \A i, u, n : LET d == Dataset(i, u, n) IN d.id = i /\ d.ws = u /\ d.count = n
    /\ \A i, n, u : Item(i, n, u).dataset = i
  BY DEF Dataset, Item

LEMMA InData ==
    ASSUME IInv
    PROVE  DataHasParents /\ \A d \in datasets : d = Dataset(d.id, d.ws, d.count)
  BY DEF IInv, Columns, EveryChildHasParent, DataHasParents

LEMMA CreateDatasetKeeps == ASSUME IInv, NEW c \in Clients, CreateDataset(c) PROVE IInv'
<1>1. PICK w \in Workspaces :
        \/ /\ datasets' = datasets \union {Dataset(Fresh, w, Items)}
           /\ items' = items \union {Item(Fresh, n, w) : n \in 1..Items}
           /\ Goes(c, NoRequest)
        \/ /\ datasets' = datasets \union {Dataset(Fresh, w, 0)} /\ items' = items
           /\ Goes(c, IF Items = 0 THEN [op |-> "set count", id |-> Fresh, ws |-> w]
                      ELSE [op |-> "insert item", id |-> Fresh, ws |-> w, n |-> 1])
  BY DEF CreateDataset, Ends
<1>2. UNCHANGED <<backend, traceVars, evaluations, results, evalRuns, touched>>
  BY DEF CreateDataset, Arrives
<1>3. /\ Knows([op |-> "insert item", id |-> Fresh, ws |-> w, n |-> 1], traces, touched)
      /\ Knows([op |-> "set count", id |-> Fresh, ws |-> w], traces, touched)
  BY DEF Knows
<1>4. PICK rec : Goes(c, rec) /\ Knows(rec, traces, touched)
  BY <1>1, <1>3, Idles
<1>5. PICK n : datasets' = datasets \union {Dataset(Fresh, w, n)}
  BY <1>1
<1>6. /\ \A d \in datasets' : d = Dataset(d.id, d.ws, d.count)
      /\ \A x : HasId(datasets, x) => HasId(datasets', x)
      /\ HasId(datasets', Fresh)
  BY <1>5, InData, Fields DEF HasId
<1>7. \A i \in items' : i \in items \/ i.dataset = Fresh
  <2>1. \A i \in items' : i \in items \/ \E m : i = Item(Fresh, m, w)
    BY <1>1
  <2> QED BY <2>1, Fields
<1>8. DataHasParents'
  BY <1>2, <1>6, <1>7, InData DEF DataHasParents, HasId
<1> QED BY <1>2, <1>4, <1>6, <1>8, DataOnly

LEMMA InsertItemKeeps == ASSUME IInv, NEW c \in Clients, InsertItem(c) PROVE IInv'
<1> DEFINE r == req[c]
<1>1. /\ r.op = "insert item"
      /\ UNCHANGED <<backend, traceVars, datasets, evaluations, results, evalRuns, touched>>
      /\ \/ items' = items
         \/ HasId(datasets, r.id) /\ items' = items \union {Item(r.id, r.n, r.ws)}
  BY DEF InsertItem, At, Ends
<1>2. PICK n : \/ Goes(c, [op |-> "set count", id |-> r.id, ws |-> r.ws])
               \/ Goes(c, [r EXCEPT !.n = n])
               \/ Goes(c, NoRequest)
  BY DEF InsertItem, Ends
<1>3. "op" \in DOMAIN r
  BY DEF IInv, RequestsKnow, Knows
<1>4. Knows([r EXCEPT !.n = n], traces, touched)
  BY <1>1, <1>3 DEF Knows
<1>5. Knows([op |-> "set count", id |-> r.id, ws |-> r.ws], traces, touched)
  BY DEF Knows
<1>6. PICK rec : Goes(c, rec) /\ Knows(rec, traces, touched)
  BY <1>2, <1>4, <1>5, Idles
<1>7. \A i \in items' : HasId(datasets, i.dataset)
  <2>1. \A i \in items' : i \in items \/ (HasId(datasets, r.id) /\ i = Item(r.id, r.n, r.ws))
    BY <1>1
  <2>2. Item(r.id, r.n, r.ws).dataset = r.id
    BY DEF Item
  <2> QED BY <2>1, <2>2, InData DEF DataHasParents
<1>8. DataHasParents'
  BY <1>1, <1>7, InData DEF DataHasParents, HasId
<1> QED BY <1>1, <1>6, <1>8, InData, DataOnly DEF Dataset

LEMMA SetCountKeeps == ASSUME IInv, NEW c \in Clients, SetCount(c) PROVE IInv'
<1>1. /\ Goes(c, NoRequest)
      /\ datasets' = {IF d.id = req[c].id THEN [d EXCEPT !.count = Items] ELSE d : d \in datasets}
      /\ UNCHANGED <<backend, traceVars, items, evaluations, results, evalRuns, touched>>
  BY DEF SetCount, At, Ends
<1>2. \A d \in datasets : /\ d = [id |-> d.id, ws |-> d.ws, count |-> d.count]
                          /\ [d EXCEPT !.count = Items] = [id |-> d.id, ws |-> d.ws, count |-> Items]
  BY InData DEF Dataset
<1>3. \A d \in datasets' : d = Dataset(d.id, d.ws, d.count)
  <2> TAKE d \in datasets'
  <2>1. PICK e \in datasets : d = e \/ d = [e EXCEPT !.count = Items]
    BY <1>1
  <2> QED BY <1>2, <2>1 DEF Dataset
<1>4. \A x : HasId(datasets, x) => HasId(datasets', x)
  <2> SUFFICES ASSUME NEW e \in datasets PROVE \E d \in datasets' : d.id = e.id
    BY DEF HasId
  <2>1. (IF e.id = req[c].id THEN [e EXCEPT !.count = Items] ELSE e) \in datasets'
    BY <1>1
  <2> QED BY <1>2, <2>1
<1>5. DataHasParents'
  BY <1>1, <1>4, InData DEF DataHasParents, HasId
<1> QED BY <1>1, <1>3, <1>5, Idles, DataOnly

LEMMA DeleteDatasetRowKeeps == ASSUME IInv, NEW c \in Clients, DeleteDatasetRow(c) PROVE IInv'
<1> DEFINE gone == {d \in datasets : d.id = req[c].id /\ d.ws = req[c].ws}
<1>1. /\ Goes(c, NoRequest)
      /\ datasets' = datasets \ gone
      /\ items' = {i \in items : ~HasId(gone, i.dataset)}
      /\ evalRuns' = {r \in evalRuns : ~HasId(gone, r.dataset)}
      /\ UNCHANGED <<backend, traceVars, evaluations, results, touched>>
  BY DEF DeleteDatasetRow, At, Ends
<1>2. \A x : HasId(datasets, x) /\ ~HasId(gone, x) => HasId(datasets', x)
  BY <1>1 DEF HasId
<1> HIDE DEF gone
<1>3. DataHasParents'
  BY <1>1, <1>2, InData DEF DataHasParents, HasId
<1> QED BY <1>1, <1>3, InData, Idles, DataOnly DEF Dataset

LEMMA DatasetStepKeeps == ASSUME IInv, NEW c \in Clients, DatasetStep(c) PROVE IInv'
<1>1. CASE DeleteDataset(c)
  <2>1. PICK d \in datasets, w \in Workspaces :
          /\ items' \subseteq items /\ touched \subseteq touched'
          /\ Goes(c, [op |-> "delete dataset", id |-> d.id, ws |-> w])
    BY <1>1 DEF DeleteDataset
  <2>2. Knows([op |-> "delete dataset", id |-> d.id, ws |-> w], traces, touched')
    BY DEF Knows
  <2>3. UNCHANGED <<backend, traceVars, datasets, evaluations, results, evalRuns>>
    BY <1>1 DEF DeleteDataset, Arrives
  <2>4. DataHasParents'
    BY <2>1, <2>3, InData DEF DataHasParents, HasId
  <2> QED BY <2>1, <2>2, <2>3, <2>4, InData, DataOnly DEF Dataset
<1> QED BY <1>1, CreateDatasetKeeps, InsertItemKeeps, SetCountKeeps, DeleteDatasetRowKeeps
        DEF DatasetStep

\* A result left over keeps its evaluation; the eval runs go with it.
LEMMA DeleteEvaluationRowKeeps == ASSUME IInv, NEW c \in Clients, DeleteEvaluationRow(c) PROVE IInv'
<1> DEFINE gone == {e \in evaluations : e.id = req[c].id /\ e.ws = req[c].ws}
<1>1. /\ Goes(c, NoRequest)
      /\ UNCHANGED <<backend, traceVars, datasets, items, results, touched>>
      /\ \/ UNCHANGED <<evaluations, evalRuns>>
         \/ /\ \A r \in results : ~HasId(gone, r.evaluation)
            /\ evaluations' = evaluations \ gone
            /\ evalRuns' = {r \in evalRuns : ~HasId(gone, r.evaluation)}
  BY DEF DeleteEvaluationRow, At, Ends
<1>2. \A x : HasId(evaluations, x) /\ ~HasId(gone, x) => HasId(evaluations \ gone, x)
  BY DEF HasId
<1> HIDE DEF gone
<1>3. DataHasParents'
  BY <1>1, <1>2, InData DEF DataHasParents, HasId
<1> QED BY <1>1, <1>3, InData, Idles, DataOnly DEF Dataset

LEMMA EvaluationStepKeeps == ASSUME IInv, NEW c \in Clients, EvaluationStep(c) PROVE IInv'
<1>1. CASE CreateEvaluation(c)
  <2>1. /\ Goes(c, NoRequest) /\ evaluations \subseteq evaluations'
        /\ UNCHANGED <<backend, traceVars, datasets, items, results, evalRuns, touched>>
    BY <1>1 DEF CreateEvaluation, Arrives, Ends
  <2>2. DataHasParents'
    BY <2>1, InData DEF DataHasParents, HasId
  <2> QED BY <2>1, <2>2, InData, Idles, DataOnly DEF Dataset
<1>2. CASE CreateResult(c)
  <2>1. PICK e \in evaluations, w \in Workspaces :
          results' = results \union {[id |-> Fresh, evaluation |-> e.id, ws |-> w]}
    BY <1>2 DEF CreateResult
  <2>2. /\ Goes(c, NoRequest)
        /\ UNCHANGED <<backend, traceVars, datasets, items, evaluations, evalRuns, touched>>
    BY <1>2 DEF CreateResult, Arrives, Ends
  <2>3. DataHasParents'
    BY <2>1, <2>2, InData DEF DataHasParents, HasId
  <2> QED BY <2>2, <2>3, InData, Idles, DataOnly DEF Dataset
<1>3. CASE RunEvaluation(c)
  <2>1. PICK e \in evaluations, d \in {r.id : r \in datasets} \union {None}, w \in Workspaces :
          evalRuns' = evalRuns \union {[id |-> Fresh, evaluation |-> e.id, dataset |-> d, ws |-> w]}
    BY <1>3 DEF RunEvaluation
  <2>2. /\ Goes(c, NoRequest)
        /\ UNCHANGED <<backend, traceVars, datasets, items, evaluations, results, touched>>
    BY <1>3 DEF RunEvaluation, Arrives, Ends
  <2>3. d = None \/ HasId(datasets, d)
    BY DEF HasId
  <2>4. DataHasParents'
    BY <2>1, <2>2, <2>3, InData DEF DataHasParents, HasId
  <2> QED BY <2>2, <2>4, InData, Idles, DataOnly DEF Dataset
<1>4. CASE DeleteEvaluation(c)
  <2>1. PICK e \in evaluations, w \in Workspaces :
          /\ results' \subseteq results
          /\ Goes(c, [op |-> "delete evaluation", id |-> e.id, ws |-> w])
    BY <1>4 DEF DeleteEvaluation
  <2>2. Knows([op |-> "delete evaluation", id |-> e.id, ws |-> w], traces, touched)
    BY DEF Knows
  <2>3. UNCHANGED <<backend, traceVars, datasets, items, evaluations, evalRuns, touched>>
    BY <1>4 DEF DeleteEvaluation, Arrives
  <2>4. DataHasParents'
    BY <2>1, <2>3, InData DEF DataHasParents, HasId
  <2> QED BY <2>1, <2>2, <2>3, <2>4, InData, DataOnly DEF Dataset
<1> QED BY <1>1, <1>2, <1>3, <1>4, DeleteEvaluationRowKeeps DEF EvaluationStep

-----------------------------------------------------------------------------
(* The other steps touch none of these tables.                              *)

LEMMA ScoreStepKeeps == ASSUME IInv, NEW c \in Clients, ScoreStep(c) PROVE IInv'
<1>1. UNCHANGED <<backend, traces, spans, runs, dataVars, touched>>
  BY DEF ScoreStep, Scan, InsertScore, Walk, KeysetPage, CountScores, OffsetPage, Arrives, At, traceVars
<1>2. ASSUME NEW rec, Goes(c, rec), "op" \in DOMAIN rec,
             rec.op \in {"insert score", "keyset", "count", "offset", "walked"}
      PROVE  IInv'
  <2>1. Knows(rec, traces, touched)
    BY <1>2 DEF Knows
  <2> QED BY <1>1, <1>2, <2>1, OnlyRequest
<1>3. CASE Scan(c)
  <2>1. Goes(c, [op |-> "insert score", at |-> clock])
    BY <1>3 DEF Scan
  <2> QED BY <1>2, <2>1
<1>4. CASE InsertScore(c)
  BY <1>1, <1>4, OnlyRequest, Idles DEF InsertScore, Ends
<1>5. CASE Walk(c)
  <2>1. PICK size, n :
          \/ Goes(c, [op |-> "keyset", size |-> size, after |-> None, seen |-> << >>, first |-> n])
          \/ Goes(c, [op |-> "count", size |-> size, page |-> 1, seen |-> << >>, first |-> n])
    BY <1>5 DEF Walk
  <2> QED BY <1>2, <2>1
<1>6. CASE KeysetPage(c)
  <2>1. PICK x, y, z :
          \/ Goes(c, [req[c] EXCEPT !.seen = x, !.after = y])
          \/ Goes(c, [op |-> "walked", way |-> "keyset", seen |-> x, first |-> y, size |-> z])
    BY <1>6 DEF KeysetPage, Walked
  <2>2. req[c].op = "keyset" /\ "op" \in DOMAIN req[c]
    BY <1>6 DEF KeysetPage, At, IInv, RequestsKnow, Knows
  <2> QED BY <1>2, <2>1, <2>2
<1>7. CASE CountScores(c)
  <2>1. PICK u, v, w, x, y :
          Goes(c, [op |-> "offset", size |-> u, page |-> v, seen |-> w, first |-> x, total |-> y])
    BY <1>7 DEF CountScores
  <2> QED BY <1>2, <2>1
<1>8. CASE OffsetPage(c)
  <2>1. PICK u, v, w, x :
          \/ Goes(c, [op |-> "count", size |-> u, page |-> v, seen |-> w, first |-> x])
          \/ Goes(c, [op |-> "walked", way |-> "offset", seen |-> w, first |-> x, size |-> u])
    BY <1>8 DEF OffsetPage, Walked
  <2> QED BY <1>2, <2>1
<1> QED BY <1>3, <1>4, <1>5, <1>6, <1>7, <1>8 DEF ScoreStep

LEMMA KeyStepKeeps == ASSUME IInv, NEW c \in Clients, KeyStep(c) PROVE IInv'
<1>1. UNCHANGED <<backend, traces, spans, runs, dataVars, touched>>
  BY DEF KeyStep, Authenticate, Judge, Stamp, CreateApiKey, DeleteApiKey, Arrives, At, traceVars
<1>2. PICK rec : Goes(c, rec) /\ rec.op \in {"judge", "stamp", "idle"} /\ "op" \in DOMAIN rec
  BY DEF KeyStep, Authenticate, Judge, Stamp, CreateApiKey, DeleteApiKey, Ends, NoRequest
<1>3. Knows(rec, traces, touched)
  BY <1>2 DEF Knows
<1> QED BY <1>1, <1>2, <1>3, OnlyRequest

LEMMA StatementFailsKeeps == ASSUME IInv, NEW c \in Clients, StatementFails(c) PROVE IInv'
  BY OnlyRequest, Idles DEF StatementFails, Ends, traceVars

\* A step of no request.
LEMMA Unmoved ==
    ASSUME IInv, UNCHANGED <<backend, traceVars, dataVars, req, touched>> PROVE IInv'
<1>1. RequestsKnow'
  BY DEF IInv, RequestsKnow, Knows, traceVars
<1>2. Columns' /\ EveryChildHasParent' /\ SpanInItsWorkspace'
  BY DEF IInv, Columns, EveryChildHasParent, SpanInItsWorkspace, HasId, traceVars, dataVars
<1> QED BY <1>1, <1>2 DEF IInv

\* IInv is an invariant: one step per group of operations.
THEOREM IInvIsInvariant == TelemetrySpec => []IInv
<1>1. TelemetryInit => IInv
  <2> SUFFICES ASSUME TelemetryInit PROVE IInv
    OBVIOUS
  <2>1. RequestsKnow
    BY Idles DEF TelemetryInit, RequestsKnow
  <2> QED BY <2>1 DEF TelemetryInit, IInv, Columns, EveryChildHasParent, SpanInItsWorkspace
<1>2. IInv /\ [TelemetryNext]_telemetryVars => IInv'
  <2> SUFFICES ASSUME IInv, [TelemetryNext]_telemetryVars PROVE IInv'
    OBVIOUS
  <2>1. ASSUME NEW c \in Clients,
               \/ TraceStep(c) \/ RunStep(c) \/ DatasetStep(c) \/ EvaluationStep(c)
               \/ ScoreStep(c) \/ KeyStep(c) \/ StatementFails(c)
        PROVE  IInv'
    BY <2>1, TraceStepKeeps, RunStepKeeps, DatasetStepKeeps, EvaluationStepKeeps, ScoreStepKeeps,
       KeyStepKeeps, StatementFailsKeeps
  <2>2. CASE Tick
    BY <2>2, Unmoved DEF Tick
  <2>3. CASE UNCHANGED telemetryVars
    BY <2>3, Unmoved DEF telemetryVars
  <2> QED BY <2>1, <2>2, <2>3 DEF TelemetryNext
<1> QED BY <1>1, <1>2, PTL DEF TelemetrySpec

\* No handler, at whatever statement the others are, leaves a row without its parent: a span
\* or a run without its trace, a dataset's row, a result or an eval run without theirs.
THEOREM ChildrenHaveParents == TelemetrySpec => []EveryChildHasParent
<1>1. IInv => EveryChildHasParent
  BY DEF IInv
<1> QED BY <1>1, IInvIsInvariant, PTL

\* A span is in the workspace of its trace, unless on PostgreSQL its trace was deleted
\* between the check and the insert of some span and created again.
THEOREM SpansStayInTheirWorkspace == TelemetrySpec => []SpanInItsWorkspace
<1>1. IInv => SpanInItsWorkspace
  BY DEF IInv
<1> QED BY <1>1, IInvIsInvariant, PTL

-----------------------------------------------------------------------------
(***************************************************************************)
(* Datasets and their rows.  What row_count says of a finished dataset     *)
(* rests on what the loop of createDataset has inserted before: a creation *)
(* under way has exactly the rows below its loop counter, and owns its id. *)
(* A deletion that looks for the dataset has announced it.                 *)
(***************************************************************************)
Making(rec) == rec.op \in {"insert item", "set count"}
Made(rec) == IF rec.op = "set count" THEN Items ELSE rec.n - 1

RowsOf(x) == {i \in items : i.dataset = x}
FirstRows(x, w, k) == {Item(x, n, w) : n \in 1..k}

\* A dataset row: its id was given out, and its rows are there once they are counted.
Counted(d) ==
    /\ d.id \in Nat /\ d.id < requests
    /\ d.count \in {0, Items}
    /\ d.id \notin touched /\ d.count > 0 => RowsOf(d.id) = FirstRows(d.id, d.ws, Items)

\* What a request knows of the dataset it creates or deletes.
InHand(rec) ==
    /\ Making(rec) \/ rec.op = "delete dataset" => rec.id \in Nat /\ rec.id < requests
    /\ rec.op = "insert item" =>
          /\ rec = [op |-> rec.op, id |-> rec.id, ws |-> rec.ws, n |-> rec.n]
          /\ rec.n \in Nat \ {0}
    /\ Making(rec) /\ rec.id \notin touched =>
          /\ Dataset(rec.id, rec.ws, 0) \in datasets
          /\ RowsOf(rec.id) = FirstRows(rec.id, rec.ws, Made(rec))
    /\ rec.op = "delete dataset" =>
          \A d \in datasets : d.id = rec.id /\ d.ws = rec.ws => d.id \in touched
    /\ scene = "evaluations" => rec.op # "insert span"

Kept(a) == a.id \notin touched => \E d \in datasets : d.id = a.id /\ d.count = Items

WholeInv ==
    /\ requests \in Nat
    /\ \A d \in datasets : Counted(d)
    /\ \A d, e \in datasets : d.id = e.id => d = e
    /\ \A c \in Clients : InHand(req[c])
    /\ \A c, e \in Clients : Making(req[c]) /\ Making(req[e]) /\ req[c].id = req[e].id => c = e
    /\ scene = "evaluations" => \A a \in acked : Kept(a)

LEMMA StillLess == \A i, m, n \in Nat : i < m /\ m <= n => i < n
  OBVIOUS

\* A step of c that is not about the creation or deletion of a dataset.
LEMMA WholeRests ==
    ASSUME IInv, WholeInv, NEW c \in Clients, NEW rec, Goes(c, rec),
           rec.op \notin {"insert item", "set count", "delete dataset"},
           scene = "evaluations" => rec.op # "insert span" /\ acked' = acked,
           UNCHANGED <<scene, datasets, items>>, touched \subseteq touched',
           requests' \in Nat, requests <= requests'
    PROVE  WholeInv'
<1>1. /\ req'[c] = rec
      /\ \A e \in Clients \ {c} : req'[e] = req[e]
  BY DEF IInv, RequestsKnow, Goes
<1>2. \A d \in datasets' : Counted(d)'
  <2> TAKE d \in datasets'
  <2>1. Counted(d) /\ RowsOf(d.id)' = RowsOf(d.id)
    BY DEF WholeInv, RowsOf
  <2>2. requests \in Nat
    BY DEF WholeInv
  <2>3. d.id \in Nat /\ d.id < requests'
    BY <2>1, <2>2, StillLess DEF Counted
  <2>4. d.id \notin touched' /\ d.count > 0 => RowsOf(d.id)' = FirstRows(d.id, d.ws, Items)
    BY <2>1, <2>2 DEF Counted
  <2> QED BY <2>1, <2>3, <2>4 DEF Counted
<1>3. \A e \in Clients : InHand(req[e])'
  <2> TAKE e \in Clients
  <2>1. CASE e = c
    BY <1>1, <2>1 DEF InHand, Making
  <2>2. CASE e # c
    <3>1. InHand(req[e]) /\ req'[e] = req[e] /\ RowsOf(req[e].id)' = RowsOf(req[e].id)
      BY <1>1, <2>2 DEF WholeInv, RowsOf
    <3>2. requests \in Nat
      BY DEF WholeInv
    <3>3. \A i \in Nat : i < requests => i < requests'
      BY <3>2, StillLess
    <3> QED BY <3>1, <3>3 DEF InHand, Making, Made
  <2> QED BY <2>1, <2>2
<1>4. \A d, e \in Clients : (Making(req[d]) /\ Making(req[e]) /\ req[d].id = req[e].id)' => d = e
  BY <1>1 DEF WholeInv, Making
<1>5. scene' = "evaluations" => \A a \in acked' : Kept(a)'
  BY DEF WholeInv, Kept
<1> QED BY <1>2, <1>3, <1>4, <1>5 DEF WholeInv

\* A step of c that is about dataset x alone.
LEMMA WholeMoves ==
    ASSUME IInv, WholeInv, NEW c \in Clients, NEW rec, Goes(c, rec), NEW x \in Nat,
           UNCHANGED scene, touched \subseteq touched', requests' \in Nat, requests <= requests',
           \A y : y # x => RowsOf(y)' = RowsOf(y),
           \A d : d.id # x => (d \in datasets' <=> d \in datasets),
           \A d \in datasets' : d.id = x => Counted(d)',
           \A d, e \in datasets' : d.id = x /\ e.id = x => d = e,
           \A d \in datasets' : d.id = x =>
               x = requests \/ \E e \in datasets : e.id = x /\ e.ws = d.ws,
           InHand(rec)',
           Making(rec) => \A e \in Clients \ {c} : Making(req[e]) => req[e].id # rec.id,
           \A e \in Clients \ {c} : Making(req[e]) /\ req[e].id = x =>
               x \in touched' \/ InHand(req[e])',
           \A d \in datasets : d.id = x /\ d.count = Items =>
               x \in touched' \/ \E e \in datasets' : e.id = x /\ e.count = Items,
           scene = "evaluations" => \A a \in acked' : a \in acked \/ Kept(a)'
    PROVE  WholeInv'
<1>1. /\ req'[c] = rec
      /\ \A e \in Clients \ {c} : req'[e] = req[e]
  BY DEF IInv, RequestsKnow, Goes
<1>2. \A i \in Nat : i < requests => i < requests'
  BY StillLess DEF WholeInv
<1>3. \A d \in datasets' : Counted(d)'
  <2> SUFFICES ASSUME NEW d \in datasets', d.id # x PROVE Counted(d)'
    OBVIOUS
  <2>1. Counted(d) /\ RowsOf(d.id)' = RowsOf(d.id)
    BY DEF WholeInv
  <2> QED BY <1>2, <2>1 DEF Counted
<1>4. \A d, e \in datasets' : d.id = e.id => d = e
  BY DEF WholeInv
<1>5. ASSUME NEW e \in Clients \ {c} PROVE InHand(req[e])'
  <2>1. InHand(req[e]) /\ req'[e] = req[e]
    BY <1>1 DEF WholeInv
  <2>2. CASE Making(req[e]) /\ req[e].id # x
    <3>1. Dataset(req[e].id, req[e].ws, 0).id = req[e].id
      BY DEF Dataset
    <3>2. Dataset(req[e].id, req[e].ws, 0) \in datasets =>
            Dataset(req[e].id, req[e].ws, 0) \in datasets'
      BY <2>2, <3>1
    <3>3. RowsOf(req[e].id)' = RowsOf(req[e].id)
      BY <2>1, <2>2 DEF RowsOf
    <3> QED BY <1>1, <1>2, <2>1, <2>2, <3>2, <3>3 DEF InHand, Making, Made
  <2>3. CASE Making(req[e]) /\ req[e].id = x
    BY <1>1, <1>2, <2>1, <2>3 DEF InHand, Making, Made
  <2>4. CASE req[e].op = "delete dataset"
    <3>1. req[e].id \in Nat /\ req[e].id < requests
      BY <2>1, <2>4 DEF InHand
    <3>2. ASSUME NEW d \in datasets', d.id = req[e].id, d.ws = req[e].ws PROVE d.id \in touched'
      <4>1. \E o \in datasets : o.id = d.id /\ o.ws = d.ws
        BY <3>1, <3>2 DEF WholeInv
      <4> QED BY ZenonT(40), <2>1, <2>4, <3>2, <4>1 DEF InHand
    <3> QED BY <1>1, <1>2, <2>1, <2>4, <3>1, <3>2 DEF InHand, Making
  <2>5. CASE ~Making(req[e]) /\ req[e].op # "delete dataset"
    BY <1>1, <2>1, <2>5 DEF InHand, Making
  <2> QED BY <2>2, <2>3, <2>4, <2>5
<1>6. \A e \in Clients : InHand(req[e])'
  BY <1>1, <1>5
<1>7. \A d, e \in Clients : (Making(req[d]) /\ Making(req[e]) /\ req[d].id = req[e].id)' => d = e
  BY ZenonT(40), <1>1 DEF WholeInv, Making
<1>8. scene' = "evaluations" => \A a \in acked' : Kept(a)'
  BY DEF WholeInv, Kept
<1> QED BY <1>3, <1>4, <1>6, <1>7, <1>8 DEF WholeInv

LEMMA Given ==
    /\ \A x, w, k : LET d == Dataset(x, w, k) IN d.id = x /\ d.ws = w /\ d.count = k
    /\ \A x, n, w : LET i == Item(x, n, w) IN i.dataset = x /\ i.n = n /\ i.ws = w
  BY DEF Dataset, Item

\* The rows up to the next one; there are as many as they are numbered.
LEMMA FirstRowsAre ==
    /\ \A x, w : FirstRows(x, w, 0) = {}
    /\ \A x, w : \A k \in Nat :
          FirstRows(x, w, k + 1) = FirstRows(x, w, k) \union {Item(x, k + 1, w)}
    /\ \A x, w, k : \A i \in FirstRows(x, w, k) : i.dataset = x /\ i.ws = w
<1>1. \A k \in Nat : 1..(k + 1) = (1..k) \union {k + 1}
  OBVIOUS
<1> QED BY <1>1, Given DEF FirstRows

LEMMA RowCount == ASSUME NEW x, NEW w, NEW k \in Nat PROVE Cardinality(FirstRows(x, w, k)) = k
<1> DEFINE f == [n \in 1..k |-> Item(x, n, w)]
<1>1. f \in Bijection(1..k, FirstRows(x, w, k))
  <2>1. f \in [1..k -> FirstRows(x, w, k)] /\ \A i \in FirstRows(x, w, k) : \E n \in 1..k : f[n] = i
    BY DEF FirstRows
  <2>2. \A m, n \in 1..k : f[m] = f[n] => m = n
    BY Given
  <2> QED BY <2>1, <2>2 DEF Bijection, Injection, Surjection, IsInjective
<1>2. ExistsBijection(1..k, FirstRows(x, w, k))
  BY <1>1 DEF ExistsBijection
<1>3. IsFiniteSet(1..k) /\ Cardinality(1..k) = k
  BY FS_Interval
<1> QED BY <1>2, <1>3, FS_Bijection

\* On SQLite the dataset comes with its rows, on PostgreSQL with none yet.
LEMMA CreateDatasetWhole ==
    ASSUME IInv, WholeInv, NEW c \in Clients, CreateDataset(c) PROVE WholeInv'
<1> DEFINE item(x, w) == [op |-> "insert item", id |-> x, ws |-> w, n |-> 1]
           count(x, w) == [op |-> "set count", id |-> x, ws |-> w]
<1>0. PICK x \in Nat : x = requests
  BY DEF WholeInv
<1>1. /\ scene' = scene /\ touched' = touched /\ requests' = x + 1
      /\ scene = "evaluations"
  BY <1>0 DEF CreateDataset, Arrives
<1>2. PICK w \in Workspaces :
        \/ /\ datasets' = datasets \union {Dataset(x, w, Items)}
           /\ items' = items \union {Item(x, n, w) : n \in 1..Items}
           /\ acked' = acked \union {Row(x, w)}
           /\ Goes(c, NoRequest)
        \/ /\ datasets' = datasets \union {Dataset(x, w, 0)}
           /\ items' = items /\ acked' = acked
           /\ \/ Items = 0 /\ Goes(c, count(x, w))
              \/ Goes(c, item(x, w))
  <2> HIDE DEF item, count
  <2>1. PICK w \in Workspaces :
         IF backend = "sqlite"
         THEN /\ datasets' = datasets \union {Dataset(Fresh, w, Items)}
              /\ items' = items \union {Item(Fresh, n, w) : n \in 1..Items}
              /\ acked' = acked \union {Row(Fresh, w)}
              /\ Goes(c, NoRequest)
         ELSE /\ datasets' = datasets \union {Dataset(Fresh, w, 0)}
              /\ Goes(c, IF Items = 0 THEN count(Fresh, w) ELSE item(Fresh, w))
              /\ items' = items /\ acked' = acked
    BY Zenon DEF CreateDataset, Ends, item, count
  <2>2. Fresh = x
    BY <1>0 DEF Fresh
  <2> QED BY <2>1, <2>2
<1>3. \A d \in datasets : d.id # x
  BY <1>0 DEF WholeInv, Counted
<1>4. RowsOf(x) = {}
  BY <1>3 DEF RowsOf, IInv, EveryChildHasParent, HasId
<1>5. Items \in Nat
  BY TelemetryAssumption
<1>6. ASSUME NEW e \in Clients, Making(req[e]) PROVE req[e].id # x
  <2>1. InHand(req[e])
    BY DEF WholeInv
  <2>2. req[e].id \in Nat /\ req[e].id < requests
    BY <1>6, <2>1 DEF InHand
  <2> QED BY <1>0, <2>2
<1>7. FirstRows(x, w, 0) = {}
  BY FirstRowsAre
<1>8. ASSUME datasets' = datasets \union {Dataset(x, w, Items)},
             items' = items \union {Item(x, n, w) : n \in 1..Items},
             acked' = acked \union {Row(x, w)},
             Goes(c, NoRequest)
      PROVE  WholeInv'
  <2>1. \A y : y # x => RowsOf(y)' = RowsOf(y)
    BY <1>8, Given DEF RowsOf
  <2>2. {i \in items' : i.dataset = x} = FirstRows(x, w, Items)
    BY <1>4, <1>8, Given DEF RowsOf, FirstRows
  <2>3. \A d \in datasets' : d.id = x => d = Dataset(x, w, Items)
    BY <1>3, <1>8
  <2>4. \A d \in datasets' : d.id = x => Counted(d)'
    BY <1>1, <1>5, <2>2, <2>3, Given DEF Counted, RowsOf
  <2>5. InHand(NoRequest)' /\ ~Making(NoRequest)
    BY DEF InHand, Making, NoRequest
  <2>6. Dataset(x, w, Items) \in datasets' /\ Kept(Row(x, w))'
    BY <1>8, Given DEF Kept, Row
  <2>7. \A d : d.id # x => (d \in datasets' <=> d \in datasets)
    BY <1>8, Given
  <2> QED BY <1>0, <1>1, <1>3, <1>6, <1>8, <2>1, <2>3, <2>4, <2>5, <2>6, <2>7, WholeMoves
<1>9. ASSUME datasets' = datasets \union {Dataset(x, w, 0)}, items' = items, acked' = acked,
             \/ Items = 0 /\ Goes(c, count(x, w))
             \/ Goes(c, item(x, w))
      PROVE  WholeInv'
  <2>1. \A y : RowsOf(y)' = RowsOf(y)
    BY <1>9 DEF RowsOf
  <2>2. \A d \in datasets' : d.id = x => d = Dataset(x, w, 0)
    BY <1>3, <1>9
  <2>3. \A d \in datasets' : d.id = x => Counted(d)'
    BY <1>1, <1>5, <2>2, Given DEF Counted
  <2>4. Dataset(x, w, 0) \in datasets' /\ RowsOf(x)' = FirstRows(x, w, 0)
    BY <1>4, <1>7, <1>9, <2>1
  <2>5. InHand(item(x, w))' /\ item(x, w).id = x
    BY <1>1, <2>4 DEF InHand, Making, Made
  <2>6. Items = 0 => InHand(count(x, w))' /\ count(x, w).id = x
    BY <1>1, <2>4 DEF InHand, Making, Made
  <2>7. \A d : d.id # x => (d \in datasets' <=> d \in datasets)
    <3>1. datasets' = datasets \union {Dataset(x, w, 0)}
      BY <1>9
    <3> QED BY <3>1, Given
  <2> HIDE DEF item, count
  <2>8. PICK rec : Goes(c, rec) /\ InHand(rec)' /\ rec.id = x
    BY <1>9, <2>5, <2>6
  <2> QED BY <1>0, <1>1, <1>3, <1>6, <1>9, <2>1, <2>2, <2>3, <2>7, <2>8, WholeMoves
<1> QED BY <1>2, <1>8, <1>9

\* What the creation under way of c says of its dataset x, and that nobody else makes it.
LEMMA Own ==
    ASSUME IInv, WholeInv, NEW c \in Clients, Making(req[c])
    PROVE  /\ req[c].id \in Nat /\ req[c].id < requests
           /\ req[c].op = "insert item" =>
                /\ req[c] = [op |-> "insert item", id |-> req[c].id, ws |-> req[c].ws, n |-> req[c].n]
                /\ req[c].n \in Nat \ {0}
           /\ req[c].id \notin touched =>
                /\ Dataset(req[c].id, req[c].ws, 0) \in datasets
                /\ RowsOf(req[c].id) = FirstRows(req[c].id, req[c].ws, Made(req[c]))
           /\ \A e \in Clients \ {c} : Making(req[e]) => req[e].id # req[c].id
<1>1. InHand(req[c])
  BY DEF WholeInv
<1>2. \A e \in Clients \ {c} : Making(req[e]) => req[e].id # req[c].id
  BY DEF WholeInv
<1> QED BY <1>1, <1>2 DEF InHand

LEMMA NextItem ==
    ASSUME NEW o, NEW x, NEW w, NEW m, NEW v
    PROVE  [[op |-> o, id |-> x, ws |-> w, n |-> m] EXCEPT !.n = v]
             = [op |-> o, id |-> x, ws |-> w, n |-> v]
  OBVIOUS

\* One row more, or the foreign key has failed.
LEMMA InsertItemWhole ==
    ASSUME IInv, WholeInv, NEW c \in Clients, InsertItem(c) PROVE WholeInv'
<1> DEFINE item(x, w, m) == [op |-> "insert item", id |-> x, ws |-> w, n |-> m]
           count(x, w) == [op |-> "set count", id |-> x, ws |-> w]
<1>1. PICK x, m, w : x = req[c].id /\ m = req[c].n /\ w = req[c].ws
  OBVIOUS
<1>2. req[c].op = "insert item" /\ Making(req[c])
  BY DEF InsertItem, At, Making
<1>3. /\ x \in Nat /\ x < requests /\ m \in Nat \ {0}
      /\ x \notin touched => /\ Dataset(x, w, 0) \in datasets
                             /\ RowsOf(x) = FirstRows(x, w, Made(req[c]))
      /\ \A e \in Clients \ {c} : Making(req[e]) => req[e].id # x
  BY <1>1, <1>2, Own
<1>4. Made(req[c]) = m - 1 /\ req[c] = item(x, w, m)
  BY <1>1, <1>2, Own DEF Made
<1>5. UNCHANGED <<scene, datasets, touched, acked, requests>>
  BY DEF InsertItem, At
<1>6. requests \in Nat /\ requests <= requests' /\ requests' \in Nat
  BY <1>5 DEF WholeInv
<1>7. CASE ~HasId(datasets, x)
  <2>1. Goes(c, NoRequest) /\ items' = items
    BY <1>1, <1>7 DEF InsertItem, Ends
  <2>2. NoRequest.op = "idle"
    BY DEF NoRequest
  <2> QED BY <1>5, <1>6, <2>1, <2>2, WholeRests
<1>8. CASE HasId(datasets, x)
  <2>1. items' = items \union {Item(x, m, w)}
    BY <1>1, <1>8 DEF InsertItem
  <2>2. Goes(c, item(x, w, m + 1)) \/ (m = Items /\ Goes(c, count(x, w)))
    <3>1. ASSUME NEW v PROVE [item(x, w, m) EXCEPT !.n = v] = item(x, w, v)
      <4>1. PICK o : o = "insert item"
        OBVIOUS
      <4>2. [[op |-> o, id |-> x, ws |-> w, n |-> m] EXCEPT !.n = v]
               = [op |-> o, id |-> x, ws |-> w, n |-> v]
        BY NextItem
      <4> QED BY <4>1, <4>2, Zenon
    <3>2. Goes(c, IF m = Items THEN count(x, w) ELSE [req[c] EXCEPT !.n = m + 1])
      BY <1>1, <1>8 DEF InsertItem
    <3> HIDE DEF item, count
    <3> QED BY <1>4, <3>1, <3>2
  <2>3. \A y : y # x => RowsOf(y)' = RowsOf(y)
    BY <2>1, Given DEF RowsOf
  <2>4. RowsOf(x)' = RowsOf(x) \union {Item(x, m, w)}
    BY <2>1, Given DEF RowsOf
  <2>5. x \notin touched => RowsOf(x)' = FirstRows(x, w, m) /\ Dataset(x, w, 0) \in datasets
    <3>1. PICK k \in Nat : k = m - 1 /\ m = k + 1
      BY <1>3
    <3>2. FirstRows(x, w, k + 1) = FirstRows(x, w, k) \union {Item(x, k + 1, w)}
      BY FirstRowsAre
    <3> QED BY <1>3, <1>4, <2>4, <3>1, <3>2
  <2>6. (m + 1) - 1 = m /\ m + 1 \in Nat \ {0}
    BY <1>3
  <2>7. InHand(item(x, w, m + 1))' /\ item(x, w, m + 1).id = x
    BY <1>3, <1>5, <2>5, <2>6 DEF InHand, Making, Made
  <2>8. m = Items => InHand(count(x, w))' /\ count(x, w).id = x
    BY <1>3, <1>5, <2>5 DEF InHand, Making, Made
  <2> HIDE DEF item, count
  <2>9. PICK rec : Goes(c, rec) /\ InHand(rec)' /\ rec.id = x
    BY <2>2, <2>7, <2>8
  <2>10. \A d \in datasets' : d.id = x => Counted(d)'
    <3> SUFFICES ASSUME NEW d \in datasets, d.id = x PROVE Counted(d)'
      BY <1>5
    <3>1. Counted(d) /\ (x \notin touched => d = Dataset(x, w, 0))
      BY <1>3, Given DEF WholeInv
    <3>2. d.count > 0 => x \in touched
      BY <3>1, Given
    <3> QED BY <1>5, <3>1, <3>2 DEF Counted
  <2>11. \A d, e \in datasets : d.id = e.id => d = e
    BY DEF WholeInv
  <2> QED BY <1>3, <1>5, <1>6, <2>3, <2>9, <2>10, <2>11, WholeMoves
<1> QED BY <1>7, <1>8

\* The count is written once all rows are there.
LEMMA SetCountWhole ==
    ASSUME IInv, WholeInv, NEW c \in Clients, SetCount(c) PROVE WholeInv'
<1>1. PICK x, w : x = req[c].id /\ w = req[c].ws
  OBVIOUS
<1>2. req[c].op = "set count" /\ Making(req[c])
  BY DEF SetCount, At, Making
<1>3. /\ x \in Nat /\ x < requests
      /\ x \notin touched => /\ Dataset(x, w, 0) \in datasets
                             /\ RowsOf(x) = FirstRows(x, w, Made(req[c]))
      /\ \A e \in Clients \ {c} : Making(req[e]) => req[e].id # x
  BY <1>1, <1>2, Own
<1>4. Made(req[c]) = Items
  BY <1>2 DEF Made
<1>5. /\ UNCHANGED <<scene, items, touched, requests>> /\ Goes(c, NoRequest)
      /\ acked' = acked \union {Row(x, w)}
      /\ datasets' = {IF d.id = x THEN [d EXCEPT !.count = Items] ELSE d : d \in datasets}
  BY <1>1 DEF SetCount, At, Ends
<1>6. requests \in Nat /\ requests <= requests' /\ requests' \in Nat /\ Items \in Nat
  BY <1>5, TelemetryAssumption DEF WholeInv
<1>7. ASSUME NEW d \in datasets
      PROVE  (IF d.id = x THEN [d EXCEPT !.count = Items] ELSE d)
               = Dataset(d.id, d.ws, IF d.id = x THEN Items ELSE d.count)
  <2>1. d = [id |-> d.id, ws |-> d.ws, count |-> d.count]
    BY InData DEF Dataset
  <2>2. [d EXCEPT !.count = Items] = [id |-> d.id, ws |-> d.ws, count |-> Items]
    BY <2>1
  <2> QED BY <2>1, <2>2 DEF Dataset
<1>8. datasets' = {Dataset(d.id, d.ws, IF d.id = x THEN Items ELSE d.count) : d \in datasets}
  BY <1>5, <1>7
<1>9. \A d : d.id # x => (d \in datasets' <=> d \in datasets)
  <2>1. \A d \in datasets : d.id # x => d \in datasets'
    BY <1>5
  <2>2. \A d \in datasets' : d.id # x => d \in datasets
    <3> SUFFICES ASSUME NEW o \in datasets,
                        NEW d, d = Dataset(o.id, o.ws, IF o.id = x THEN Items ELSE o.count), d.id # x
                 PROVE  d \in datasets
      BY <1>8
    <3>1. o.id # x
      BY Given
    <3> QED BY <3>1, <1>7
  <2> QED BY <2>1, <2>2
<1>10. \A d \in datasets' : d.id = x =>
           \E o \in datasets : o.id = x /\ d = Dataset(x, o.ws, Items)
  BY <1>8, Given
<1>11. \A y : RowsOf(y)' = RowsOf(y)
  BY <1>5 DEF RowsOf
<1>12. \A d, e \in datasets : d.id = e.id => d = e
  BY DEF WholeInv
<1>13. \A o \in datasets : o.id = x /\ x \notin touched => o = Dataset(x, w, 0)
  BY <1>3, <1>12, Given
<1>14. ASSUME NEW d \in datasets', d.id = x PROVE Counted(d)'
  <2>1. PICK o \in datasets : o.id = x /\ d = Dataset(x, o.ws, Items)
    BY <1>10, <1>14
  <2>2. x \notin touched => o.ws = w
    BY <1>13, <2>1, Given
  <2>3. x \notin touched => RowsOf(x)' = FirstRows(x, o.ws, Items)
    BY <1>3, <1>4, <1>11, <2>2
  <2> QED BY <1>3, <1>5, <1>6, <2>1, <2>3, Given DEF Counted
<1>15. InHand(NoRequest)' /\ ~Making(NoRequest)
  BY DEF InHand, Making, NoRequest
<1>16. \A d \in datasets : d.id = x => \E e \in datasets' : e.id = x /\ e.count = Items
  BY <1>8, Given
<1>17. Kept(Row(x, w))'
  <2>1. x \notin touched => \E d \in datasets : d.id = x
    BY <1>3, Given
  <2> QED BY <1>5, <1>16, <2>1 DEF Kept, Row
<1>18. \A d, e \in datasets' : d.id = x /\ e.id = x => d = e
  BY <1>10, <1>12
<1>19. \A d \in datasets' : d.id = x => \E o \in datasets : o.id = x /\ o.ws = d.ws
  BY <1>10, Given
<1>20. scene = "evaluations" => \A a \in acked' : a \in acked \/ Kept(a)'
  BY <1>5, <1>17
<1>21. x \in Nat /\ scene' = scene /\ touched \subseteq touched' /\ Goes(c, NoRequest)
  BY <1>3, <1>5
<1> QED BY <1>6, <1>9, <1>11, <1>14, <1>15, <1>16, <1>18, <1>19, <1>20, <1>21, <1>3, WholeMoves

\* Only the rows of the caller's workspace go, and its dataset is announced with them.
LEMMA DeleteDatasetWhole ==
    ASSUME IInv, WholeInv, NEW c \in Clients, DeleteDataset(c) PROVE WholeInv'
<1>1. PICK o \in datasets, w \in Workspaces :
        /\ items' = {i \in items : ~(i.dataset = o.id /\ i.ws = w)}
        /\ touched' = IF o.ws = w THEN touched \union {o.id} ELSE touched
        /\ Goes(c, [op |-> "delete dataset", id |-> o.id, ws |-> w])
  BY DEF DeleteDataset
<1>2. PICK x : x = o.id
  OBVIOUS
<1>3. /\ requests' = requests + 1 /\ scene' = scene /\ datasets' = datasets /\ acked' = acked
  BY DEF DeleteDataset, Arrives
<1>4. requests \in Nat /\ requests <= requests' /\ requests' \in Nat
  BY <1>3 DEF WholeInv
<1>5. Counted(o) /\ x \in Nat /\ x < requests
  BY <1>2 DEF WholeInv, Counted
<1>6. \A y : y # x => RowsOf(y)' = RowsOf(y)
  BY <1>1, <1>2 DEF RowsOf
<1>7. \A d, e \in datasets : d.id = e.id => d = e
  BY DEF WholeInv
<1>8. o.ws = w => x \in touched'
  BY <1>1, <1>2
\* Rows of an untouched dataset are in its workspace.
<1>9. ASSUME NEW k, o.ws # w, RowsOf(x) = FirstRows(x, o.ws, k) PROVE RowsOf(x)' = RowsOf(x)
  <2>1. \A i \in RowsOf(x) : i.ws # w
    BY <1>9, FirstRowsAre
  <2> QED BY <1>1, <1>2, <2>1 DEF RowsOf
<1>10. touched \subseteq touched'
  BY <1>1
<1>11. ASSUME NEW d \in datasets', d.id = x PROVE Counted(d)'
  <2>1. d = o
    BY <1>2, <1>3, <1>7, <1>11
  <2>2. x \notin touched' /\ o.count > 0 => RowsOf(x)' = FirstRows(x, o.ws, Items)
    BY <1>2, <1>5, <1>8, <1>9, <1>10 DEF Counted
  <2>3. x < requests'
    BY <1>3, <1>4, <1>5
  <2> QED BY <1>2, <1>5, <2>1, <2>2, <2>3 DEF Counted
<1> DEFINE rec == [op |-> "delete dataset", id |-> x, ws |-> w]
<1>12. /\ rec.op = "delete dataset" /\ rec.id = x /\ rec.ws = w
  OBVIOUS
<1>13. ~Making(rec) /\ Goes(c, rec)
  BY <1>1, <1>2 DEF Making
<1>14. InHand(rec)'
  <2>1. x < requests'
    BY <1>3, <1>4, <1>5
  <2>2. \A d \in datasets' : d.id = x /\ d.ws = w => d.id \in touched'
    BY <1>2, <1>3, <1>7, <1>8
  <2> HIDE DEF rec
  <2> QED BY <1>5, <1>12, <1>13, <2>1, <2>2 DEF InHand, Making
<1> HIDE DEF rec
<1>15. ASSUME NEW e \in Clients \ {c}, Making(req[e]), req[e].id = x
       PROVE  x \in touched' \/ InHand(req[e])'
  <2> SUFFICES ASSUME x \notin touched' PROVE InHand(req[e])'
    OBVIOUS
  <2>1. InHand(req[e]) /\ req'[e] = req[e] /\ x \notin touched
    BY <1>10, <1>13 DEF WholeInv, Goes, IInv, RequestsKnow
  <2>2. Dataset(x, req[e].ws, 0) \in datasets /\ RowsOf(x) = FirstRows(x, req[e].ws, Made(req[e]))
    BY <1>15, <2>1 DEF InHand
  <2>3. req[e].ws = o.ws
    BY <1>2, <1>7, <2>2, Given
  <2>4. RowsOf(x)' = RowsOf(x)
    BY <1>8, <1>9, <2>2, <2>3
  <2>5. req[e].id < requests'
    BY <1>3, <1>4, <1>5, <1>15
  <2>6. RowsOf(req[e].id)' = RowsOf(req[e].id)
    BY <1>15, <2>1, <2>4 DEF RowsOf
  <2> QED BY <1>3, <1>15, <2>1, <2>5, <2>6 DEF InHand, Making, Made
<1> QED BY <1>2, <1>3, <1>4, <1>5, <1>6, <1>7, <1>10, <1>11, <1>13, <1>14, <1>15, WholeMoves

\* The dataset is there to be deleted only when it was announced.
LEMMA DeleteDatasetRowWhole ==
    ASSUME IInv, WholeInv, NEW c \in Clients, DeleteDatasetRow(c) PROVE WholeInv'
<1>1. PICK x, w : x = req[c].id /\ w = req[c].ws
  OBVIOUS
<1> DEFINE gone == {d \in datasets : d.id = x /\ d.ws = w}
<1>2. /\ req[c].op = "delete dataset" /\ Goes(c, NoRequest)
      /\ datasets' = datasets \ gone
      /\ items' = {i \in items : ~HasId(gone, i.dataset)}
      /\ UNCHANGED <<scene, touched, acked, requests>>
  BY <1>1 DEF DeleteDatasetRow, At, Ends
<1>3. x \in Nat /\ x < requests /\ \A d \in gone : x \in touched
  <2>1. InHand(req[c])
    BY DEF WholeInv
  <2> QED BY <1>1, <1>2, <2>1 DEF InHand
<1>4. requests \in Nat /\ requests <= requests' /\ requests' \in Nat
  <2>1. requests' = requests
    BY <1>2
  <2> QED BY <2>1 DEF WholeInv
<1>5. \A y : HasId(gone, y) => y = x
  BY DEF HasId
<1>6. \A y : y # x => RowsOf(y)' = RowsOf(y)
  BY <1>2, <1>5 DEF RowsOf
<1>7. \A d, e \in datasets : d.id = e.id => d = e
  BY DEF WholeInv
<1>8. CASE gone = {}
  <2>1. datasets' = datasets /\ items' = items
    BY <1>2, <1>8 DEF HasId
  <2>2. NoRequest.op = "idle"
    BY DEF NoRequest
  <2> QED BY <1>2, <1>4, <2>1, <2>2, WholeRests
<1>9. CASE gone # {}
  <2>1. x \in touched
    BY <1>3, <1>9
  <2>2. InHand(NoRequest)' /\ ~Making(NoRequest)
    BY DEF InHand, Making, NoRequest
  <2>3. \A d : d.id # x => (d \in datasets' <=> d \in datasets)
    BY <1>2
  <2>4. ASSUME NEW d \in datasets', d.id = x PROVE Counted(d)'
    <3>1. Counted(d)
      BY <1>2 DEF WholeInv
    <3> QED BY <1>2, <2>1, <2>4, <3>1 DEF Counted
  <2>5. datasets' \subseteq datasets
    BY <1>2
  <2>6. scene' = scene /\ touched' = touched /\ acked' = acked /\ Goes(c, NoRequest)
    BY <1>2
  <2> HIDE DEF gone
  <2> QED BY <1>3, <1>4, <1>6, <1>7, <2>1, <2>2, <2>3, <2>4, <2>5, <2>6, WholeMoves
<1> QED BY <1>8, <1>9

LEMMA DatasetStepWhole == ASSUME IInv, WholeInv, NEW c \in Clients, DatasetStep(c) PROVE WholeInv'
  BY CreateDatasetWhole, InsertItemWhole, SetCountWhole, DeleteDatasetWhole, DeleteDatasetRowWhole
     DEF DatasetStep

-----------------------------------------------------------------------------
\* The states of a scan and of a walk.
ScoreOps == {"insert score", "keyset", "count", "offset", "walked"}

\* c goes on to a state that is about no dataset, and about scores only if its step is.
OfOthers(c) ==
    \E rec : /\ Goes(c, rec)
             /\ rec.op \notin {"insert item", "set count", "delete dataset"}
             /\ rec.op = "insert span" => scene = "traces"
             /\ rec.op \in ScoreOps => ScoreStep(c)

\* What the requests about other tables do next.
LEMMA OtherOps ==
    ASSUME IInv, NEW c \in Clients,
           \/ TraceStep(c) \/ RunStep(c) \/ EvaluationStep(c)
           \/ ScoreStep(c) \/ KeyStep(c) \/ StatementFails(c)
    PROVE  OfOthers(c)
<1>1. ASSUME NEW rec, Goes(c, rec),
             \/ rec.op \in {"idle", "delete spans", "delete trace", "insert run", "update run",
                            "delete run", "delete evaluation", "judge", "stamp"}
             \/ rec.op \in ScoreOps /\ ScoreStep(c)
      PROVE  OfOthers(c)
  BY <1>1 DEF OfOthers, ScoreOps
<1>2. "op" \in DOMAIN req[c]
  BY DEF IInv, RequestsKnow, Knows
<1>3. Goes(c, NoRequest) => OfOthers(c)
  <2>1. NoRequest.op = "idle"
    BY DEF NoRequest
  <2> QED BY <1>1, <2>1
<1>4. CASE CreateSpan(c)
  <2>1. scene = "traces"
    BY <1>4 DEF CreateSpan, Arrives
  <2>2. PICK x, y, z :
          Goes(c, NoRequest) \/ Goes(c, [op |-> "insert span", id |-> x, trace |-> y, ws |-> z])
    BY <1>4 DEF CreateSpan
  <2>3. [op |-> "insert span", id |-> x, trace |-> y, ws |-> z].op = "insert span"
    OBVIOUS
  <2> QED BY <1>3, <2>1, <2>2, <2>3 DEF OfOthers, ScoreOps
<1>5. CASE CreateTrace(c) \/ InsertSpan(c) \/ DeleteTraceRow(c) \/ InsertRun(c) \/ SetRun(c) \/ DeleteRunRow(c)
  BY <1>3, <1>5 DEF CreateTrace, InsertSpan, DeleteTraceRow, InsertRun, SetRun, DeleteRunRow, Ends
<1>6. CASE \/ CreateEvaluation(c) \/ CreateResult(c) \/ RunEvaluation(c) \/ DeleteEvaluationRow(c)
           \/ InsertScore(c) \/ Stamp(c) \/ CreateApiKey(c) \/ DeleteApiKey(c) \/ StatementFails(c)
  BY <1>3, <1>6 DEF CreateEvaluation, CreateResult, RunEvaluation, DeleteEvaluationRow, InsertScore,
     Stamp, CreateApiKey, DeleteApiKey, StatementFails, Ends
<1>7. CASE DeleteTrace(c)
  <2>1. PICK x, y : Goes(c, NoRequest) \/ Goes(c, [op |-> "delete spans", id |-> x, ws |-> y])
    BY <1>7 DEF DeleteTrace, Ends
  <2> QED BY <1>1, <1>3, <2>1
<1>8. CASE DeleteSpans(c)
  <2>1. Goes(c, [req[c] EXCEPT !.op = "delete trace"])
    BY <1>8 DEF DeleteSpans
  <2>2. [req[c] EXCEPT !.op = "delete trace"].op = "delete trace"
    BY <1>2
  <2> QED BY <1>1, <2>1, <2>2
<1>9. CASE CreateRun(c)
  <2>1. PICK x, y, z : Goes(c, NoRequest) \/ Goes(c, [op |-> "insert run", id |-> x, trace |-> y, ws |-> z])
    BY <1>9 DEF CreateRun
  <2> QED BY <1>1, <1>3, <2>1
<1>10. CASE UpdateRun(c) \/ DeleteRun(c) \/ DeleteEvaluation(c)
  <2>1. PICK x, y : \/ Goes(c, [op |-> "update run", id |-> x, ws |-> y])
                    \/ Goes(c, [op |-> "delete run", id |-> x, ws |-> y])
                    \/ Goes(c, [op |-> "delete evaluation", id |-> x, ws |-> y])
    BY <1>10 DEF UpdateRun, DeleteRun, DeleteEvaluation
  <2> QED BY <1>1, <2>1
<1>11. CASE Scan(c)
  <2>1. Goes(c, [op |-> "insert score", at |-> clock])
    BY <1>11 DEF Scan
  <2> QED BY <1>1, <2>1, <1>11 DEF ScoreStep, ScoreOps
<1>12. CASE Walk(c)
  <2>1. PICK size, n :
          \/ Goes(c, [op |-> "keyset", size |-> size, after |-> None, seen |-> << >>, first |-> n])
          \/ Goes(c, [op |-> "count", size |-> size, page |-> 1, seen |-> << >>, first |-> n])
    BY <1>12 DEF Walk
  <2> QED BY <1>1, <2>1, <1>12 DEF ScoreStep, ScoreOps
<1>13. CASE KeysetPage(c)
  <2>1. PICK x, y, z :
          \/ Goes(c, [req[c] EXCEPT !.seen = x, !.after = y])
          \/ Goes(c, [op |-> "walked", way |-> "keyset", seen |-> x, first |-> y, size |-> z])
    BY <1>13 DEF KeysetPage, Walked
  <2>2. [req[c] EXCEPT !.seen = x, !.after = y].op = "keyset"
    BY <1>2, <1>13 DEF KeysetPage, At
  <2> QED BY <1>1, <2>1, <2>2, <1>13 DEF ScoreStep, ScoreOps
<1>14. CASE CountScores(c)
  <2>1. PICK u, v, w, x, y :
          Goes(c, [op |-> "offset", size |-> u, page |-> v, seen |-> w, first |-> x, total |-> y])
    BY <1>14 DEF CountScores
  <2> QED BY <1>1, <2>1, <1>14 DEF ScoreStep, ScoreOps
<1>15. CASE OffsetPage(c)
  <2>1. PICK u, v, w, x :
          \/ Goes(c, [op |-> "count", size |-> u, page |-> v, seen |-> w, first |-> x])
          \/ Goes(c, [op |-> "walked", way |-> "offset", seen |-> w, first |-> x, size |-> u])
    BY <1>15 DEF OffsetPage, Walked
  <2> QED BY <1>1, <2>1, <1>15 DEF ScoreStep, ScoreOps
<1>16. CASE Authenticate(c) \/ Judge(c)
  <2>1. PICK x, y : \/ Goes(c, NoRequest) \/ Goes(c, [op |-> "judge", row |-> x])
                    \/ Goes(c, [op |-> "stamp", id |-> x, at |-> y])
    BY <1>16 DEF Authenticate, Judge, Ends
  <2> QED BY <1>1, <1>3, <2>1
<1>17. OfOthers(c)
  BY <1>4, <1>5, <1>6, <1>7, <1>8, <1>9, <1>10, <1>11, <1>12, <1>13, <1>14, <1>15, <1>16
     DEF TraceStep, RunStep, EvaluationStep, ScoreStep, KeyStep
<1> QED BY <1>17

\* A step of a request that is about other tables.
LEMMA OtherStepWhole ==
    ASSUME IInv, WholeInv, NEW c \in Clients,
           \/ TraceStep(c) \/ RunStep(c) \/ EvaluationStep(c)
           \/ ScoreStep(c) \/ KeyStep(c) \/ StatementFails(c)
    PROVE  WholeInv'
<1>1. requests \in Nat
  BY DEF WholeInv
<1> USE DEF Arrives, At, traceVars, dataVars, keyVars
<1>2. /\ UNCHANGED <<scene, datasets, items>>
      /\ requests' = requests \/ requests' = requests + 1
  <2>1. CASE TraceStep(c)
    BY <2>1 DEF TraceStep, CreateTrace, CreateSpan, InsertSpan, DeleteTrace, DeleteSpans, DeleteTraceRow
  <2>2. CASE RunStep(c)
    BY <2>2 DEF RunStep, CreateRun, InsertRun, UpdateRun, SetRun, DeleteRun, DeleteRunRow
  <2>3. CASE EvaluationStep(c)
    BY <2>3 DEF EvaluationStep, CreateEvaluation, CreateResult, RunEvaluation, DeleteEvaluation,
       DeleteEvaluationRow
  <2>4. CASE ScoreStep(c)
    BY <2>4 DEF ScoreStep, Scan, InsertScore, Walk, KeysetPage, CountScores, OffsetPage
  <2>5. CASE KeyStep(c)
    BY <2>5 DEF KeyStep, Authenticate, Judge, Stamp, CreateApiKey, DeleteApiKey
  <2>6. CASE StatementFails(c)
    BY <2>6 DEF StatementFails
  <2> QED BY <2>1, <2>2, <2>3, <2>4, <2>5, <2>6
<1>3. requests' \in Nat /\ requests <= requests'
  <2>1. requests' = requests \/ requests' = requests + 1
    BY <1>2
  <2> QED BY <1>1, <2>1
<1>4. touched \subseteq touched' /\ (acked' = acked \/ InsertSpan(c))
  <2>1. CASE TraceStep(c)
    BY <2>1 DEF TraceStep, CreateTrace, CreateSpan, DeleteTrace, InsertSpan, DeleteSpans, DeleteTraceRow
  <2>2. CASE RunStep(c)
    BY <2>2 DEF RunStep, CreateRun, InsertRun, UpdateRun, SetRun, DeleteRun, DeleteRunRow
  <2>3. CASE EvaluationStep(c)
    BY <2>3 DEF EvaluationStep, CreateEvaluation, CreateResult, RunEvaluation, DeleteEvaluation,
       DeleteEvaluationRow
  <2>4. CASE ScoreStep(c)
    BY <2>4 DEF ScoreStep, Scan, InsertScore, Walk, KeysetPage, CountScores, OffsetPage
  <2>5. CASE KeyStep(c)
    BY <2>5 DEF KeyStep, Authenticate, Judge, Stamp, CreateApiKey, DeleteApiKey
  <2>6. CASE StatementFails(c)
    BY <2>6 DEF StatementFails
  <2> QED BY <2>1, <2>2, <2>3, <2>4, <2>5, <2>6
<1>5. scene = "evaluations" => acked' = acked
  <2>1. InsertSpan(c) => scene # "evaluations"
    BY DEF InsertSpan, WholeInv, InHand
  <2> QED BY <1>4, <2>1
<1>6. PICK rec : /\ Goes(c, rec)
                 /\ rec.op \notin {"insert item", "set count", "delete dataset"}
                 /\ rec.op = "insert span" => scene = "traces"
  BY OtherOps DEF OfOthers
<1> QED BY <1>2, <1>3, <1>4, <1>5, <1>6, WholeRests

\* A step of no request.
LEMMA WholeUnmoved ==
    ASSUME WholeInv, UNCHANGED <<scene, dataVars, req, acked, touched, requests>> PROVE WholeInv'
<1>1. \A x : RowsOf(x)' = RowsOf(x)
  BY DEF RowsOf, dataVars
<1>2. /\ \A d : Counted(d)' <=> Counted(d)
      /\ \A a : Kept(a)' <=> Kept(a)
      /\ \A c \in Clients : InHand(req[c])' <=> InHand(req[c])
  BY ZenonT(40), <1>1 DEF Counted, Kept, InHand, Making, Made, dataVars
<1> QED BY <1>1, <1>2 DEF WholeInv, Making, dataVars

\* WholeInv is an invariant.
THEOREM WholeInvIsInvariant == TelemetrySpec => [](IInv /\ WholeInv)
<1>1. TelemetryInit => WholeInv
  <2> SUFFICES ASSUME TelemetryInit PROVE WholeInv
    OBVIOUS
  <2>1. /\ datasets = {} /\ acked = {} /\ requests = 0
        /\ \A c \in Clients : req[c].op = "idle"
    BY DEF TelemetryInit, NoRequest
  <2>2. \A c \in Clients : InHand(req[c]) /\ ~Making(req[c])
    BY <2>1 DEF InHand, Making
  <2> QED BY <2>1, <2>2 DEF WholeInv
<1>2. IInv /\ WholeInv /\ [TelemetryNext]_telemetryVars => WholeInv'
  <2> SUFFICES ASSUME IInv, WholeInv, [TelemetryNext]_telemetryVars PROVE WholeInv'
    OBVIOUS
  <2>1. ASSUME NEW c \in Clients,
               \/ TraceStep(c) \/ RunStep(c) \/ DatasetStep(c) \/ EvaluationStep(c)
               \/ ScoreStep(c) \/ KeyStep(c) \/ StatementFails(c)
        PROVE  WholeInv'
    BY <2>1, DatasetStepWhole, OtherStepWhole
  <2>2. CASE Tick
    BY <2>2, WholeUnmoved DEF Tick
  <2>3. CASE UNCHANGED telemetryVars
    BY <2>3, WholeUnmoved DEF telemetryVars
  <2> QED BY <2>1, <2>2, <2>3 DEF TelemetryNext
<1> QED BY <1>1, <1>2, IInvIsInvariant, PTL DEF TelemetrySpec

\* Creations, deletions and failures half way interleave as they may: a dataset that is
\* counted has exactly its rows, and one that was answered 201 is there with all of them.
THEOREM DatasetsAreWhole == TelemetrySpec => []DatasetIsWhole
<1>1. WholeInv => DatasetIsWhole
  <2> SUFFICES ASSUME WholeInv PROVE DatasetIsWhole
    OBVIOUS
  <2>1. ASSUME NEW d \in datasets, d.id \notin touched, d.count > 0
        PROVE  Cardinality({i \in items : i.dataset = d.id}) = d.count
    <3>1. d.count = Items /\ RowsOf(d.id) = FirstRows(d.id, d.ws, Items)
      BY <2>1 DEF WholeInv, Counted
    <3>2. Items \in Nat
      BY TelemetryAssumption
    <3> QED BY <3>1, <3>2, RowCount DEF RowsOf
  <2> QED BY <2>1 DEF DatasetIsWhole, WholeInv, Kept
<1> QED BY <1>1, WholeInvIsInvariant, PTL

-----------------------------------------------------------------------------
(***************************************************************************)
(* API keys.  The stamp is skipped on what the row said when it was read,  *)
(* so the lag is bounded only where that row is still the key: on SQLite,  *)
(* where nobody else moves until the request has ended.                    *)
(***************************************************************************)

Lags == key.lastUsed # None /\ (admitted = key.lastUsed \/ admitted < key.lastUsed + Debounce)

\* What an authentication half way holds: the row it judges, the time it stamps.
Holds(rec) ==
    /\ rec.op \in {"idle", "judge", "stamp"}
    /\ rec.op = "stamp" => rec.at \in Nat
    /\ backend = "sqlite" /\ rec.op = "judge" => key # None /\ rec.row = key

KeyInv ==
    /\ clock \in Nat
    /\ key # None => "lastUsed" \in DOMAIN key /\ key.lastUsed \in Nat \union {None}
    /\ scene # "keys" => key = None
    /\ scene = "keys" => \A c \in Clients : Holds(req[c])
    /\ scene = "keys" /\ backend = "sqlite" /\ key # None /\ admitted # None => Lags

\* A step of a request in another scene.
LEMMA KeysElsewhere ==
    ASSUME KeyInv, scene # "keys", NEW c \in Clients,
           \/ TraceStep(c) \/ RunStep(c) \/ DatasetStep(c) \/ EvaluationStep(c)
           \/ ScoreStep(c) \/ KeyStep(c) \/ StatementFails(c)
    PROVE  KeyInv'
<1> USE DEF Arrives, At, traceVars, dataVars, keyVars
<1>1. UNCHANGED <<scene, clock, key>>
  <2>1. CASE TraceStep(c)
    BY <2>1 DEF TraceStep, CreateTrace, CreateSpan, InsertSpan, DeleteTrace, DeleteSpans, DeleteTraceRow
  <2>2. CASE RunStep(c)
    BY <2>2 DEF RunStep, CreateRun, InsertRun, UpdateRun, SetRun, DeleteRun, DeleteRunRow
  <2>3. CASE DatasetStep(c)
    BY <2>3 DEF DatasetStep, CreateDataset, InsertItem, SetCount, DeleteDataset, DeleteDatasetRow
  <2>4. CASE EvaluationStep(c)
    BY <2>4 DEF EvaluationStep, CreateEvaluation, CreateResult, RunEvaluation, DeleteEvaluation,
       DeleteEvaluationRow
  <2>5. CASE ScoreStep(c)
    BY <2>5 DEF ScoreStep, Scan, InsertScore, Walk, KeysetPage, CountScores, OffsetPage
  <2>6. CASE KeyStep(c)
    BY <2>6 DEF KeyStep, Authenticate, Judge, Stamp, CreateApiKey, DeleteApiKey, KeyInv, Valid
  <2>7. CASE StatementFails(c)
    BY <2>7 DEF StatementFails
  <2> QED BY <2>1, <2>2, <2>3, <2>4, <2>5, <2>6, <2>7
<1> QED BY <1>1 DEF KeyInv

\* In the scene of the keys no other request is under way.
LEMMA OnlyKeys ==
    ASSUME KeyInv, scene = "keys", NEW c \in Clients,
           \/ TraceStep(c) \/ RunStep(c) \/ DatasetStep(c) \/ EvaluationStep(c)
           \/ ScoreStep(c) \/ KeyStep(c) \/ StatementFails(c)
    PROVE  KeyStep(c) \/ StatementFails(c)
<1>1. req[c].op \in {"idle", "judge", "stamp"}
  BY DEF KeyInv, Holds
<1> USE DEF Arrives, At
<1>2. ~TraceStep(c)
  BY <1>1 DEF TraceStep, CreateTrace, CreateSpan, InsertSpan, DeleteTrace, DeleteSpans, DeleteTraceRow
<1>3. ~RunStep(c)
  BY <1>1 DEF RunStep, CreateRun, InsertRun, UpdateRun, SetRun, DeleteRun, DeleteRunRow
<1>4. ~DatasetStep(c)
  BY <1>1 DEF DatasetStep, CreateDataset, InsertItem, SetCount, DeleteDataset, DeleteDatasetRow
<1>5. ~EvaluationStep(c)
  BY <1>1 DEF EvaluationStep, CreateEvaluation, CreateResult, RunEvaluation, DeleteEvaluation,
     DeleteEvaluationRow
<1>6. ~ScoreStep(c)
  BY <1>1 DEF ScoreStep, Scan, InsertScore, Walk, KeysetPage, CountScores, OffsetPage
<1> QED BY <1>2, <1>3, <1>4, <1>5, <1>6

\* A step of c in the scene of the keys: on SQLite nobody else is half way, so only what c
\* holds and the lag are to be shown.
LEMMA KeyMoves ==
    ASSUME IInv, KeyInv, scene = "keys", NEW c \in Clients, NEW rec, Goes(c, rec), Turn(c),
           UNCHANGED <<backend, scene, clock>>, Holds(rec)',
           key' # None => "lastUsed" \in DOMAIN key' /\ key'.lastUsed \in Nat \union {None},
           backend = "sqlite" /\ key' # None /\ admitted' # None => Lags'
    PROVE  KeyInv'
<1>1. req'[c] = rec /\ \A e \in Clients \ {c} : req'[e] = req[e]
  BY DEF IInv, RequestsKnow, Goes
<1>2. ASSUME NEW e \in Clients PROVE Holds(req[e])'
  <2>1. CASE e = c
    BY <1>1, <2>1 DEF Holds
  <2>2. CASE e # c
    <3>1. Holds(req[e]) /\ req'[e] = req[e]
      BY <1>1, <2>2 DEF KeyInv
    <3>2. backend = "sqlite" => req[e].op # "judge"
      BY <2>2 DEF Turn, Free, Between
    <3> QED BY <3>1, <3>2 DEF Holds
  <2> QED BY <2>1, <2>2
<1> QED BY <1>2 DEF KeyInv

LEMMA AuthenticateKeeps ==
    ASSUME IInv, KeyInv, scene = "keys", NEW c \in Clients, Authenticate(c) PROVE KeyInv'
<1>1. UNCHANGED <<backend, scene, clock, key, admitted>> /\ Turn(c)
  BY DEF Authenticate, Arrives, keyVars
<1>2. CASE Goes(c, NoRequest)
  BY <1>1, <1>2, KeyMoves DEF NoRequest, KeyInv, Holds, Lags
<1>3. CASE key # None /\ Goes(c, [op |-> "judge", row |-> key])
  <2> DEFINE rec == [op |-> "judge", row |-> key]
  <2>1. rec.op = "judge" /\ Holds(rec)'
    BY <1>1, <1>3 DEF Holds
  <2>2. backend = "sqlite" /\ key' # None /\ admitted' # None => Lags'
    BY <1>1 DEF KeyInv, Lags
  <2>3. key' # None => "lastUsed" \in DOMAIN key' /\ key'.lastUsed \in Nat \union {None}
    BY <1>1 DEF KeyInv
  <2> HIDE DEF rec
  <2> QED BY <1>1, <1>3, <2>1, <2>2, <2>3, KeyMoves DEF rec
<1> QED BY <1>2, <1>3 DEF Authenticate, Ends

LEMMA JudgeKeeps == ASSUME IInv, KeyInv, scene = "keys", NEW c \in Clients, Judge(c) PROVE KeyInv'
<1>1. UNCHANGED <<backend, scene, clock, key>> /\ Turn(c) /\ req[c].op = "judge"
  BY DEF Judge, At
<1>2. key' # None => "lastUsed" \in DOMAIN key' /\ key'.lastUsed \in Nat \union {None}
  BY <1>1 DEF KeyInv
<1>3. CASE Goes(c, NoRequest) /\ admitted' = admitted
  BY <1>1, <1>2, <1>3, KeyMoves DEF NoRequest, KeyInv, Holds, Lags
<1>4. CASE /\ Goes(c, [op |-> "stamp", id |-> req[c].row.id, at |-> clock])
           /\ admitted' = admitted
  <2>1. PICK rec : Goes(c, rec) /\ rec.op = "stamp" /\ rec.at = clock
    BY <1>4
  <2>2. Holds(rec)'
    BY <2>1 DEF Holds, KeyInv
  <2>3. backend = "sqlite" /\ key' # None /\ admitted' # None => Lags'
    BY <1>1, <1>4 DEF KeyInv, Lags
  <2> QED BY <1>1, <1>2, <2>1, <2>2, <2>3, KeyMoves
<1>5. CASE /\ Goes(c, NoRequest) /\ Admit(req[c].row.id, clock)
           /\ ~(req[c].row.lastUsed = None \/ clock >= req[c].row.lastUsed + Debounce)
  <2>1. ASSUME backend = "sqlite" PROVE key' # None /\ admitted' # None => Lags'
    <3>1. req[c].row = key /\ key # None
      BY <1>1, <2>1 DEF KeyInv, Holds
    <3>2. key.lastUsed # None /\ ~(clock >= key.lastUsed + Debounce) /\ admitted' = clock
      BY <1>5, <3>1 DEF Admit, Valid
    <3>3. key.lastUsed \in Nat /\ Debounce \in Nat /\ clock \in Nat
      BY <3>1, <3>2, TelemetryAssumption DEF KeyInv
    <3>4. clock < key.lastUsed + Debounce
      BY <3>2, <3>3
    <3> QED BY <1>1, <3>2, <3>4 DEF Lags
  <2>2. NoRequest.op = "idle" /\ Holds(NoRequest)'
    BY DEF NoRequest, Holds
  <2> QED BY <1>1, <1>2, <1>5, <2>1, <2>2, KeyMoves
<1>6. \/ Goes(c, NoRequest) /\ admitted' = admitted
      \/ /\ Goes(c, [op |-> "stamp", id |-> req[c].row.id, at |-> clock])
         /\ admitted' = admitted
      \/ /\ Goes(c, NoRequest) /\ Admit(req[c].row.id, clock)
         /\ ~(req[c].row.lastUsed = None \/ clock >= req[c].row.lastUsed + Debounce)
  BY DEF Judge, Ends
<1> QED BY <1>3, <1>4, <1>5, <1>6

LEMMA StampKeeps == ASSUME IInv, KeyInv, scene = "keys", NEW c \in Clients, Stamp(c) PROVE KeyInv'
<1>1. /\ UNCHANGED <<backend, scene, clock>> /\ Turn(c) /\ req[c].op = "stamp"
      /\ Goes(c, NoRequest)
  BY DEF Stamp, At, Ends
<1>2. NoRequest.op = "idle" /\ Holds(NoRequest)'
  BY DEF NoRequest, Holds
<1>3. CASE ~Valid(req[c].id)
  <2>1. key' = key /\ admitted' = admitted
    BY <1>3 DEF Stamp, Admit
  <2> QED BY <1>1, <1>2, <2>1, KeyMoves DEF KeyInv, Lags
<1>4. CASE Valid(req[c].id)
  <2>1. key # None /\ key' = [key EXCEPT !.lastUsed = req[c].at] /\ admitted' = req[c].at
    BY <1>4 DEF Stamp, Admit, Valid
  <2>2. "lastUsed" \in DOMAIN key' /\ key'.lastUsed = req[c].at
    BY <2>1 DEF KeyInv
  <2>3. admitted' # None => Lags'
    BY <2>1, <2>2 DEF Lags
  <2>4. req[c].at \in Nat
    BY <1>1 DEF KeyInv, Holds
  <2> QED BY <1>1, <1>2, <2>2, <2>3, <2>4, KeyMoves
<1> QED BY <1>3, <1>4

\* A key is created and deleted in one statement, while on SQLite nobody authenticates.
LEMMA CreateKeyKeeps ==
    ASSUME IInv, KeyInv, scene = "keys", NEW c \in Clients, CreateApiKey(c) PROVE KeyInv'
<1>1. UNCHANGED <<backend, scene, clock>> /\ Turn(c) /\ Goes(c, NoRequest) /\ admitted' = None
  BY DEF CreateApiKey, Arrives, Ends
<1>2. PICK w, e : key' = [id |-> Fresh, ws |-> w, lastUsed |-> None, expires |-> e]
  BY DEF CreateApiKey
<1>3. "lastUsed" \in DOMAIN key' /\ key'.lastUsed = None
  BY <1>2
<1>4. Holds(NoRequest)'
  BY DEF NoRequest, Holds
<1> QED BY <1>1, <1>3, <1>4, KeyMoves

LEMMA DeleteKeyKeeps ==
    ASSUME IInv, KeyInv, scene = "keys", NEW c \in Clients, DeleteApiKey(c) PROVE KeyInv'
<1>1. /\ UNCHANGED <<backend, scene, clock>> /\ Turn(c) /\ Goes(c, NoRequest)
      /\ key' = None /\ admitted' = None
  BY DEF DeleteApiKey, Arrives, Ends
<1>2. Holds(NoRequest)'
  BY DEF NoRequest, Holds
<1> QED BY <1>1, <1>2, KeyMoves

LEMMA KeyFailureKeeps ==
    ASSUME IInv, KeyInv, scene = "keys", NEW c \in Clients, StatementFails(c) PROVE KeyInv'
<1>1. UNCHANGED <<backend, scene, clock, key, admitted>> /\ Turn(c) /\ Goes(c, NoRequest)
  BY DEF StatementFails, Ends, keyVars
<1>2. Holds(NoRequest)'
  BY DEF NoRequest, Holds
<1> QED BY <1>1, <1>2, KeyMoves DEF KeyInv, Lags

\* Time passes on SQLite while no request is half way, and is not in what is kept.
LEMMA KeyUnmoved ==
    ASSUME KeyInv, UNCHANGED <<backend, scene, key, admitted, req>>, clock' \in Nat PROVE KeyInv'
<1>1. \A c \in Clients : Holds(req[c])' <=> Holds(req[c])
  BY DEF Holds
<1> QED BY <1>1 DEF KeyInv, Lags

\* KeyInv is an invariant.
THEOREM KeyInvIsInvariant == TelemetrySpec => []KeyInv
<1>1. TelemetryInit => KeyInv
  <2> SUFFICES ASSUME TelemetryInit PROVE KeyInv
    OBVIOUS
  <2>1. \A c \in Clients : Holds(req[c])
    BY DEF TelemetryInit, NoRequest, Holds
  <2> QED BY <2>1 DEF TelemetryInit, KeyInv
<1>2. IInv /\ KeyInv /\ [TelemetryNext]_telemetryVars => KeyInv'
  <2> SUFFICES ASSUME IInv, KeyInv, [TelemetryNext]_telemetryVars PROVE KeyInv'
    OBVIOUS
  <2>1. ASSUME NEW c \in Clients,
               \/ TraceStep(c) \/ RunStep(c) \/ DatasetStep(c) \/ EvaluationStep(c)
               \/ ScoreStep(c) \/ KeyStep(c) \/ StatementFails(c)
        PROVE  KeyInv'
    <3>1. CASE scene # "keys"
      BY <2>1, <3>1, KeysElsewhere
    <3>2. CASE scene = "keys"
      <4>1. KeyStep(c) \/ StatementFails(c)
        BY <2>1, <3>2, OnlyKeys
      <4> QED BY <3>2, <4>1, AuthenticateKeeps, JudgeKeeps, StampKeeps, CreateKeyKeeps,
             DeleteKeyKeeps, KeyFailureKeeps DEF KeyStep
    <3> QED BY <3>1, <3>2
  <2>2. CASE Tick
    <3>1. clock' \in Nat
      BY <2>2 DEF Tick, KeyInv
    <3> QED BY <2>2, <3>1, KeyUnmoved DEF Tick, keyVars
  <2>3. CASE UNCHANGED telemetryVars
    <3>1. clock' \in Nat
      BY <2>3 DEF telemetryVars, KeyInv
    <3> QED BY <2>3, <3>1, KeyUnmoved DEF telemetryVars, keyVars
  <2> QED BY <2>1, <2>2, <2>3 DEF TelemetryNext
<1> QED BY <1>1, <1>2, IInvIsInvariant, PTL DEF TelemetrySpec

\* With any debounce interval and any number of requests, on SQLite last_used_at is behind
\* the latest admitted request by less than that interval whenever nobody is half way.
THEOREM LastUsedKeepsUp == TelemetrySpec => []LastUsedLags
<1>1. KeyInv => LastUsedLags
  BY DEF KeyInv, LastUsedLags, Lags
<1> QED BY <1>1, KeyInvIsInvariant, PTL

-----------------------------------------------------------------------------
(***************************************************************************)
(* Pages over the scores.  A row's place in the list is its rank, the      *)
(* number of rows before it: a page is the rows of some ranks, and a row   *)
(* that comes in moves others only towards the end.                        *)
(***************************************************************************)

\* A table whose rows can be listed: finite, its ids not repeated.
Listable(table) ==
    /\ IsFiniteSet(table)
    /\ table \subseteq [id : Nat, at : Nat]
    /\ \A s, t \in table : s.id = t.id => s = t

\* Later orders the rows of such a table.
LEMMA LaterOrders ==
    ASSUME NEW table, Listable(table)
    PROVE  /\ \A s \in table : ~Later(s, s)
           /\ \A s, t \in table : s = t \/ Later(s, t) \/ Later(t, s)
           /\ \A s, t, u \in table : Later(s, t) /\ Later(t, u) => Later(s, u)
<1>1. \A s \in table : s.id \in Nat /\ s.at \in Nat
  BY DEF Listable
<1> QED BY <1>1 DEF Listable, Later

LEMMA RankIs ==
    ASSUME NEW table, Listable(table), NEW s \in table
    PROVE  Rank(s, table) \in 0..(Cardinality(table) - 1)
<1> DEFINE before == {t \in table : Later(t, s)}
<1>1. before \in SUBSET (table \ {s})
  BY LaterOrders
<1>2. IsFiniteSet(table \ {s}) /\ Cardinality(table \ {s}) = Cardinality(table) - 1
  BY FS_RemoveElement DEF Listable
<1>3. IsFiniteSet(before) /\ Cardinality(before) <= Cardinality(table) - 1
  BY <1>1, <1>2, FS_Subset
<1>4. Cardinality(before) \in Nat /\ Cardinality(table) \in Nat
  BY <1>3, FS_CardinalityType DEF Listable
<1> QED BY <1>3, <1>4 DEF Rank

\* The ranks are ordered as the rows are.
LEMMA RankOrders ==
    ASSUME NEW table, Listable(table), NEW s \in table, NEW t \in table
    PROVE  /\ Later(s, t) <=> Rank(s, table) < Rank(t, table)
           /\ Rank(s, table) = Rank(t, table) => s = t
<1>1. ASSUME NEW a \in table, NEW b \in table, Later(a, b) PROVE Rank(a, table) < Rank(b, table)
  <2> DEFINE ba == {u \in table : Later(u, a)}
             bb == {u \in table : Later(u, b)}
  <2>1. ba \in SUBSET bb /\ a \in bb /\ a \notin ba
    BY <1>1, LaterOrders
  <2>2. IsFiniteSet(bb)
    BY FS_Subset DEF Listable
  <2>3. Cardinality(ba) <= Cardinality(bb) /\ Cardinality(ba) # Cardinality(bb)
    BY <2>1, <2>2, FS_Subset
  <2> QED BY <2>3, RankIs DEF Rank
<1>2. Rank(s, table) \in Nat /\ Rank(t, table) \in Nat
  BY RankIs
<1> QED BY <1>1, <1>2, LaterOrders

\* Each row is listed once, at its rank.
LEMMA ListedIs ==
    ASSUME NEW table, Listable(table)
    PROVE  /\ Cardinality(table) \in Nat
           /\ Listed(table) \in [1..Cardinality(table) -> table]
           /\ \A i \in 1..Cardinality(table) : Rank(Listed(table)[i], table) = i - 1
<1> DEFINE n == Cardinality(table)
           f == [s \in table |-> Rank(s, table)]
<1>1. n \in Nat
  BY FS_CardinalityType DEF Listable
<1>2. f \in Injection(table, 0..(n - 1))
  <2>1. f \in [table -> 0..(n - 1)]
    BY RankIs
  <2>2. \A s, t \in table : f[s] = f[t] => s = t
    BY RankOrders
  <2> QED BY <2>1, <2>2 DEF Injection, IsInjective
<1>3. IsFiniteSet(0..(n - 1)) /\ Cardinality(0..(n - 1)) = n
  BY <1>1, FS_Interval
<1>4. f \in Surjection(table, 0..(n - 1))
  BY <1>2, <1>3, FS_Injection
<1>5. ASSUME NEW i \in 1..n PROVE \E s \in table : Rank(s, table) = i - 1
  <2>1. i - 1 \in 0..(n - 1)
    BY <1>1
  <2> QED BY <1>4, <2>1 DEF Surjection
<1>6. \A i \in 1..n : Listed(table)[i] \in table /\ Rank(Listed(table)[i], table) = i - 1
  BY <1>5 DEF Listed
<1>7. DOMAIN Listed(table) = 1..n /\ Listed(table) = [i \in 1..n |-> Listed(table)[i]]
  BY DEF Listed
<1> QED BY <1>1, <1>6, <1>7

Appears(id, seq) == \E i \in DOMAIN seq : seq[i].id = id
Once(id, seq) == \E i \in DOMAIN seq : \A j \in DOMAIN seq : seq[j].id = id <=> j = i

\* A page holds the rows of its ranks, each once, and no other.
LEMMA PageIs ==
    ASSUME NEW table, Listable(table), NEW start \in Nat, NEW n \in Nat, start + n <= Cardinality(table),
           NEW page, page = Slice(Listed(table), start, n)
    PROVE  /\ page \in Seq(table)
           /\ Len(page) = n
           /\ \A s \in table :
                IF start <= Rank(s, table) /\ Rank(s, table) < start + n
                THEN Once(s.id, page) ELSE ~Appears(s.id, page)
           /\ n > 0 => Last(page) \in table /\ Rank(Last(page), table) = start + n - 1
<1> DEFINE list == Listed(table)
           size == Cardinality(table)
<1>1. /\ size \in Nat
      /\ \A i \in 1..size : list[i] \in table /\ Rank(list[i], table) = i - 1
  BY ListedIs
<1>2. \A i \in (start + 1)..(start + n) : list[i] \in table
  BY <1>1
<1>3. /\ page \in Seq(table)
      /\ Len(page) = n
      /\ \A i \in 1..n : page[i] = list[start + i]
  <2>1. page = SubSeq(list, start + 1, start + n)
    BY DEF Slice
  <2>2. /\ SubSeq(list, start + 1, start + n) \in Seq(table)
        /\ Len(SubSeq(list, start + 1, start + n)) =
              IF start + 1 <= start + n THEN (start + n) - (start + 1) + 1 ELSE 0
        /\ \A i \in 1..((start + n) - (start + 1) + 1) :
              SubSeq(list, start + 1, start + n)[i] = list[(start + 1) + i - 1]
    <3>1. start + 1 \in Int /\ start + n \in Int
      OBVIOUS
    <3> HIDE DEF list
    <3> QED BY <1>2, <3>1, SubSeqProperties
  <2> HIDE DEF list
  <2>3. (start + n) - (start + 1) + 1 = n /\ (start + 1 <= start + n <=> n > 0)
    OBVIOUS
  <2>4. Len(page) = n
    BY <2>1, <2>2, <2>3
  <2>5. ASSUME NEW i \in 1..n PROVE page[i] = list[start + i]
    <3>1. (start + 1) + i - 1 = start + i
      OBVIOUS
    <3> QED BY <2>1, <2>2, <2>3, <3>1
  <2> QED BY <2>1, <2>2, <2>4, <2>5
<1>4. DOMAIN page = 1..n
  BY <1>3, LenProperties
<1> HIDE DEF list
<1>5. ASSUME NEW i \in 1..n PROVE page[i] \in table /\ Rank(page[i], table) = start + i - 1
  <2>1. start + i \in 1..size /\ page[i] = list[start + i]
    BY <1>1, <1>3
  <2> QED BY <1>1, <2>1
<1>6. ASSUME NEW s \in table, start <= Rank(s, table), Rank(s, table) < start + n
      PROVE  Once(s.id, page)
  <2> DEFINE k == Rank(s, table) - start + 1
  <2>1. k \in 1..n
    BY <1>6, RankIs, <1>1
  <2>2. \A j \in 1..n : page[j] = s <=> j = k
    <3>1. Rank(s, table) \in Nat
      BY RankIs, <1>1
    <3>2. ASSUME NEW j \in 1..n, page[j] = s PROVE j = k
      BY <1>5, <3>1, <3>2
    <3>3. page[k] = s
      <4>1. page[k] \in table /\ Rank(page[k], table) = start + k - 1
        BY <1>5, <2>1
      <4>2. start + k - 1 = Rank(s, table)
        BY <3>1
      <4> QED BY <4>1, <4>2, RankOrders
    <3> QED BY <3>2, <3>3
  <2>3. \A j \in 1..n : page[j].id = s.id <=> page[j] = s
    BY <1>5 DEF Listable
  <2> QED BY <1>4, <2>1, <2>2, <2>3 DEF Once
<1>7. ASSUME NEW s \in table, ~(start <= Rank(s, table) /\ Rank(s, table) < start + n)
      PROVE  ~Appears(s.id, page)
  <2>1. ASSUME NEW j \in 1..n, page[j].id = s.id PROVE FALSE
    <3>1. page[j] = s
      BY <1>5, <2>1 DEF Listable
    <3>2. Rank(s, table) = start + j - 1
      BY <1>5, <3>1
    <3> HIDE DEF list, size
    <3> QED BY <1>7, <3>2
  <2> QED BY <1>4, <2>1 DEF Appears
<1>8. n > 0 => Last(page) \in table /\ Rank(Last(page), table) = start + n - 1
  BY <1>3, <1>5 DEF Last
<1> QED BY <1>3, <1>6, <1>7, <1>8

\* What is seen when a page is added.
LEMMA Added ==
    ASSUME NEW S, NEW a \in Seq(S), NEW b \in Seq(S), NEW id
    PROVE  /\ a \o b \in Seq(S)
           /\ Appears(id, a \o b) <=> Appears(id, a) \/ Appears(id, b)
           /\ Once(id, a) /\ ~Appears(id, b) => Once(id, a \o b)
           /\ ~Appears(id, a) /\ Once(id, b) => Once(id, a \o b)
<1> DEFINE ab == a \o b
           m == Len(a)
           n == Len(b)
<1>1. /\ ab \in Seq(S) /\ Len(ab) = m + n /\ m \in Nat /\ n \in Nat
      /\ \A i \in 1..(m + n) : ab[i] = IF i <= m THEN a[i] ELSE b[i - m]
  BY ConcatProperties, LenProperties
<1>2. DOMAIN ab = 1..(m + n) /\ DOMAIN a = 1..m /\ DOMAIN b = 1..n
  BY <1>1, LenProperties
<1> HIDE DEF ab, m, n
<1>3. /\ \A i \in 1..m : i \in 1..(m + n) /\ ab[i] = a[i]
      /\ \A i \in 1..n : m + i \in 1..(m + n) /\ ab[m + i] = b[i]
      /\ \A i \in 1..(m + n) : i \in 1..m \/ (i - m \in 1..n /\ i = m + (i - m))
  <2>1. ASSUME NEW i \in 1..n PROVE m + i \in 1..(m + n) /\ ab[m + i] = b[i]
    <3>1. m + i \in 1..(m + n) /\ ~(m + i <= m) /\ (m + i) - m = i
      BY <1>1
    <3> QED BY <1>1, <3>1
  <2> QED BY <1>1, <2>1
<1>4. Appears(id, ab) <=> Appears(id, a) \/ Appears(id, b)
  <2>1. ASSUME NEW i \in 1..(m + n), ab[i].id = id PROVE Appears(id, a) \/ Appears(id, b)
    BY <1>2, <1>3, <2>1 DEF Appears
  <2> QED BY <1>2, <1>3, <2>1 DEF Appears
<1>5. ASSUME Once(id, a), ~Appears(id, b) PROVE Once(id, ab)
  <2>1. PICK i \in 1..m : \A j \in 1..m : a[j].id = id <=> j = i
    BY <1>2, <1>5 DEF Once
  <2>2. ASSUME NEW j \in 1..(m + n) PROVE ab[j].id = id <=> j = i
    <3>1. CASE j \in 1..m
      BY <1>3, <2>1, <3>1
    <3>2. CASE j - m \in 1..n /\ j = m + (j - m)
      <4>1. ab[j].id # id
        BY <1>2, <1>3, <1>5, <3>2 DEF Appears
      <4>2. j # i
        BY <1>1, <3>2
      <4> QED BY <4>1, <4>2
    <3> QED BY <1>3, <3>1, <3>2
  <2>3. i \in DOMAIN ab /\ \A j \in DOMAIN ab : ab[j].id = id <=> j = i
    BY <1>2, <1>3, <2>2
  <2> QED BY <2>3 DEF Once
<1>6. ASSUME ~Appears(id, a), Once(id, b) PROVE Once(id, ab)
  <2>1. PICK i \in 1..n : \A j \in 1..n : b[j].id = id <=> j = i
    BY <1>2, <1>6 DEF Once
  <2>2. ASSUME NEW j \in 1..(m + n) PROVE ab[j].id = id <=> j = m + i
    <3>1. CASE j \in 1..m
      <4>1. ab[j].id # id
        BY <1>2, <1>3, <1>6, <3>1 DEF Appears
      <4>2. j # m + i
        BY <1>1, <3>1
      <4> QED BY <4>1, <4>2
    <3>2. CASE j - m \in 1..n /\ j = m + (j - m)
      <4>1. ab[j].id = id <=> j - m = i
        BY <1>3, <2>1, <3>2
      <4> QED BY <1>1, <3>2, <4>1
    <3> QED BY <1>3, <3>1, <3>2
  <2>3. m + i \in DOMAIN ab /\ \A j \in DOMAIN ab : ab[j].id = id <=> j = m + i
    BY <1>2, <1>3, <2>2
  <2> QED BY <2>3 DEF Once
<1>7. a \o b \in Seq(S)
  BY <1>1 DEF ab
<1> QED BY <1>4, <1>5, <1>6, <1>7 DEF ab
\* Scores are numbered in the order they are inserted.
Numbered(table) ==
    /\ Listable(table)
    /\ \A s \in table : s.id \in 1..Cardinality(table)
    /\ \A id \in 1..Cardinality(table) : \E s \in table : s.id = id

\* A score the cursor has passed is seen once, one it has not is not seen.
SeenByCursor(r, table) ==
    \A s \in table : s.id <= r.first =>
        IF r.after = None \/ Later(r.after, s) THEN ~Appears(s.id, r.seen) ELSE Once(s.id, r.seen)

\* The pages so far held the scores that are before the next one, where that is claimed.
SeenByPages(r, table, db) ==
    db = "sqlite" /\ r.size <= Cap =>
        \A s \in table : s.id <= r.first /\ Rank(s, table) < (r.page - 1) * r.size => Appears(s.id, r.seen)

\* Once the walk is over all of them are seen.
SeenAll(r, db) ==
    \A id \in 1..r.first :
        IF r.way = "keyset" THEN Once(id, r.seen)
        ELSE db = "sqlite" /\ r.size <= Cap => Appears(id, r.seen)

\* What a scan and a reader know: r is the state of the request.
Reads(r, table, db) ==
    /\ r.op = "insert score" => r.at \in Nat
    /\ r.op \in {"keyset", "count", "offset", "walked"} =>
          r.seen \in Seq(table) /\ r.first \in 0..Cardinality(table)
    /\ r.op \in {"keyset", "count", "offset"} => r.size \in Nat \ {0}
    /\ r.op = "keyset" => /\ {"op", "size", "after", "seen", "first"} \subseteq DOMAIN r
                          /\ r.after \in table \union {None}
                          /\ SeenByCursor(r, table)
    /\ r.op \in {"count", "offset"} => r.page \in Nat \ {0} /\ SeenByPages(r, table, db)
    /\ r.op = "offset" => r.total \in Nat /\ (db = "sqlite" => r.total = Cardinality(table))
    /\ r.op = "walked" => SeenAll(r, db)

WalkInv == Numbered(scores) /\ \A c \in Clients : Reads(req[c], scores, backend)

-----------------------------------------------------------------------------
\* A score that is inserted takes the next number and moves others only towards the end.
LEMMA NumberedGrows ==
    ASSUME NEW table, Numbered(table), NEW x \in [id : Nat, at : Nat], x.id = Cardinality(table) + 1
    PROVE  /\ Numbered(table \union {x})
           /\ Cardinality(table \union {x}) = Cardinality(table) + 1
           /\ \A s \in table : Rank(s, table) <= Rank(s, table \union {x})
<1> DEFINE more == table \union {x}
<1>1. Cardinality(table) \in Nat
  BY ListedIs DEF Numbered
<1>2. x \notin table
  BY <1>1 DEF Numbered
<1>3. IsFiniteSet(more) /\ Cardinality(more) = Cardinality(table) + 1
  BY <1>2, FS_AddElement DEF Numbered, Listable
<1>4. Listable(more)
  <2>1. \A s \in table : s.id # x.id
    BY <1>1 DEF Numbered
  <2> QED BY <1>3, <2>1 DEF Numbered, Listable
<1>5. Numbered(more)
  <2>1. \A s \in more : s.id \in 1..Cardinality(more)
    BY <1>1, <1>3 DEF Numbered
  <2>2. ASSUME NEW id \in 1..Cardinality(more) PROVE \E s \in more : s.id = id
    <3>1. id \in 1..Cardinality(table) \/ id = x.id
      BY <1>1, <1>3
    <3> QED BY <3>1 DEF Numbered
  <2> QED BY <1>4, <2>1, <2>2 DEF Numbered
<1>6. ASSUME NEW s \in table PROVE Rank(s, table) <= Rank(s, more)
  <2> DEFINE b == {t \in table : Later(t, s)}
             m == {t \in more : Later(t, s)}
  <2>1. b \in SUBSET m
    OBVIOUS
  <2>2. IsFiniteSet(m)
    BY <1>3, FS_Subset
  <2> QED BY <2>1, <2>2, FS_Subset DEF Rank
<1> QED BY <1>3, <1>5, <1>6

LEMMA ReadsStay ==
    ASSUME NEW table, Numbered(table), NEW x \in [id : Nat, at : Nat], x.id = Cardinality(table) + 1,
           NEW r, NEW db, Reads(r, table, db), r.op = "offset" => db # "sqlite"
    PROVE  Reads(r, table \union {x}, db)
<1> DEFINE more == table \union {x}
           n == Cardinality(table)
<1>1. Cardinality(more) = n + 1 /\ n \in Nat
  BY NumberedGrows, ListedIs DEF Numbered
<1>2. ASSUME r.first \in 0..n, NEW s \in more, s.id <= r.first PROVE s \in table
  BY <1>1, <1>2
<1>3. r.seen \in Seq(table) => r.seen \in Seq(more)
  BY SeqMonotonic
<1>4. ASSUME r.first \in 0..n, SeenByCursor(r, table) PROVE SeenByCursor(r, more)
  BY <1>2, <1>4 DEF SeenByCursor
<1>5. ASSUME r.first \in 0..n, r.size \in Nat, r.page \in Nat \ {0}, SeenByPages(r, table, db)
      PROVE  SeenByPages(r, more, db)
  <2> SUFFICES ASSUME db = "sqlite", r.size <= Cap, NEW s \in more, s.id <= r.first,
                      Rank(s, more) < (r.page - 1) * r.size
               PROVE  Appears(s.id, r.seen)
    BY DEF SeenByPages
  <2>1. s \in table
    BY <1>2, <1>5
  <2>2. Rank(s, table) <= Rank(s, more) /\ Rank(s, table) \in Nat /\ Rank(s, more) \in Nat
    <3>1. Listable(table) /\ Listable(more) /\ Rank(s, table) <= Rank(s, more)
      BY <2>1, NumberedGrows DEF Numbered
    <3>2. Rank(s, table) \in 0..(Cardinality(table) - 1)
      BY <2>1, <3>1, RankIs
    <3>3. Rank(s, more) \in 0..(Cardinality(more) - 1)
      BY <3>1, RankIs
    <3> QED BY <3>1, <3>2, <3>3
  <2>3. (r.page - 1) * r.size \in Nat
    BY <1>5
  <2>4. Rank(s, table) < (r.page - 1) * r.size
    BY <2>2, <2>3
  <2> QED BY <1>5, <2>1, <2>4 DEF SeenByPages
<1>6. r.first \in 0..n => r.first \in 0..Cardinality(more)
  BY <1>1
<1> HIDE DEF more, n
<1>7. table \subseteq more
  BY DEF more
<1>8. r.op # "offset" \/ db # "sqlite"
  OBVIOUS
<1> QED BY <1>3, <1>4, <1>5, <1>6, <1>7, <1>8 DEF Reads, n, more

LEMMA FirstPageIs ==
    ASSUME NEW table, Listable(table), NEW n \in Nat, n <= Cardinality(table),
           NEW page, page = Slice(Listed(table), 0, n)
    PROVE  /\ page \in Seq(table)
           /\ \A s \in table : IF Rank(s, table) < n THEN Once(s.id, page) ELSE ~Appears(s.id, page)
           /\ n > 0 => Last(page) \in table /\ Rank(Last(page), table) = n - 1
<1>1. PICK start \in Nat : start = 0
  OBVIOUS
<1>2. start + n <= Cardinality(table) /\ page = Slice(Listed(table), start, n)
  BY <1>1
<1>3. page \in Seq(table)
  BY <1>2, PageIs
<1>4. \A s \in table : IF start <= Rank(s, table) /\ Rank(s, table) < start + n
                      THEN Once(s.id, page) ELSE ~Appears(s.id, page)
  BY <1>2, PageIs
<1>5. n > 0 => Last(page) \in table /\ Rank(Last(page), table) = start + n - 1
  BY <1>2, PageIs
<1>6. \A s \in table : Rank(s, table) \in Nat
  BY RankIs
<1> QED BY <1>1, <1>3, <1>4, <1>5, <1>6

\* One more page of the cursor: the page is the first rows below it, and the last of them is
\* the next cursor.
LEMMA KeysetReads ==
    ASSUME NEW table, Numbered(table), NEW db, NEW r, Reads(r, table, db), r.op = "keyset",
           NEW below, below = {s \in table : r.after = None \/ Later(r.after, s)},
           NEW page, page = Slice(Listed(below), 0, Least(r.size, Cardinality(below)))
    PROVE  IF Cardinality(below) > r.size
           THEN Reads([r EXCEPT !.seen = @ \o page, !.after = Last(page)], table, db)
           ELSE Reads(Walked("keyset", r.seen \o page, r.first, r.size), table, db)
<1> DEFINE size == Cardinality(below)
           n == Least(r.size, size)
           seen == r.seen \o page
<1>1. /\ r.size \in Nat \ {0} /\ r.seen \in Seq(table) /\ r.first \in 0..Cardinality(table)
      /\ {"op", "size", "after", "seen", "first"} \subseteq DOMAIN r
      /\ r.after \in table \union {None} /\ SeenByCursor(r, table)
  BY DEF Reads
<1>2. Listable(table) /\ Listable(below) /\ size \in Nat /\ below \subseteq table
  <2>1. below \in SUBSET table
    OBVIOUS
  <2>2. IsFiniteSet(below)
    BY <2>1, FS_Subset DEF Numbered, Listable
  <2>3. Listable(below)
    BY <2>1, <2>2 DEF Numbered, Listable
  <2> QED BY <2>1, <2>3, ListedIs DEF Numbered
<1>3. n \in Nat /\ n <= size /\ 0 + n <= size /\ (size > r.size => n = r.size) /\ (~(size > r.size) => n = size)
  BY <1>1, <1>2 DEF Least
<1> HIDE DEF n, size
<1>4. /\ page \in Seq(below)
      /\ \A s \in below : IF Rank(s, below) < n THEN Once(s.id, page) ELSE ~Appears(s.id, page)
      /\ n > 0 => Last(page) \in below /\ Rank(Last(page), below) = n - 1
  <2>1. page = Slice(Listed(below), 0, n) /\ n <= Cardinality(below)
    BY <1>3 DEF n, size
  <2> QED BY <1>2, <1>3, <2>1, FirstPageIs
<1>5. page \in Seq(table)
  BY <1>2, <1>4, SeqMonotonic
<1>6. ASSUME NEW s \in table, s \notin below PROVE ~Appears(s.id, page)
  <2>1. ASSUME NEW j \in DOMAIN page, page[j].id = s.id PROVE FALSE
    <3>1. page[j] \in below
      BY <1>4, LenProperties, ElementOfSeq
    <3> QED BY <1>2, <1>6, <2>1, <3>1 DEF Listable
  <2> QED BY <2>1 DEF Appears
<1>7. /\ seen \in Seq(table)
      /\ \A id : /\ Appears(id, seen) <=> Appears(id, r.seen) \/ Appears(id, page)
                 /\ Once(id, r.seen) /\ ~Appears(id, page) => Once(id, seen)
                 /\ ~Appears(id, r.seen) /\ Once(id, page) => Once(id, seen)
  <2>1. r.seen \in Seq(table)
    BY <1>1
  <2>2. ASSUME NEW id
        PROVE  /\ seen \in Seq(table)
               /\ Appears(id, seen) <=> Appears(id, r.seen) \/ Appears(id, page)
               /\ Once(id, r.seen) /\ ~Appears(id, page) => Once(id, seen)
               /\ ~Appears(id, r.seen) /\ Once(id, page) => Once(id, seen)
    BY <2>1, <1>5, Added
  <2> QED BY <2>2
<1>8. ASSUME NEW s \in table, s.id <= r.first
      PROVE  IF s \in below THEN ~Appears(s.id, r.seen) ELSE Once(s.id, r.seen)
  BY <1>1, <1>8 DEF SeenByCursor
<1> HIDE DEF seen
<1>9. ASSUME size > r.size
      PROVE  Reads([r EXCEPT !.seen = seen, !.after = Last(page)], table, db)
  <2> DEFINE last == Last(page)
             next == [r EXCEPT !.seen = seen, !.after = last]
  <2>1. n > 0 /\ last \in below /\ Rank(last, below) = n - 1
    BY <1>1, <1>3, <1>4, <1>9
  <2>2. last # None
    BY <1>2, <2>1, TelemetryAssumption DEF Listable
  <2>3. /\ next.op = "keyset" /\ next.size = r.size /\ next.after = last /\ next.seen = seen
        /\ next.first = r.first /\ DOMAIN next = DOMAIN r
    BY <1>1
  <2> HIDE DEF last, next
  <2>4. ASSUME NEW s \in table, s.id <= r.first, Later(last, s) PROVE ~Appears(s.id, seen)
    <3>1. s \in below
      <4>1. CASE r.after = None
        BY <4>1
      <4>2. CASE r.after # None
        <5>1. r.after \in table /\ last \in table /\ Later(r.after, last)
          BY <1>1, <1>2, <2>1, <4>2
        <5> QED BY <1>2, <2>4, <5>1, LaterOrders
      <4> QED BY <4>1, <4>2
    <3>2. Rank(last, below) < Rank(s, below)
      BY <1>2, <2>1, <2>4, <3>1, RankOrders
    <3>3. Rank(s, below) \in Nat
      BY <1>2, <3>1, RankIs
    <3>4. ~(Rank(s, below) < n)
      BY <1>3, <2>1, <3>2, <3>3
    <3> QED BY <1>4, <1>7, <1>8, <2>4, <3>1, <3>4
  <2>5. ASSUME NEW s \in table, s.id <= r.first, ~Later(last, s) PROVE Once(s.id, seen)
    <3>1. CASE s \in below
      <4>1. ~(Rank(last, below) < Rank(s, below))
        BY <1>2, <2>1, <2>5, <3>1, RankOrders
      <4>2. Rank(s, below) \in Nat
        BY <1>2, <3>1, RankIs
      <4>3. Rank(s, below) < n
        BY <1>3, <2>1, <4>1, <4>2
      <4> QED BY <1>4, <1>7, <1>8, <2>5, <3>1, <4>3
    <3>2. CASE s \notin below
      BY <1>6, <1>7, <1>8, <2>5, <3>2
    <3> QED BY <3>1, <3>2
  <2>6. SeenByCursor(next, table)
    BY <2>2, <2>3, <2>4, <2>5 DEF SeenByCursor
  <2> QED BY <1>1, <1>2, <1>7, <2>1, <2>3, <2>6 DEF Reads, next, last
<1>10. ASSUME ~(size > r.size)
       PROVE  Reads(Walked("keyset", seen, r.first, r.size), table, db)
  <2> DEFINE end == Walked("keyset", seen, r.first, r.size)
  <2>1. /\ end.op = "walked" /\ end.way = "keyset" /\ end.seen = seen /\ end.first = r.first
        /\ end.size = r.size
    BY DEF Walked
  <2> HIDE DEF end
  <2>2. ASSUME NEW s \in table, s.id <= r.first PROVE Once(s.id, seen)
    <3>1. CASE s \in below
      <4>1. Rank(s, below) < n
        BY <1>2, <1>3, <1>10, <3>1, RankIs DEF size
      <4> QED BY <1>4, <1>7, <1>8, <2>2, <3>1, <4>1
    <3>2. CASE s \notin below
      BY <1>6, <1>7, <1>8, <2>2, <3>2
    <3> QED BY <3>1, <3>2
  <2>3. ASSUME NEW id \in 1..r.first PROVE Once(id, seen)
    <3>1. id \in 1..Cardinality(table)
      BY <1>1, <1>2, ListedIs
    <3>2. PICK s \in table : s.id = id
      BY <3>1 DEF Numbered
    <3> QED BY <2>2, <3>2
  <2>4. SeenAll(end, db)
    BY <2>1, <2>3 DEF SeenAll
  <2> QED BY <1>1, <1>7, <2>1, <2>4 DEF Reads, end
<1> QED BY <1>1, <1>9, <1>10 DEF seen, size
\* One more page by its number: the rows after those of the pages before it.
LEMMA OffsetReads ==
    ASSUME NEW table, Numbered(table), NEW db, NEW r, Reads(r, table, db), r.op = "offset",
           NEW start, start = Least((r.page - 1) * Least(r.size, Cap), Cardinality(table)),
           NEW page, page = Slice(Listed(table), start, Least(r.size, Cardinality(table) - start)),
           NEW seen, seen = r.seen \o page
    PROVE  IF r.page * r.size < r.total
           THEN Reads([op |-> "count", size |-> r.size, page |-> r.page + 1, seen |-> seen,
                       first |-> r.first], table, db)
           ELSE Reads(Walked("offset", seen, r.first, r.size), table, db)
<1> DEFINE rows == Cardinality(table)
           before == (r.page - 1) * r.size
           n == Least(r.size, rows - start)
<1>1. /\ r.size \in Nat \ {0} /\ r.page \in Nat \ {0} /\ r.total \in Nat
      /\ r.seen \in Seq(table) /\ r.first \in 0..rows
      /\ SeenByPages(r, table, db) /\ (db = "sqlite" => r.total = rows)
  BY DEF Reads
<1>2. Listable(table) /\ rows \in Nat /\ Cap \in Nat
  BY ListedIs, TelemetryAssumption DEF Numbered
<1>3. start \in Nat /\ start <= rows /\ (r.size <= Cap => start = Least(before, rows))
  <2>1. Least(r.size, Cap) \in Nat /\ (r.size <= Cap => Least(r.size, Cap) = r.size)
    BY <1>1, <1>2 DEF Least
  <2>2. (r.page - 1) * Least(r.size, Cap) \in Nat
    BY <1>1, <2>1
  <2> QED BY <1>2, <2>1, <2>2 DEF Least
<1>4. n \in Nat /\ start + n <= rows /\ (r.size <= rows - start => n = r.size)
      /\ (~(r.size <= rows - start) => n = rows - start)
  <2>1. rows - start \in Nat
    BY <1>2, <1>3
  <2> HIDE DEF rows
  <2>2. n = IF r.size < rows - start THEN r.size ELSE rows - start
    BY DEF Least
  <2> HIDE DEF n
  <2> QED BY <1>1, <1>2, <1>3, <2>1, <2>2
<1>5. before \in Nat /\ r.page * r.size = before + r.size /\ ((r.page + 1) - 1) * r.size = r.page * r.size
  <2>1. PICK p \in Nat : p = r.page - 1
    BY <1>1
  <2>2. r.page = p + 1 /\ (r.page + 1) - 1 = r.page
    BY <1>1, <2>1
  <2>3. p * r.size \in Nat /\ (p + 1) * r.size = p * r.size + r.size
    BY <1>1
  <2> QED BY <2>1, <2>2, <2>3
<1>6. page = Slice(Listed(table), start, n)
  OBVIOUS
<1> HIDE DEF n, rows, before
<1>7. /\ page \in Seq(table)
      /\ \A s \in table : start <= Rank(s, table) /\ Rank(s, table) < start + n => Once(s.id, page)
  <2>1. start + n <= Cardinality(table)
    BY <1>4 DEF rows
  <2> QED BY <1>2, <1>3, <1>4, <1>6, <2>1, PageIs
<1>8. seen \in Seq(table) /\ \A id : Appears(id, seen) <=> Appears(id, r.seen) \/ Appears(id, page)
  <2>1. r.seen \in Seq(table)
    BY <1>1
  <2>2. ASSUME NEW id
        PROVE  seen \in Seq(table) /\ (Appears(id, seen) <=> Appears(id, r.seen) \/ Appears(id, page))
    BY <2>1, <1>7, Added
  <2> QED BY <2>2
<1>9. ASSUME db = "sqlite", r.size <= Cap, NEW s \in table, s.id <= r.first,
             Rank(s, table) < r.page * r.size
      PROVE  Appears(s.id, seen)
  <2>1. Rank(s, table) \in Nat /\ Rank(s, table) < rows
    BY <1>2, RankIs DEF rows
  <2>2. CASE Rank(s, table) < before
    BY <1>1, <1>8, <1>9, <2>2 DEF SeenByPages, before
  <2>3. CASE ~(Rank(s, table) < before)
    <3>1. before < rows
      BY <1>2, <1>5, <2>1, <2>3
    <3>2. start = before
      BY <1>3, <1>9, <3>1 DEF Least
    <3>3. Rank(s, table) < before + r.size
      BY <1>5, <1>9
    <3>4. start <= Rank(s, table) /\ Rank(s, table) < start + n
      BY SMTT(30), <1>1, <1>2, <1>3, <1>4, <2>1, <2>3, <3>2, <3>3
    <3>5. Once(s.id, page)
      BY <1>7, <3>4
    <3>6. Appears(s.id, page)
      BY ONLY <3>5 DEF Once, Appears
    <3> QED BY ONLY <1>8, <3>6
  <2> QED BY <2>2, <2>3
<1>10. ASSUME r.page * r.size < r.total
       PROVE  Reads([op |-> "count", size |-> r.size, page |-> r.page + 1, seen |-> seen,
                     first |-> r.first], table, db)
  <2> DEFINE next == [op |-> "count", size |-> r.size, page |-> r.page + 1, seen |-> seen, first |-> r.first]
  <2>1. /\ next.op = "count" /\ next.size = r.size /\ next.page = r.page + 1 /\ next.seen = seen
        /\ next.first = r.first
    OBVIOUS
  <2> HIDE DEF next
  <2>2. SeenByPages(next, table, db)
    BY <1>5, <1>9, <2>1 DEF SeenByPages
  <2>3. next.page \in Nat \ {0}
    BY <1>1, <2>1
  <2>4. Reads(next, table, db)
    BY <1>1, <1>8, <2>1, <2>2, <2>3 DEF Reads, rows
  <2> QED BY <2>4 DEF next
<1>11. ASSUME ~(r.page * r.size < r.total)
       PROVE  Reads(Walked("offset", seen, r.first, r.size), table, db)
  <2> DEFINE end == Walked("offset", seen, r.first, r.size)
  <2>1. /\ end.op = "walked" /\ end.way = "offset" /\ end.seen = seen /\ end.first = r.first
        /\ end.size = r.size
    BY DEF Walked
  <2> HIDE DEF end
  <2>2. ASSUME NEW id \in 1..r.first, db = "sqlite", r.size <= Cap PROVE Appears(id, seen)
    <3>1. id \in 1..Cardinality(table)
      BY <1>1, <1>2 DEF rows
    <3>2. PICK s \in table : s.id = id
      BY <3>1 DEF Numbered
    <3>3. Rank(s, table) \in Nat /\ Rank(s, table) < rows
      BY <1>2, RankIs DEF rows
    <3>4. Rank(s, table) < r.page * r.size
      <4>1. r.page * r.size \in Nat
        BY <1>1, <1>5
      <4>2. r.total = rows
        BY <1>1, <2>2
      <4> QED BY <1>2, <1>11, <3>3, <4>1, <4>2
    <3>5. s.id <= r.first
      BY <1>1, <3>2
    <3> QED BY <1>9, <2>2, <3>2, <3>4, <3>5
  <2>3. SeenAll(end, db)
    BY <2>1, <2>2 DEF SeenAll
  <2> QED BY <1>1, <1>8, <2>1, <2>3 DEF Reads, end, rows
<1> QED BY <1>10, <1>11
-----------------------------------------------------------------------------
LEMMA ReadsNothing ==
    ASSUME NEW r, r.op \notin ScoreOps, NEW table, NEW db
    PROVE  Reads(r, table, db)
  BY DEF Reads, ScoreOps

\* A step that writes no score: only what c goes on to is to be shown.
LEMMA WalkGoes ==
    ASSUME IInv, WalkInv, NEW c \in Clients, NEW rec, Goes(c, rec), UNCHANGED <<backend, scores>>,
           Reads(rec, scores, backend)
    PROVE  WalkInv'
<1>1. req'[c] = rec /\ \A d \in Clients \ {c} : req'[d] = req[d]
  BY DEF IInv, RequestsKnow, Goes
<1>2. \A d \in Clients : Reads(req'[d], scores', backend')
  BY <1>1 DEF WalkInv
<1>3. Numbered(scores')
  BY DEF WalkInv
<1> QED BY <1>2, <1>3 DEF WalkInv

\* A step about other tables leaves the scores and the readers as they are.
LEMMA WalksElsewhere ==
    ASSUME IInv, WalkInv, NEW c \in Clients,
           \/ TraceStep(c) \/ RunStep(c) \/ DatasetStep(c) \/ EvaluationStep(c)
           \/ KeyStep(c) \/ StatementFails(c),
           ~ScoreStep(c)
    PROVE  WalkInv'
<1> USE DEF Arrives, At, traceVars, dataVars, keyVars
<1>1. UNCHANGED <<backend, scores>>
  <2>1. CASE TraceStep(c)
    BY <2>1 DEF TraceStep, CreateTrace, CreateSpan, InsertSpan, DeleteTrace, DeleteSpans, DeleteTraceRow
  <2>2. CASE RunStep(c)
    BY <2>2 DEF RunStep, CreateRun, InsertRun, UpdateRun, SetRun, DeleteRun, DeleteRunRow
  <2>3. CASE DatasetStep(c)
    BY <2>3 DEF DatasetStep, CreateDataset, InsertItem, SetCount, DeleteDataset, DeleteDatasetRow
  <2>4. CASE EvaluationStep(c)
    BY <2>4 DEF EvaluationStep, CreateEvaluation, CreateResult, RunEvaluation, DeleteEvaluation,
       DeleteEvaluationRow
  <2>5. CASE KeyStep(c)
    BY <2>5 DEF KeyStep, Authenticate, Judge, Stamp, CreateApiKey, DeleteApiKey
  <2>6. CASE StatementFails(c)
    BY <2>6 DEF StatementFails
  <2> QED BY <2>1, <2>2, <2>3, <2>4, <2>5, <2>6
<1>2. ASSUME NEW rec, Goes(c, rec), rec.op \notin ScoreOps PROVE WalkInv'
  BY <1>1, <1>2, ReadsNothing, WalkGoes
<1>3. CASE DatasetStep(c)
  <2>1. Goes(c, NoRequest) => WalkInv'
    BY <1>2 DEF NoRequest, ScoreOps
  <2>2. CASE SetCount(c) \/ DeleteDatasetRow(c)
    BY <2>1, <2>2 DEF SetCount, DeleteDatasetRow, Ends
  <2>3. CASE CreateDataset(c)
    <3>1. PICK w : \/ Goes(c, NoRequest) \/ Goes(c, [op |-> "set count", id |-> Fresh, ws |-> w])
                   \/ Goes(c, [op |-> "insert item", id |-> Fresh, ws |-> w, n |-> 1])
      BY <2>3 DEF CreateDataset, Ends
    <3> QED BY <1>2, <2>1, <3>1 DEF ScoreOps
  <2>4. CASE InsertItem(c)
    <3>1. PICK x, w, n : \/ Goes(c, NoRequest) \/ Goes(c, [op |-> "set count", id |-> x, ws |-> w])
                         \/ Goes(c, [req[c] EXCEPT !.n = n])
      BY <2>4 DEF InsertItem, Ends
    <3>2. [req[c] EXCEPT !.n = n].op = "insert item"
      BY <2>4 DEF InsertItem, IInv, RequestsKnow, Knows
    <3> QED BY <1>2, <2>1, <3>1, <3>2 DEF ScoreOps
  <2>5. CASE DeleteDataset(c)
    <3>1. PICK x, w : Goes(c, [op |-> "delete dataset", id |-> x, ws |-> w])
      BY <2>5 DEF DeleteDataset
    <3> QED BY <1>2, <3>1 DEF ScoreOps
  <2> QED BY <1>3, <2>2, <2>3, <2>4, <2>5 DEF DatasetStep
<1>4. CASE ~DatasetStep(c)
  <2>1. OfOthers(c)
    BY <1>4, OtherOps
  <2>2. PICK rec : Goes(c, rec) /\ rec.op \notin ScoreOps
    BY <2>1 DEF OfOthers
  <2> QED BY <1>2, <2>2
<1> QED BY <1>3, <1>4

\* The score that is inserted is in nobody's way: on SQLite no page is half way.
LEMMA InsertScoreWalks ==
    ASSUME IInv, WalkInv, NEW c \in Clients, InsertScore(c) PROVE WalkInv'
<1>1. /\ req[c].op = "insert score" /\ Goes(c, NoRequest) /\ Turn(c) /\ UNCHANGED backend
      /\ scores' = scores \union {[id |-> Cardinality(scores) + 1, at |-> req[c].at]}
  BY DEF InsertScore, At, Ends
<1>2. PICK x : x = [id |-> Cardinality(scores) + 1, at |-> req[c].at]
  OBVIOUS
<1>3. x \in [id : Nat, at : Nat] /\ x.id = Cardinality(scores) + 1
  <2>1. req[c].at \in Nat
    BY <1>1 DEF WalkInv, Reads
  <2>2. Cardinality(scores) \in Nat
    BY ListedIs DEF WalkInv, Numbered
  <2> QED BY <1>2, <2>1, <2>2
<1>4. Numbered(scores) /\ Numbered(scores')
  BY <1>1, <1>2, <1>3, NumberedGrows DEF WalkInv
<1>5. req'[c] = NoRequest /\ \A d \in Clients \ {c} : req'[d] = req[d]
  BY <1>1 DEF IInv, RequestsKnow, Goes
<1>6. ASSUME NEW d \in Clients PROVE Reads(req'[d], scores', backend')
  <2>1. CASE d = c
    BY <1>5, <2>1, ReadsNothing DEF NoRequest, ScoreOps
  <2>2. CASE d # c
    <3>1. req[d].op = "offset" => backend # "sqlite"
      BY <1>1, <2>2 DEF Turn, Between, Free
    <3>2. Reads(req[d], scores, backend)
      BY DEF WalkInv
    <3>3. Reads(req[d], scores \union {x}, backend)
      BY <1>3, <1>4, <3>1, <3>2, ReadsStay
    <3> QED BY <1>1, <1>2, <1>5, <2>2, <3>3
  <2> QED BY <2>1, <2>2
<1> QED BY <1>4, <1>6 DEF WalkInv

LEMMA ScanWalks == ASSUME IInv, WalkInv, clock \in Nat, NEW c \in Clients, Scan(c) PROVE WalkInv'
<1>1. Goes(c, [op |-> "insert score", at |-> clock])
  BY DEF Scan
<1>2. PICK rec : rec = [op |-> "insert score", at |-> clock]
  OBVIOUS
<1>3. Reads(rec, scores, backend)
  BY <1>2 DEF Reads
<1> QED BY <1>1, <1>2, <1>3, WalkGoes DEF Scan, Arrives

\* At the start nothing is seen, and nothing is claimed to be.
LEMMA WalkStarts == ASSUME IInv, WalkInv, NEW c \in Clients, Walk(c) PROVE WalkInv'
<1>1. UNCHANGED <<backend, scores>>
  BY DEF Walk, Arrives
<1>2. Listable(scores) /\ Cardinality(scores) \in Nat
  BY ListedIs DEF WalkInv, Numbered
<1>3. PICK size \in PageSizes :
        \/ Goes(c, [op |-> "keyset", size |-> size, after |-> None, seen |-> << >>, first |-> Cardinality(scores)])
        \/ Goes(c, [op |-> "count", size |-> size, page |-> 1, seen |-> << >>, first |-> Cardinality(scores)])
  BY DEF Walk
<1>4. size \in Nat \ {0}
  BY TelemetryAssumption
<1>5. << >> \in Seq(scores) /\ \A id : ~Appears(id, << >>)
  BY EmptySeq DEF Appears
<1>6. CASE Goes(c, [op |-> "keyset", size |-> size, after |-> None, seen |-> << >>, first |-> Cardinality(scores)])
  <2> DEFINE r == [op |-> "keyset", size |-> size, after |-> None, seen |-> << >>, first |-> Cardinality(scores)]
  <2>1. /\ r.op = "keyset" /\ r.size = size /\ r.after = None /\ r.seen = << >>
        /\ r.first = Cardinality(scores) /\ DOMAIN r = {"op", "size", "after", "seen", "first"}
    OBVIOUS
  <2> HIDE DEF r
  <2>2. SeenByCursor(r, scores)
    BY <1>5, <2>1 DEF SeenByCursor
  <2>3. Reads(r, scores, backend)
    BY <1>2, <1>4, <1>5, <2>1, <2>2 DEF Reads
  <2> QED BY <1>1, <1>6, <2>3, WalkGoes DEF r
<1>7. CASE Goes(c, [op |-> "count", size |-> size, page |-> 1, seen |-> << >>, first |-> Cardinality(scores)])
  <2> DEFINE r == [op |-> "count", size |-> size, page |-> 1, seen |-> << >>, first |-> Cardinality(scores)]
  <2>1. /\ r.op = "count" /\ r.size = size /\ r.page = 1 /\ r.seen = << >>
        /\ r.first = Cardinality(scores)
    OBVIOUS
  <2> HIDE DEF r
  <2>2. SeenByPages(r, scores, backend)
    <3>1. (r.page - 1) * r.size = 0
      BY <1>4, <2>1
    <3>2. \A s \in scores : ~(Rank(s, scores) < 0)
      BY <1>2, RankIs
    <3> QED BY <3>1, <3>2 DEF SeenByPages
  <2>3. Reads(r, scores, backend)
    BY <1>2, <1>4, <1>5, <2>1, <2>2 DEF Reads
  <2> QED BY <1>1, <1>7, <2>3, WalkGoes DEF r
<1> QED BY <1>3, <1>6, <1>7

LEMMA KeysetWalks == ASSUME IInv, WalkInv, NEW c \in Clients, KeysetPage(c) PROVE WalkInv'
<1>1. UNCHANGED <<backend, scores>> /\ req[c].op = "keyset"
  BY DEF KeysetPage, At
<1>2. PICK r : r = req[c]
  OBVIOUS
<1>3. PICK below : below = {s \in scores : r.after = None \/ Later(r.after, s)}
  OBVIOUS
<1>4. PICK page : page = Slice(Listed(below), 0, Least(r.size, Cardinality(below)))
  OBVIOUS
<1>5. Goes(c, IF Cardinality(below) > r.size
              THEN [r EXCEPT !.seen = @ \o page, !.after = Last(page)]
              ELSE Walked("keyset", r.seen \o page, r.first, r.size))
  BY <1>2, <1>3, <1>4 DEF KeysetPage
<1>6. Numbered(scores) /\ Reads(r, scores, backend) /\ r.op = "keyset"
  BY <1>1, <1>2 DEF WalkInv
<1>7. IF Cardinality(below) > r.size
      THEN Reads([r EXCEPT !.seen = @ \o page, !.after = Last(page)], scores, backend)
      ELSE Reads(Walked("keyset", r.seen \o page, r.first, r.size), scores, backend)
  BY <1>3, <1>4, <1>6, KeysetReads
<1> QED BY <1>1, <1>5, <1>7, WalkGoes

\* The total is that of the moment, and on SQLite still is when the page is read.
LEMMA CountWalks == ASSUME IInv, WalkInv, NEW c \in Clients, CountScores(c) PROVE WalkInv'
<1>1. UNCHANGED <<backend, scores>> /\ req[c].op = "count"
  BY DEF CountScores, At
<1>2. PICK r : r = req[c]
  OBVIOUS
<1>3. PICK next : /\ Goes(c, next)
                  /\ next.op = "offset" /\ next.size = r.size /\ next.page = r.page
                  /\ next.seen = r.seen /\ next.first = r.first /\ next.total = Cardinality(scores)
  BY <1>2 DEF CountScores
<1>4. Reads(r, scores, backend) /\ Cardinality(scores) \in Nat /\ r.op = "count"
  BY <1>1, <1>2, ListedIs DEF WalkInv, Numbered
<1>5. SeenByPages(next, scores, backend)
  BY <1>3, <1>4 DEF Reads, SeenByPages
<1>6. Reads(next, scores, backend)
  BY <1>3, <1>4, <1>5 DEF Reads
<1> QED BY <1>1, <1>3, <1>6, WalkGoes

LEMMA OffsetWalks == ASSUME IInv, WalkInv, NEW c \in Clients, OffsetPage(c) PROVE WalkInv'
<1>1. UNCHANGED <<backend, scores>> /\ req[c].op = "offset"
  BY DEF OffsetPage, At
<1>2. PICK r : r = req[c]
  OBVIOUS
<1>3. PICK start : start = Least((r.page - 1) * Least(r.size, Cap), Cardinality(scores))
  OBVIOUS
<1>4. PICK page : page = Slice(Listed(scores), start, Least(r.size, Cardinality(scores) - start))
  OBVIOUS
<1>5. PICK seen : seen = r.seen \o page
  OBVIOUS
<1>6. Goes(c, IF r.page * r.size < r.total
              THEN [op |-> "count", size |-> r.size, page |-> r.page + 1, seen |-> seen,
                    first |-> r.first]
              ELSE Walked("offset", seen, r.first, r.size))
  BY <1>2, <1>3, <1>4, <1>5 DEF OffsetPage
<1>7. Numbered(scores) /\ Reads(r, scores, backend) /\ r.op = "offset"
  BY <1>1, <1>2 DEF WalkInv
<1>8. IF r.page * r.size < r.total
      THEN Reads([op |-> "count", size |-> r.size, page |-> r.page + 1, seen |-> seen,
                  first |-> r.first], scores, backend)
      ELSE Reads(Walked("offset", seen, r.first, r.size), scores, backend)
  BY <1>3, <1>4, <1>5, <1>7, OffsetReads
<1> QED BY <1>1, <1>6, <1>8, WalkGoes

\* The scores a behaviour starts with are numbered.
LEMMA FirstScores == ASSUME TelemetryInit PROVE Numbered(scores)
<1>1. CASE scene # "scores"
  <2>1. scores = {}
    BY <1>1 DEF TelemetryInit
  <2>2. IsFiniteSet({}) /\ Cardinality({}) = 0
    BY FS_EmptySet
  <2> QED BY <2>1, <2>2 DEF Numbered, Listable
<1>2. CASE scene = "scores"
  <2> DEFINE table == {[id |-> n, at |-> 0] : n \in 1..Items}
             f == [n \in 1..Items |-> [id |-> n, at |-> 0]]
  <2>1. scores = table /\ Items \in Nat
    BY <1>2, TelemetryAssumption DEF TelemetryInit
  <2>2. f \in Bijection(1..Items, table)
    BY DEF Bijection, Injection, Surjection, IsInjective
  <2>3. IsFiniteSet(1..Items) /\ Cardinality(1..Items) = Items
    BY <2>1, FS_Interval
  <2>4. IsFiniteSet(table) /\ Cardinality(table) = Items
    BY <2>2, <2>3, FS_Bijection DEF ExistsBijection
  <2>5. /\ \A s \in table : s \in [id : Nat, at : Nat] /\ s.id \in 1..Items
        /\ \A s, t \in table : s.id = t.id => s = t
        /\ \A n \in 1..Items : \E s \in table : s.id = n
    <3>1. \A n \in 1..Items : /\ [id |-> n, at |-> 0].id = n /\ [id |-> n, at |-> 0] \in table
                             /\ [id |-> n, at |-> 0] \in [id : Nat, at : Nat]
      BY <2>1
    <3>2. \A s \in table : s.id \in 1..Items /\ s = [id |-> s.id, at |-> 0]
      BY <2>1
    <3> HIDE DEF table
    <3> QED BY <3>1, <3>2
  <2> HIDE DEF table
  <2> QED BY <2>1, <2>4, <2>5 DEF Numbered, Listable
<1> QED BY <1>1, <1>2

\* WalkInv is an invariant.
THEOREM WalkInvIsInvariant == TelemetrySpec => []WalkInv
<1>1. TelemetryInit => WalkInv
  <2> SUFFICES ASSUME TelemetryInit PROVE WalkInv
    OBVIOUS
  <2>1. \A c \in Clients : req[c] = NoRequest
    BY DEF TelemetryInit
  <2>2. Reads(NoRequest, scores, backend)
    BY ReadsNothing DEF NoRequest, ScoreOps
  <2> QED BY <2>1, <2>2, FirstScores DEF WalkInv
<1>2. IInv /\ KeyInv /\ WalkInv /\ [TelemetryNext]_telemetryVars => WalkInv'
  <2> SUFFICES ASSUME IInv, KeyInv, WalkInv, [TelemetryNext]_telemetryVars PROVE WalkInv'
    OBVIOUS
  <2>1. ASSUME NEW c \in Clients,
               \/ TraceStep(c) \/ RunStep(c) \/ DatasetStep(c) \/ EvaluationStep(c)
               \/ ScoreStep(c) \/ KeyStep(c) \/ StatementFails(c)
        PROVE  WalkInv'
    <3>1. CASE ScoreStep(c)
      <4>1. clock \in Nat
        BY DEF KeyInv
      <4> QED BY <3>1, <4>1, ScanWalks, InsertScoreWalks, WalkStarts, KeysetWalks, CountWalks,
             OffsetWalks DEF ScoreStep
    <3>2. CASE ~ScoreStep(c)
      BY <2>1, <3>2, WalksElsewhere
    <3> QED BY <3>1, <3>2
  <2>2. CASE UNCHANGED <<backend, scores, req>>
    <3>1. WalkInv' <=> WalkInv
      BY <2>2 DEF WalkInv
    <3> QED BY <3>1
  <2>3. CASE Tick
    BY <2>2, <2>3 DEF Tick
  <2>4. CASE UNCHANGED telemetryVars
    BY <2>2, <2>4 DEF telemetryVars
  <2> QED BY <2>1, <2>3, <2>4 DEF TelemetryNext
<1> QED BY <1>1, <1>2, IInvIsInvariant, KeyInvIsInvariant, PTL DEF TelemetrySpec

\* With any number of scores, page size and scans between the pages, a reader of all pages
\* sees each score that was there when it began: once with the cursor, and with page numbers
\* at least once on SQLite, for the limits parsePagination grants.
THEOREM WalksSeeEveryScore == TelemetrySpec => []WalkSeesEach
<1>1. WalkInv => WalkSeesEach
  <2> SUFFICES ASSUME WalkInv, NEW c \in Clients, req[c].op = "walked", NEW id \in 1..req[c].first
               PROVE  IF req[c].way = "keyset" THEN Times(id, req[c].seen) = 1
                      ELSE backend = "sqlite" /\ req[c].size <= Cap => Times(id, req[c].seen) >= 1
    BY DEF WalkSeesEach
  <2> DEFINE seen == req[c].seen
             at == {i \in DOMAIN seen : seen[i].id = id}
  <2>1. Reads(req[c], scores, backend)
    BY DEF WalkInv
  <2>2. seen \in Seq(scores)
    BY <2>1 DEF Reads
  <2>3. IF req[c].way = "keyset" THEN Once(id, seen)
        ELSE backend = "sqlite" /\ req[c].size <= Cap => Appears(id, seen)
    BY <2>1 DEF Reads, SeenAll
  <2>4. Times(id, seen) = Cardinality(at)
    BY DEF Times
  <2>5. ASSUME Once(id, seen) PROVE Cardinality(at) = 1
    <3>1. PICK i \in DOMAIN seen : \A j \in DOMAIN seen : seen[j].id = id <=> j = i
      BY <2>5 DEF Once
    <3>2. at = {i}
      BY <3>1
    <3> QED BY <3>2, FS_Singleton
  <2>6. ASSUME Appears(id, seen) PROVE Cardinality(at) >= 1
    <3>1. IsFiniteSet(DOMAIN seen)
      BY <2>2, LenProperties, FS_Interval
    <3>2. IsFiniteSet(at) /\ at # {}
      BY <2>6, <3>1, FS_Subset DEF Appears
    <3>3. Cardinality(at) # 0 /\ Cardinality(at) \in Nat
      BY <3>2, FS_EmptySet, FS_CardinalityType
    <3> QED BY <3>3
  <2> HIDE DEF seen, at
  <2> QED BY <2>3, <2>4, <2>5, <2>6 DEF seen
<1> QED BY <1>1, WalkInvIsInvariant, PTL

-----------------------------------------------------------------------------
(* The pages.                                                              *)

Full(v, p, a, f, s) == [view |-> v, page |-> p, arg |-> a, filtered |-> f, selected |-> s]
Entry(r, n, s, x) == [rev |-> r, total |-> n, stale |-> s, failed |-> x]
Call(kind, id, v, tk, at, r, m, o) ==
    [kind |-> kind, id |-> id, view |-> v, token |-> tk, at |-> at, rev |-> r, mounted |-> m, open |-> o]

Views == {"datasets", "ab-tests", "labels", "evaluations", "compliance", "review", "audit-logs",
          "logs", "runs", "traces", "trace", "overview", "new dataset", "new evaluation", "new ab-test"}
Openers == {"datasets", "ab-tests", "evaluations", "compliance"}
OnePaged == {"review", "trace", "overview", "new dataset", "new evaluation", "new ab-test"}

LEMMA ViewsArePages == DOMAIN Pages = Views
  BY DEF Pages, Views

LEMMA ListPages ==
    /\ Pages["datasets"] = DatasetsPage /\ Pages["ab-tests"] = AbTestsPage
    /\ Pages["labels"] = LabelsPage /\ Pages["evaluations"] = EvaluationsPage
    /\ Pages["compliance"] = CompliancePage /\ Pages["review"] = ReviewPromptsPage
    /\ Pages["audit-logs"] = AuditLogsPage /\ Pages["logs"] = LogsPage
    /\ Pages["runs"] = RunsPage /\ Pages["traces"] = TracesPage
    /\ Pages["trace"] = TraceDetailPage /\ Pages["overview"] = OverviewPage
    /\ Pages["new dataset"] = NewDatasetPage /\ Pages["new evaluation"] = NewEvaluationPage
    /\ Pages["new ab-test"] = NewABTestPage
  BY DEF Pages

Kinds(v) == DOMAIN Pages[v].refreshes

LEMMA PageFields ==
    ASSUME NEW l, NEW d, NEW r
    PROVE  Page(l, d, r).list = l /\ Page(l, d, r).detail = d /\ Page(l, d, r).refreshes = r /\ Page(l, d, r).goes = Nil
  BY DEF Page

LEMMA FormGoes ==
    ASSUME NEW l, NEW g
    PROVE  Form(l, g).goes = g
  BY DEF Form
LEMMA FormRefreshes ==
    ASSUME NEW l, NEW g
    PROVE  Form(l, g).refreshes = [create |-> {}]
  BY DEF Form

LEMMA DatasetsFields ==
    /\ Pages["datasets"].list = "datasets" /\ Pages["datasets"].detail = "dataset"
    /\ Pages["datasets"].refreshes = [delete |-> {"list"}] /\ Pages["datasets"].goes = Nil
<1>1. Pages["datasets"] = DatasetsPage
  BY DEF Pages
<1> QED BY <1>1, PageFields DEF DatasetsPage
LEMMA AbTestsFields ==
    /\ Pages["ab-tests"].list = "ab-tests" /\ Pages["ab-tests"].detail = "ab-test"
    /\ Pages["ab-tests"].refreshes = [run |-> {"list", "detail"}, promote |-> {"list", "detail"}, delete |-> {"list"}]
    /\ Pages["ab-tests"].goes = Nil
<1>1. Pages["ab-tests"] = AbTestsPage
  BY DEF Pages
<1> QED BY <1>1, PageFields DEF AbTestsPage
LEMMA LabelsFields ==
    /\ Pages["labels"].refreshes = [create |-> {"list"}, delete |-> {"list"}] /\ Pages["labels"].goes = Nil
    /\ Pages["labels"].list = "labels"
<1>1. Pages["labels"] = LabelsPage
  BY DEF Pages
<1> QED BY <1>1, PageFields DEF LabelsPage
LEMMA ComplianceFields ==
    /\ Pages["compliance"].refreshes = [scan |-> {"list"}] /\ Pages["compliance"].goes = Nil
    /\ Pages["compliance"].list = "compliance"
<1>1. Pages["compliance"] = CompliancePage
  BY DEF Pages
<1> QED BY <1>1, PageFields DEF CompliancePage

ReadOnly == {"evaluations", "review", "audit-logs", "logs", "runs", "traces", "trace", "overview"}
LEMMA ReadOnlyFields ==
    ASSUME NEW v \in ReadOnly
    PROVE  Pages[v].refreshes = << >> /\ Pages[v].goes = Nil
<1>1. PICK l, d : Pages[v] = Page(l, d, << >>)
  BY ListPages DEF ReadOnly, EvaluationsPage, ReviewPromptsPage, AuditLogsPage, LogsPage,
        RunsPage, TracesPage, TraceDetailPage, OverviewPage, NoCalls
<1> QED BY <1>1, PageFields

LEMMA LogsFields == Pages["logs"].list = "logs"
<1>1. Pages["logs"] = LogsPage
  BY DEF Pages
<1> QED BY <1>1, PageFields DEF LogsPage

Forms == {"new dataset", "new evaluation", "new ab-test"}
LEMMA FormsFields ==
    /\ \A v \in Forms : Pages[v].refreshes = [create |-> {}] /\ Pages[v].goes # Nil
    /\ Pages["new dataset"].goes = "datasets" /\ Pages["new evaluation"].goes = "evaluations"
    /\ Pages["new ab-test"].goes = "ab-tests"
<1>1. /\ Pages["new dataset"] = Form(Nil, "datasets") /\ Pages["new evaluation"] = Form("prompts", "evaluations")
      /\ Pages["new ab-test"] = Form(Nil, "ab-tests")
  BY ListPages DEF NewDatasetPage, NewEvaluationPage, NewABTestPage
<1>2. \A g \in {"datasets", "evaluations", "ab-tests"} : g # Nil
  BY AreasAssumption, ViewsArePages DEF Views
<1>3. /\ Pages["new dataset"].goes = "datasets" /\ Pages["new evaluation"].goes = "evaluations"
      /\ Pages["new ab-test"].goes = "ab-tests"
  BY <1>1, FormGoes
<1>4. \A v \in Forms : Pages[v].refreshes = [create |-> {}]
  BY <1>1, FormRefreshes DEF Forms
<1> QED BY <1>2, <1>3, <1>4 DEF Forms

LEMMA Mutations ==
    /\ Kinds("datasets") = {"delete"}
    /\ Kinds("ab-tests") = {"run", "promote", "delete"}
    /\ Kinds("labels") = {"create", "delete"} /\ Kinds("compliance") = {"scan"}
    /\ \A v \in Forms : Kinds(v) = {"create"}
    /\ \A v \in ReadOnly : Kinds(v) = {}
<1>1. DOMAIN << >> = {}
  OBVIOUS
<1>2. \A v \in ReadOnly : Kinds(v) = {}
  BY <1>1, ReadOnlyFields DEF Kinds
<1>3. /\ DOMAIN [delete |-> {"list"}] = {"delete"} /\ DOMAIN [scan |-> {"list"}] = {"scan"}
      /\ DOMAIN [create |-> {"list"}, delete |-> {"list"}] = {"create", "delete"}
      /\ DOMAIN [create |-> {}] = {"create"}
      /\ DOMAIN [run |-> {"list", "detail"}, promote |-> {"list", "detail"}, delete |-> {"list"}]
            = {"run", "promote", "delete"}
  OBVIOUS
<1> QED BY <1>2, <1>3, DatasetsFields, AbTestsFields, LabelsFields, ComplianceFields, FormsFields DEF Kinds

LEMMA ListIsRefreshed ==
    ASSUME NEW v \in Views, NEW kind \in Kinds(v), kind # "delete", Pages[v].goes = Nil
    PROVE  "list" \in Pages[v].refreshes[kind]
<1>1. CASE v = "ab-tests"
  BY <1>1, AbTestsFields, Mutations
<1>2. CASE v = "labels"
  BY <1>2, LabelsFields, Mutations
<1>3. CASE v = "compliance"
  BY <1>3, ComplianceFields, Mutations
<1> QED BY <1>1, <1>2, <1>3, Mutations, FormsFields DEF Views, Forms, ReadOnly

LEMMA DetailIsRefreshed ==
    ASSUME NEW kind \in Kinds("ab-tests"), kind # "delete"
    PROVE  "detail" \in Pages["ab-tests"].refreshes[kind]
  BY AbTestsFields, Mutations

LEMMA Goals ==
    ASSUME NEW v \in Views, Pages[v].goes # Nil
    PROVE  \/ v = "new dataset" /\ Pages[v].goes = "datasets"
           \/ v = "new evaluation" /\ Pages[v].goes = "evaluations"
           \/ v = "new ab-test" /\ Pages[v].goes = "ab-tests"
  BY DatasetsFields, AbTestsFields, LabelsFields, ComplianceFields, FormsFields, ReadOnlyFields
     DEF Views, Forms, ReadOnly

LEMMA AreaLinks ==
    /\ Links["datasets"] = {"datasets", "new dataset"} /\ Links["abtests"] = {"ab-tests", "new ab-test"}
    /\ Links["labels"] = {"labels"} /\ Links["evaluations"] = {"evaluations", "new evaluation"}
    /\ Links["compliance"] = {"compliance", "review"} /\ Links["auditlogs"] = {"audit-logs"}
    /\ Links["logs"] = {"logs"} /\ Links["runs"] = {"runs"} /\ Links["traces"] = {"traces", "trace"}
    /\ Links["overview"] = {"overview"}
    /\ DOMAIN Links = {"datasets", "abtests", "labels", "evaluations", "compliance", "auditlogs", "logs",
                       "runs", "traces", "overview"}
  BY DEF Links
LEMMA AreaHomes ==
    /\ Home["datasets"] = "datasets" /\ Home["abtests"] = "ab-tests"
    /\ Home["labels"] = "labels" /\ Home["evaluations"] = "evaluations"
    /\ Home["compliance"] = "compliance" /\ Home["auditlogs"] = "audit-logs"
    /\ Home["logs"] = "logs" /\ Home["runs"] = "runs" /\ Home["traces"] = "traces"
    /\ Home["overview"] = "overview"
  BY DEF Home

\* Where the links of an area lead.
LEMMA AreaIs ==
    ASSUME NEW ar \in Areas
    PROVE  /\ Home[ar] \in Links[ar] /\ Links[ar] \subseteq Views
           /\ "logs" \in Links[ar] => ar = "logs" /\ Links[ar] = {"logs"}
           /\ "new dataset" \in Links[ar] => "datasets" \in Links[ar]
           /\ "new evaluation" \in Links[ar] => "evaluations" \in Links[ar]
           /\ "new ab-test" \in Links[ar] => "ab-tests" \in Links[ar]
<1>0. ar \in DOMAIN Links
  BY AreasAssumption
<1>1. CASE ar = "datasets"
  BY <1>1, AreaLinks, AreaHomes DEF Views
<1>2. CASE ar = "abtests"
  BY <1>2, AreaLinks, AreaHomes DEF Views
<1>3. CASE ar = "labels"
  BY <1>3, AreaLinks, AreaHomes DEF Views
<1>4. CASE ar = "evaluations"
  BY <1>4, AreaLinks, AreaHomes DEF Views
<1>5. CASE ar = "compliance"
  BY <1>5, AreaLinks, AreaHomes DEF Views
<1>6. CASE ar = "auditlogs"
  BY <1>6, AreaLinks, AreaHomes DEF Views
<1>7. CASE ar = "logs"
  BY <1>7, AreaLinks, AreaHomes DEF Views
<1>8. CASE ar = "runs"
  BY <1>8, AreaLinks, AreaHomes DEF Views
<1>9. CASE ar = "traces"
  BY <1>9, AreaLinks, AreaHomes DEF Views
<1>10. CASE ar = "overview"
  BY <1>10, AreaLinks, AreaHomes DEF Views
<1> QED BY <1>0, AreaLinks, <1>1, <1>2, <1>3, <1>4, <1>5, <1>6, <1>7, <1>8, <1>9, <1>10

LEMMA GoalIsLinked ==
    ASSUME NEW ar \in Areas, NEW v \in Links[ar], Pages[v].goes # Nil
    PROVE  Pages[v].goes \in Links[ar]
<1>1. v \in Views
  BY AreaIs
<1> QED BY ZenonT(40), <1>1, AreaIs, Goals

LEMMA FullFields ==
    ASSUME NEW v, NEW p, NEW a, NEW f, NEW s
    PROVE  /\ Full(v, p, a, f, s).view = v /\ Full(v, p, a, f, s).page = p /\ Full(v, p, a, f, s).arg = a
           /\ Full(v, p, a, f, s).filtered = f /\ Full(v, p, a, f, s).selected = s
  BY DEF Full

LEMMA Paged ==
    ASSUME NEW v, NEW p, NEW a, NEW f, NEW s, NEW x
    PROVE  [Full(v, p, a, f, s) EXCEPT !.page = x] = Full(v, x, a, f, s)
  BY DEF Full
LEMMA Asked ==
    ASSUME NEW v, NEW p, NEW a, NEW f, NEW s, NEW x
    PROVE  [Full(v, p, a, f, s) EXCEPT !.arg = x] = Full(v, p, x, f, s)
  BY DEF Full
LEMMA Filtered ==
    ASSUME NEW v, NEW p, NEW a, NEW f, NEW s, NEW x
    PROVE  [Full(v, p, a, f, s) EXCEPT !.filtered = x] = Full(v, p, a, x, s)
  BY DEF Full
LEMMA Selected ==
    ASSUME NEW v, NEW p, NEW a, NEW f, NEW s, NEW x
    PROVE  [Full(v, p, a, f, s) EXCEPT !.selected = x] = Full(v, p, a, f, x)
  BY DEF Full

LEMMA AfterIs ==
    ASSUME NEW v, NEW p, NEW a, NEW f, NEW s, NEW control, NEW w \in After(Full(v, p, a, f, s), control)
    PROVE  \/ control = "previous" /\ w = Full(v, p - 1, a, f, s)
           \/ control = "next" /\ w = Full(v, p + 1, a, f, s)
           \/ control = "filter" /\ w = Full(v, 1, a, ~f, s)
           \/ control = "status" /\ w = Full(v, p, a, ~f, s)
           \/ control = "ask" /\ \E b \in Args : w = Full(v, 1, b, f, s)
           \/ control = "select" /\ \E id \in RowIds : w \in {Full(v, p, a, f, id), Full(v, 1, a, f, id)}
           \/ control = "close" /\ w \in {Full(v, p, a, f, Nil), Full(v, 1, a, f, Nil)}
<1>u. PICK u : u = Full(v, p, a, f, s)
  OBVIOUS
<1>0. u.view = v /\ u.page = p /\ u.filtered = f
  BY <1>u, FullFields
<1>1. CASE control = "previous"
  <2>1. w = [u EXCEPT !.page = u.page - 1]
    BY <1>1, <1>u DEF After
  <2> QED BY <1>1, <1>0, <2>1, <1>u, Paged
<1>2. CASE control = "next"
  <2>1. w = [u EXCEPT !.page = u.page + 1]
    BY <1>2, <1>u DEF After
  <2> QED BY <1>2, <1>0, <2>1, <1>u, Paged
<1>3. CASE control = "filter"
  <2>1. w = [u EXCEPT !.filtered = ~u.filtered, !.page = 1]
    BY <1>3, <1>u DEF After
  <2>2. PICK w1 : w1 = [u EXCEPT !.filtered = ~f]
    OBVIOUS
  <2>3. w = [w1 EXCEPT !.page = 1]
    BY <2>1, <2>2, <1>0
  <2>4. w1 = Full(v, p, a, ~f, s)
    BY <1>u, <2>2, Filtered
  <2> QED BY <1>3, <2>3, <2>4, Paged
<1>4. CASE control = "status"
  <2>1. w = [u EXCEPT !.filtered = ~u.filtered]
    BY <1>4, <1>u DEF After
  <2> QED BY <1>4, <1>0, <2>1, <1>u, Filtered
<1>5. CASE control = "ask"
  <2>1. PICK b \in Args : w = [u EXCEPT !.arg = b, !.page = 1]
    BY <1>5, <1>u DEF After
  <2>2. PICK w1 : w1 = [u EXCEPT !.arg = b]
    OBVIOUS
  <2>3. w = [w1 EXCEPT !.page = 1]
    BY <2>1, <2>2
  <2>4. w1 = Full(v, p, b, f, s)
    BY <1>u, <2>2, Asked
  <2> QED BY <1>5, <2>3, <2>4, Paged
<1>6. CASE control = "select"
  <2>1. PICK id \in RowIds : (w = [u EXCEPT !.selected = id]) \/ (w = SetParam(u, "selected", id))
    BY <1>6, <1>u DEF After
  <2>2. PICK w1 : w1 = [u EXCEPT !.selected = id]
    OBVIOUS
  <2>3. SetParam(u, "selected", id) = [w1 EXCEPT !.page = 1]
    BY <2>2 DEF SetParam
  <2>4. w1 = Full(v, p, a, f, id)
    BY <1>u, <2>2, Selected
  <2>5. [w1 EXCEPT !.page = 1] = Full(v, 1, a, f, id)
    BY <2>4, Paged
  <2> QED BY <1>6, <2>1, <2>2, <2>3, <2>4, <2>5
<1>7. CASE control = "close"
  <2>1. (w = [u EXCEPT !.selected = Nil]) \/ (w = SetParam(u, "selected", Nil))
    BY <1>7, <1>u DEF After
  <2>2. PICK w1 : w1 = [u EXCEPT !.selected = Nil]
    OBVIOUS
  <2>3. SetParam(u, "selected", Nil) = [w1 EXCEPT !.page = 1]
    BY <2>2 DEF SetParam
  <2>4. w1 = Full(v, p, a, f, Nil)
    BY <1>u, <2>2, Selected
  <2>5. [w1 EXCEPT !.page = 1] = Full(v, 1, a, f, Nil)
    BY <2>4, Paged
  <2> QED BY <1>7, <2>1, <2>2, <2>3, <2>4, <2>5
<1>8. CASE control \notin {"previous", "next", "filter", "status", "ask", "select", "close"}
  <2>1. w \in {}
    BY <1>8, <1>u DEF After
  <2> QED BY <2>1
<1> QED BY <1>1, <1>2, <1>3, <1>4, <1>5, <1>6, <1>7, <1>8

-----------------------------------------------------------------------------
LEMMA PagerIs ==
    /\ Pager \subseteq {"previous", "next"}
    /\ "previous" \in Pager => ui.page > 1
    /\ "next" \in Pager => ui.page < PageCount
  BY DEF Pager, Offer

LEMMA ControlsAre ==
    /\ ui.view = "datasets" => Controls = DatasetsControls
    /\ ui.view = "ab-tests" => Controls = AbTestsControls
    /\ ui.view = "labels" => Controls = LabelsControls
    /\ ui.view = "evaluations" => Controls = EvaluationsControls
    /\ ui.view = "compliance" => Controls = ComplianceControls
    /\ ui.view = "audit-logs" => Controls = AuditLogsControls
    /\ ui.view = "runs" => Controls = RunsControls
    /\ ui.view \in {"logs", "traces"} => Controls = Pager
    /\ ui.view = "overview" => Controls = OverviewControls
    /\ ui.view \in {"review", "trace"} => Controls = {}
    /\ ui.view \in Forms => Controls = FormControls
  BY DEF Controls, Forms

\* What may be clicked, and when.
LEMMA Clickable ==
    ASSUME ui.view \in Views
    PROVE  /\ "previous" \in Controls => "previous" \in Pager /\ ui.view \notin OnePaged
           /\ "next" \in Controls => "next" \in Pager /\ ui.view \notin OnePaged
           /\ "select" \in Controls => ui.view \in Openers
           /\ "scan" \in Controls /\ ui.view = "compliance" => ui.selected = Nil
<1> DEFINE Goal == /\ "previous" \in Controls => "previous" \in Pager /\ ui.view \notin OnePaged
                   /\ "next" \in Controls => "next" \in Pager /\ ui.view \notin OnePaged
                   /\ "select" \in Controls => ui.view \in Openers
                   /\ "scan" \in Controls /\ ui.view = "compliance" => ui.selected = Nil
<1>1. CASE ui.view = "datasets"
  BY <1>1, ControlsAre DEF DatasetsControls, DatasetDialog, Offer, Idle, OnePaged, Openers
<1>2. CASE ui.view = "ab-tests"
  BY <1>2, ControlsAre DEF AbTestsControls, AbTestDialog, AbTestButtons, Offer, Idle, OnePaged, Openers
<1>3. CASE ui.view = "labels"
  <2>1. Controls \subseteq {"ask", "create", "delete"} \union Pager
    BY <1>3, ControlsAre DEF LabelsControls, Offer, Idle
  <2> QED BY <1>3, <2>1, PagerIs DEF OnePaged
<1>4. CASE ui.view = "evaluations"
  BY <1>4, ControlsAre DEF EvaluationsControls, Offer, OnePaged, Openers
<1>5. CASE ui.view = "compliance"
  BY <1>5, ControlsAre DEF ComplianceControls, ComplianceDialog, ComplianceTable, ScanForm, Offer, Idle,
     OnePaged, Openers
<1>6. CASE ui.view = "audit-logs"
  BY <1>6, ControlsAre, PagerIs DEF AuditLogsControls, OnePaged
<1>7. CASE ui.view = "runs"
  BY <1>7, ControlsAre, PagerIs DEF RunsControls, OnePaged
<1>8. CASE ui.view \in {"logs", "traces"}
  BY <1>8, ControlsAre, PagerIs DEF OnePaged
<1>9. CASE ui.view = "overview"
  BY <1>9, ControlsAre DEF OverviewControls, Offer
<1>10. CASE ui.view \in {"review", "trace"}
  BY <1>10, ControlsAre
<1>11. CASE ui.view \in Forms
  BY <1>11, ControlsAre DEF FormControls, Idle, Forms
<1> QED BY <1>1, <1>2, <1>3, <1>4, <1>5, <1>6, <1>7, <1>8, <1>9, <1>10, <1>11 DEF Views, Forms

-----------------------------------------------------------------------------
ScreenIsKnown ==
    /\ area \in Areas
    /\ \E v \in Links[area], p \in Nat \ {0}, a \in Args \union {Nil}, f \in BOOLEAN, s \in RowIds \union {Nil} :
          /\ ui = Full(v, p, a, f, s)
          /\ s # Nil => v \in Openers
          /\ v \in OnePaged => p = 1

\* The parts of a screen that queries and controls go by.
LEMMA ScreenParts ==
    ASSUME ScreenIsKnown
    PROVE  /\ area \in Areas /\ ui.view \in Links[area] /\ ui.view \in Views
           /\ ui.page \in Nat \ {0} /\ ui.arg \in Args \union {Nil} /\ ui.filtered \in BOOLEAN
           /\ ui.selected \in RowIds \union {Nil}
           /\ ui = Full(ui.view, ui.page, ui.arg, ui.filtered, ui.selected)
           /\ ui.selected # Nil => ui.view \in Openers
           /\ ui.view \in OnePaged => ui.page = 1
<1>1. PICK v \in Links[area], p \in Nat \ {0}, a \in Args \union {Nil}, f \in BOOLEAN, s \in RowIds \union {Nil} :
          /\ ui = Full(v, p, a, f, s)
          /\ s # Nil => v \in Openers
          /\ v \in OnePaged => p = 1
  BY DEF ScreenIsKnown
<1>2. ui.view = v /\ ui.page = p /\ ui.arg = a /\ ui.filtered = f /\ ui.selected = s
  BY <1>1, FullFields
<1>3. area \in Areas
  BY DEF ScreenIsKnown
<1> QED BY <1>1, <1>2, <1>3, AreaIs

LEMMA NewScreen ==
    ASSUME area \in Areas, NEW v \in Links[area], NEW a \in Args \union {Nil}, ui' = Screen(v, a), area' = area
    PROVE  ScreenIsKnown'
<1>1. ui' = Full(v, 1, a, FALSE, Nil)
  BY DEF Screen, Full
<1>2. 1 \in Nat \ {0}
  OBVIOUS
<1>3. FALSE \in BOOLEAN /\ Nil \in RowIds \union {Nil}
  BY Zenon
<1> QED BY <1>1, <1>2, <1>3, Zenon DEF ScreenIsKnown

LEMMA ClickedScreen ==
    ASSUME ScreenIsKnown, NEW control \in Controls, NEW u \in After(ui, control), ui' = u, area' = area
    PROVE  ScreenIsKnown'
<1> DEFINE v == ui.view  p == ui.page  a == ui.arg  f == ui.filtered  s == ui.selected
<1>1. /\ area \in Areas /\ v \in Links[area] /\ v \in Views /\ p \in Nat \ {0} /\ a \in Args \union {Nil}
      /\ f \in BOOLEAN /\ s \in RowIds \union {Nil} /\ ui = Full(v, p, a, f, s)
      /\ (s # Nil => v \in Openers) /\ (v \in OnePaged => p = 1)
  BY ScreenParts
<1>2. /\ control \in {"previous", "next"} => v \notin OnePaged
      /\ control = "previous" => p > 1
      /\ control = "select" => v \in Openers
  BY <1>1, Clickable, PagerIs
<1>3. \E q \in Nat \ {0}, b \in Args \union {Nil}, g \in BOOLEAN, t \in RowIds \union {Nil} :
         /\ u = Full(v, q, b, g, t)
         /\ t # Nil => v \in Openers
         /\ v \in OnePaged => q = 1
  <2>0. \/ control = "previous" /\ u = Full(v, p - 1, a, f, s)
        \/ control = "next" /\ u = Full(v, p + 1, a, f, s)
        \/ control = "filter" /\ u = Full(v, 1, a, ~f, s)
        \/ control = "status" /\ u = Full(v, p, a, ~f, s)
        \/ control = "ask" /\ \E b \in Args : u = Full(v, 1, b, f, s)
        \/ control = "select" /\ \E id \in RowIds : u \in {Full(v, p, a, f, id), Full(v, 1, a, f, id)}
        \/ control = "close" /\ u \in {Full(v, p, a, f, Nil), Full(v, 1, a, f, Nil)}
    BY <1>1, AfterIs
  <2> HIDE DEF v, p, a, f, s
  <2>1. CASE control = "previous"
    <3>1. p - 1 \in Nat \ {0}
      BY <1>1, <1>2, <2>1
    <3> QED BY <1>1, <1>2, <2>0, <2>1, <3>1
  <2>2. CASE control = "next"
    <3>1. p + 1 \in Nat \ {0}
      BY <1>1
    <3> QED BY <1>1, <1>2, <2>0, <2>2, <3>1
  <2>3. CASE control \in {"filter", "status"}
    <3>1. (~f) \in BOOLEAN
      BY Zenon
    <3>2. 1 \in Nat \ {0}
      OBVIOUS
    <3> QED BY <1>1, <2>0, <2>3, <3>1, <3>2
  <2>4. CASE control = "ask"
    BY <1>1, <2>0, <2>4
  <2>5. CASE control \in {"select", "close"}
    BY <1>1, <1>2, <2>0, <2>5
  <2> QED BY <2>0, <2>1, <2>2, <2>3, <2>4, <2>5
<1>4. v \in Links[area]
  BY <1>1
<1> HIDE DEF v
<1> QED BY <1>1, <1>3, <1>4 DEF ScreenIsKnown

-----------------------------------------------------------------------------
\* A mutation knows its page; only an open test's buttons and the deletions name a row.
Sensible(kind, id, v) == v \in Links[area] /\ kind \in Kinds(v) /\ (id # Nil => kind = "delete" \/ v = "ab-tests")
CallIsKnown(c) ==
    \E kind, id, v, tk, at, m, o : \E r \in 0..rev :
        c = Call(kind, id, v, tk, at, r, m, o) /\ Sensible(kind, id, v)

RevisionsInv ==
    /\ ScreenIsKnown
    /\ rev \in Nat /\ total \in Nat
    /\ \A c \in calls : CallIsKnown(c)
    /\ \A change \in DOMAIN confirmed : confirmed[change] \in 0..rev

LEMMA CallKind == ASSUME NEW a, NEW b, NEW c, NEW d, NEW e, NEW f, NEW g, NEW h
                  PROVE Call(a, b, c, d, e, f, g, h).kind = a
  BY DEF Call
LEMMA CallId == ASSUME NEW a, NEW b, NEW c, NEW d, NEW e, NEW f, NEW g, NEW h
                  PROVE Call(a, b, c, d, e, f, g, h).id = b
  BY DEF Call
LEMMA CallView == ASSUME NEW a, NEW b, NEW c, NEW d, NEW e, NEW f, NEW g, NEW h
                  PROVE Call(a, b, c, d, e, f, g, h).view = c
  BY DEF Call
LEMMA CallRev == ASSUME NEW a, NEW b, NEW c, NEW d, NEW e, NEW f, NEW g, NEW h
                  PROVE Call(a, b, c, d, e, f, g, h).rev = f
  BY DEF Call

LEMMA CallOpened == ASSUME NEW a, NEW b, NEW c, NEW d, NEW e, NEW f, NEW g, NEW h, NEW x
                  PROVE [Call(a, b, c, d, e, f, g, h) EXCEPT !.open = x] = Call(a, b, c, d, e, f, g, x)
  BY DEF Call

LEMMA CallParts ==
    ASSUME NEW c, CallIsKnown(c)
    PROVE  Sensible(c.kind, c.id, c.view) /\ c.rev \in 0..rev
<1>1. PICK kind, id, v, tk, at, m, o : \E r \in 0..rev :
        c = Call(kind, id, v, tk, at, r, m, o) /\ Sensible(kind, id, v)
  BY DEF CallIsKnown
<1>2. PICK r \in 0..rev : c = Call(kind, id, v, tk, at, r, m, o)
  BY <1>1
<1>3. c.kind = kind /\ c.id = id /\ c.view = v /\ c.rev = r
  BY <1>2, CallKind, CallId, CallView, CallRev
<1> QED BY <1>1, <1>3

LEMMA CallStays ==
    ASSUME NEW c, CallIsKnown(c), rev \in Nat, rev' \in Nat, rev' >= rev, area' = area
    PROVE  CallIsKnown(c)'
<1>1. PICK kind, id, v, tk, at, m, o : \E r \in 0..rev :
        c = Call(kind, id, v, tk, at, r, m, o) /\ Sensible(kind, id, v)
  BY DEF CallIsKnown
<1>2. PICK r \in 0..rev : c = Call(kind, id, v, tk, at, r, m, o)
  BY <1>1
<1>3. r \in 0..rev'
  BY <1>2
<1>4. Sensible(kind, id, v)'
  BY <1>1 DEF Sensible
<1> QED BY <1>2, <1>3, <1>4 DEF CallIsKnown

LEMMA CallLeaves ==
    ASSUME NEW c, CallIsKnown(c)
    PROVE  CallIsKnown(Leave(c))
<1>1. PICK kind, id, v, tk, at, m, o : \E r \in 0..rev :
        c = Call(kind, id, v, tk, at, r, m, o) /\ Sensible(kind, id, v)
  BY DEF CallIsKnown
<1>2. PICK r \in 0..rev : c = Call(kind, id, v, tk, at, r, m, o)
  BY <1>1
<1>3. PICK d : d = [c EXCEPT !.mounted = FALSE]
  OBVIOUS
<1>s. PICK sel : sel = ui.selected
  OBVIOUS
<1>4. [c EXCEPT !.mounted = FALSE, !.open = ui.selected] = [d EXCEPT !.open = sel]
  BY <1>3, <1>s
<1>b. PICK b : b = FALSE
  OBVIOUS
<1>5. d = Call(kind, id, v, tk, at, r, b, o)
  BY <1>2, <1>3, <1>b DEF Call
<1>6. [d EXCEPT !.open = sel] = Call(kind, id, v, tk, at, r, b, sel)
  BY <1>5, CallOpened
<1>7. Leave(c) \in {c, Call(kind, id, v, tk, at, r, b, sel)}
  BY <1>4, <1>6 DEF Leave
<1> QED BY <1>1, <1>2, <1>7 DEF CallIsKnown

LEMMA CallReturns ==
    ASSUME NEW c, CallIsKnown(c), rev' \in Nat, area' = area, NEW x, NEW d, d = [c EXCEPT !.at = x, !.rev = rev']
    PROVE  CallIsKnown(d)'
<1>1. PICK kind, id, v, tk, at, m, o : \E r \in 0..rev :
        c = Call(kind, id, v, tk, at, r, m, o) /\ Sensible(kind, id, v)
  BY DEF CallIsKnown
<1>2. PICK r \in 0..rev : c = Call(kind, id, v, tk, at, r, m, o)
  BY <1>1
<1>3. PICK b : b = [c EXCEPT !.at = x]
  OBVIOUS
<1>r. PICK q : q = rev'
  OBVIOUS
<1>4. d = [b EXCEPT !.rev = q]
  BY <1>3, <1>r
<1>5. b = Call(kind, id, v, tk, x, r, m, o)
  BY <1>2, <1>3 DEF Call
<1>6. d = Call(kind, id, v, tk, x, q, m, o)
  BY <1>4, <1>5 DEF Call
<1>7. q \in 0..rev'
  BY <1>r
<1>8. Sensible(kind, id, v)'
  BY <1>1 DEF Sensible
<1> QED BY <1>6, <1>7, <1>8 DEF CallIsKnown

LEMMA CallPressed ==
    ASSUME RevisionsInv, NEW kind \in DOMAIN P.refreshes \intersect Controls,
           NEW id \in (IF ui.selected # Nil THEN {ui.selected} ELSE IF kind = "delete" THEN RowIds ELSE {Nil})
    PROVE  CallIsKnown([kind |-> kind, id |-> id, view |-> ui.view, token |-> token, at |-> "sent", rev |-> 0,
                        mounted |-> TRUE, open |-> Nil])
<1>0. ScreenIsKnown
  BY DEF RevisionsInv
<1>1. /\ ui.view \in Links[area] /\ ui.view \in Views /\ kind \in Kinds(ui.view)
      /\ (ui.selected # Nil => ui.view \in Openers)
  BY <1>0, ScreenParts DEF P, Kinds
<1>2. id # Nil => kind = "delete" \/ ui.view = "ab-tests"
  BY <1>1, Clickable, Mutations DEF Openers, ReadOnly
<1>3. 0 \in 0..rev
  BY DEF RevisionsInv
<1>4. Call(kind, id, ui.view, token, "sent", 0, TRUE, Nil)
        = [kind |-> kind, id |-> id, view |-> ui.view, token |-> token, at |-> "sent", rev |-> 0,
           mounted |-> TRUE, open |-> Nil]
  BY DEF Call
<1>5. Sensible(kind, id, ui.view)
  BY <1>1, <1>2 DEF Sensible
<1> QED BY <1>3, <1>4, <1>5 DEF CallIsKnown

LEMMA Executed ==
    ASSUME rev \in Nat, total \in Nat, NEW c, Execute(c)
    PROVE  rev' \in Nat /\ rev' >= rev /\ total' \in Nat
  BY DEF Execute, Changes, serverVars

LEMMA RevisionsRest ==
    ASSUME RevisionsInv, UNCHANGED <<area, ui, rev, total, confirmed>>, \A c \in calls' : CallIsKnown(c)
    PROVE  RevisionsInv'
<1>1. ScreenIsKnown'
  BY DEF RevisionsInv, ScreenIsKnown
<1>2. \A c \in calls' : CallIsKnown(c)'
  BY CallStays DEF RevisionsInv
<1> QED BY <1>1, <1>2 DEF RevisionsInv

LEMMA RevisionsGrow ==
    ASSUME RevisionsInv, UNCHANGED <<area, ui, confirmed>>, rev' \in Nat, rev' >= rev, total' \in Nat,
           \A c \in calls' : CallIsKnown(c)'
    PROVE  RevisionsInv'
<1>1. ScreenIsKnown'
  BY DEF RevisionsInv, ScreenIsKnown
<1> QED BY <1>1 DEF RevisionsInv

\* An action of the page, the session or the cache.
LEMMA ClickKnown == ASSUME RevisionsInv, Click PROVE RevisionsInv'
<1>1. PICK control \in Controls : \E u \in After(ui, control) : Shows(u, cache)
  BY DEF Click
<1>2. PICK u \in After(ui, control) : Shows(u, cache)
  BY <1>1
<1>3. ui' = u /\ UNCHANGED <<area, calls, rev, total, confirmed>>
  BY <1>2 DEF Click, Shows, serverVars, historyVars
<1>4. ScreenIsKnown'
  BY <1>3, ClickedScreen DEF RevisionsInv
<1>5. \A c \in calls' : CallIsKnown(c)'
  BY <1>3, CallStays DEF RevisionsInv
<1> QED BY <1>3, <1>4, <1>5 DEF RevisionsInv

LEMMA OpenKnown == ASSUME RevisionsInv, Open PROVE RevisionsInv'
<1>1. PICK v \in Links[area] \ {ui.view} :
        \E a \in (IF v = "trace" THEN Args ELSE {Nil}) : Shows(Screen(v, a), cache)
  BY DEF Open
<1>2. PICK a \in (IF v = "trace" THEN Args ELSE {Nil}) : Shows(Screen(v, a), cache)
  BY <1>1
<1>3. ui' = Screen(v, a) /\ UNCHANGED <<area, rev, total, confirmed>> /\ calls' = {Leave(c) : c \in calls}
  BY <1>2 DEF Open, Shows, serverVars, historyVars
<1>4. ScreenIsKnown'
  BY <1>3, NewScreen DEF RevisionsInv, ScreenIsKnown
<1>5. \A c \in calls' : CallIsKnown(c)'
  BY <1>3, CallLeaves, CallStays DEF RevisionsInv
<1> QED BY <1>3, <1>4, <1>5 DEF RevisionsInv

LEMMA ReloadKnown == ASSUME RevisionsInv, Reload PROVE RevisionsInv'
<1>1. ui' = InUrl(ui) /\ UNCHANGED <<area, rev, total>> /\ calls' = {} /\ confirmed' = << >>
  BY DEF Reload, serverVars
<1>2. ui.view \in Links[area] /\ area \in Areas /\ ui.arg \in Args \union {Nil}
  BY ScreenParts DEF RevisionsInv
<1>3. ScreenIsKnown'
  <2>1. CASE ui.view = "compliance"
    BY <1>1, <2>1 DEF InUrl, RevisionsInv, ScreenIsKnown
  <2>2. CASE ui.view # "compliance"
    <3>1. PICK a \in Args \union {Nil} : a = IF ui.view = "trace" THEN ui.arg ELSE Nil
      BY <1>2
    <3>2. ui' = Screen(ui.view, a)
      BY <1>1, <2>2, <3>1 DEF InUrl
    <3> QED BY <1>1, <1>2, <3>2, NewScreen
  <2> QED BY <2>1, <2>2
<1>4. DOMAIN confirmed' = {}
  BY <1>1
<1> QED BY <1>1, <1>3, <1>4 DEF RevisionsInv

LEMMA PressKnown == ASSUME RevisionsInv, Press PROVE RevisionsInv'
<1>1. PICK kind \in DOMAIN P.refreshes \intersect Controls :
         \E id \in (IF ui.selected # Nil THEN {ui.selected} ELSE IF kind = "delete" THEN RowIds ELSE {Nil}) :
           calls' = calls \union
             {[kind |-> kind, id |-> id, view |-> ui.view, token |-> token, at |-> "sent", rev |-> 0,
               mounted |-> TRUE, open |-> Nil]}
  BY DEF Press
<1>2. \A c \in calls' : CallIsKnown(c)
  BY <1>1, CallPressed DEF RevisionsInv
<1>3. UNCHANGED <<area, ui, rev, total, confirmed>>
  BY DEF Press, pageVars, serverVars, historyVars
<1> QED BY <1>2, <1>3, RevisionsRest

LEMMA CarryKnown == ASSUME RevisionsInv, NEW c \in calls, Carry(c) PROVE RevisionsInv'
<1>1. rev' \in Nat /\ rev' >= rev /\ total' \in Nat
  BY Executed DEF Carry, RevisionsInv
<1>2. UNCHANGED <<area, ui, confirmed>>
  BY DEF Carry, pageVars, historyVars
<1>3. PICK x : x = IF rev' # rev THEN "done" ELSE "refused"
  OBVIOUS
<1>4. PICK d : d = [c EXCEPT !.at = x, !.rev = rev'] /\ calls' = (calls \ {c}) \union {d}
  BY <1>3 DEF Carry
<1>5. CallIsKnown(d)'
  BY <1>1, <1>2, <1>4, CallReturns DEF RevisionsInv
<1>6. \A e \in calls' : CallIsKnown(e)'
  BY <1>1, <1>2, <1>4, <1>5, CallStays DEF RevisionsInv
<1> QED BY <1>1, <1>2, <1>6, RevisionsGrow

LEMMA OutsideKnown ==
    ASSUME RevisionsInv, Other \/ \E c \in orphans : CarryLate(c)
    PROVE  RevisionsInv'
<1>1. rev' \in Nat /\ rev' >= rev /\ total' \in Nat
  <2>1. CASE Other
    BY <2>1 DEF Other, RevisionsInv
  <2>2. CASE \E c \in orphans : CarryLate(c)
    BY <2>2, Executed DEF CarryLate, RevisionsInv
  <2> QED BY <2>1, <2>2
<1>2. UNCHANGED <<area, ui, confirmed, calls>>
  BY DEF Other, CarryLate, pageVars, historyVars
<1>3. \A e \in calls' : CallIsKnown(e)'
  BY <1>1, <1>2, CallStays DEF RevisionsInv
<1> QED BY <1>1, <1>2, <1>3, RevisionsGrow

\* The changes that an answer tells the page of.
Told(c) == {<<c.view, Nil>>, <<c.view, c.id>>}

LEMMA HearKnown == ASSUME RevisionsInv, NEW c \in calls, Hear(c) PROVE RevisionsInv'
<1>1. UNCHANGED <<area, rev, total>> /\ calls' \subseteq calls
  BY DEF Hear, serverVars
<1>2. CASE ~Parses(c)
  <2>1. UNCHANGED <<ui, confirmed>>
    BY <1>2 DEF Hear, pageVars
  <2> QED BY <1>1, <2>1, RevisionsRest DEF RevisionsInv
<1>3. CASE Parses(c)
  <2>1. confirmed' = Put(confirmed, Told(c), c.rev)
    BY <1>3 DEF Hear, Told
  <2>2. Sensible(c.kind, c.id, c.view) /\ c.rev \in 0..rev
    BY CallParts DEF RevisionsInv
  <2>3. \A change \in DOMAIN confirmed' : confirmed'[change] \in 0..rev
    <3> DEFINE n == c.rev
    <3>1. n \in 0..rev /\ confirmed' = Put(confirmed, Told(c), n)
      BY <2>1, <2>2
    <3> HIDE DEF n
    <3> QED BY <3>1 DEF Put, RevisionsInv
  <2>4. ui' = ui \/ (Pages[c.view].goes # Nil /\ ui' = Screen(Pages[c.view].goes, Nil))
    BY <1>3 DEF Hear, Shows
  <2>5. ScreenIsKnown'
    <3>1. CASE ui' = ui
      BY <1>1, <3>1 DEF RevisionsInv, ScreenIsKnown
    <3>2. CASE ui' # ui
      <4>1. Pages[c.view].goes \in Links[area] /\ area \in Areas
        BY <2>2, <2>4, <3>2, GoalIsLinked DEF Sensible, RevisionsInv, ScreenIsKnown
      <4> QED BY <1>1, <2>4, <3>2, <4>1, NewScreen
    <3> QED BY <3>1, <3>2
  <2>6. \A e \in calls' : CallIsKnown(e)'
    BY <1>1, CallStays DEF RevisionsInv
  <2> QED BY <1>1, <2>3, <2>5, <2>6 DEF RevisionsInv
<1> QED BY <1>2, <1>3

\* What touches no screen, no row and no change.
LEMMA RestKnown ==
    ASSUME RevisionsInv, Retry \/ Save \/ Logout \/ Age \/ SessionEnds \/ \E c \in calls : GiveUp(c)
    PROVE  RevisionsInv'
<1>1. UNCHANGED <<area, ui, rev, total, confirmed>> /\ calls' \subseteq calls
  BY DEF Retry, Save, Logout, Age, SessionEnds, GiveUp, pageVars, serverVars, historyVars
<1> QED BY <1>1, RevisionsRest DEF RevisionsInv

LEMMA QueryKnown ==
    ASSUME RevisionsInv, NEW k, Serve(k) \/ Get(k) \/ TimeOut(k)
    PROVE  RevisionsInv'
<1>1. UNCHANGED <<area, ui, rev, total, confirmed, calls>>
  BY DEF Serve, Get, TimeOut, pageVars, serverVars, historyVars
<1> QED BY <1>1, RevisionsRest DEF RevisionsInv

LEMMA RevisionsInvIsInvariant == DashboardSpec => []RevisionsInv
<1>1. DashboardInit => RevisionsInv
  <2> SUFFICES ASSUME DashboardInit PROVE RevisionsInv
    OBVIOUS
  <2>1. area \in Areas /\ ui = Screen(Home[area], Nil) /\ calls = {} /\ confirmed = << >> /\ rev = 0
        /\ total \in 0..MaxRows
    BY DEF DashboardInit
  <2>2. Home[area] \in Links[area]
    BY <2>1, AreaIs
  <2>3. ui = Full(Home[area], 1, Nil, FALSE, Nil)
    BY <2>1 DEF Screen, Full
  <2>4. 1 \in Nat \ {0}
    OBVIOUS
  <2>5. FALSE \in BOOLEAN /\ Nil \in RowIds \union {Nil} /\ Nil \in Args \union {Nil}
    BY Zenon
  <2>6. ScreenIsKnown
    BY <2>1, <2>2, <2>3, <2>4, <2>5, Zenon DEF ScreenIsKnown
  <2>7. DOMAIN confirmed = {}
    BY <2>1
  <2>8. total \in Nat /\ rev \in Nat
    BY <2>1, DashboardAssumption
  <2> QED BY <2>1, <2>6, <2>7, <2>8 DEF RevisionsInv
<1>2. RevisionsInv /\ [DashboardNext]_dashboardVars => RevisionsInv'
  <2> SUFFICES ASSUME RevisionsInv, [DashboardNext]_dashboardVars PROVE RevisionsInv'
    OBVIOUS
  <2>1. CASE UNCHANGED dashboardVars
    <3>1. UNCHANGED <<area, ui, rev, total, confirmed, calls>>
      BY <2>1 DEF dashboardVars, pageVars, serverVars, historyVars
    <3> QED BY <3>1, RevisionsRest DEF RevisionsInv
  <2>2. CASE DashboardNext
    <3>1. CASE Click \/ Open \/ Reload \/ Press
      BY <3>1, ClickKnown, OpenKnown, ReloadKnown, PressKnown
    <3>2. ASSUME NEW c \in calls, Carry(c) \/ Hear(c)
          PROVE  RevisionsInv'
      BY <3>2, CarryKnown, HearKnown
    <3>3. CASE Other \/ \E c \in orphans : CarryLate(c)
      BY <3>3, OutsideKnown
    <3>4. CASE Retry \/ Save \/ Logout \/ Age \/ SessionEnds
      BY <3>4, RestKnown
    <3>5. ASSUME NEW c \in calls, GiveUp(c) PROVE RevisionsInv'
      BY <3>5, RestKnown
    <3>6. ASSUME NEW k \in DOMAIN fetches, Serve(k) \/ Get(k) \/ TimeOut(k) PROVE RevisionsInv'
      BY <3>6, QueryKnown
    <3> QED BY <2>2, <3>1, <3>2, <3>3, <3>4, <3>5, <3>6 DEF DashboardNext
  <2> QED BY <2>1, <2>2
<1> QED BY <1>1, <1>2, PTL DEF DashboardSpec

-----------------------------------------------------------------------------
\* A change that the answer to the query of this key has to show.
Owed(k, change) ==
    \E v \in Views :
       \/ change = <<v, Nil>> /\ Pages[v].goes = Nil /\ k[1] = Pages[v].list
       \/ \E id \in RowIds : change = <<v, id>> /\ k = <<Pages[v].detail, id, Nil>>

\* Read at revision n, the query's data shows every change that conf, the page's news, is of.
Meets(n, k, conf) == \A change \in DOMAIN conf : Owed(k, change) => n >= conf[change]

\* What is fresh, or on screen without an error, and not under way, shows the changes; so does
\* an answer on its way.
IsEntry(e) == \E r, n, s, x : e = Entry(r, n, s, x)
EntryIsFresh(k, e, keys, fe, ov, conf) ==
    (e.stale # TRUE \/ (k \in keys /\ e.failed # TRUE)) /\ k \notin DOMAIN fe /\ k \notin ov => Meets(e.rev, k, conf)
FetchIsFresh(k, f, ov, conf) ==
    /\ f.at \in {"sent", "answered", "failed"}
    /\ f.at = "answered" /\ k \notin ov => Meets(f.rev, k, conf)

AllFresh(ca, fe, ov, keys, conf) ==
    /\ \A k \in DOMAIN ca : IsEntry(ca[k]) /\ EntryIsFresh(k, ca[k], keys, fe, ov, conf)
    /\ \A k \in DOMAIN fe : FetchIsFresh(k, fe[k], ov, conf)

\* Keys that no invalidation has reached: a fetch was under way, or another row was open.
Exempt == overtaken \union missed
FreshInv == AllFresh(cache, fetches, Exempt, KeysOf(ui), confirmed)

LEMMA FetchedAt == ASSUME NEW a, NEW b, NEW c PROVE Fetched(a, b, c).at = a
  BY DEF Fetched
LEMMA FetchedRev == ASSUME NEW a, NEW b, NEW c PROVE Fetched(a, b, c).rev = b
  BY DEF Fetched
LEMMA FetchedTotal == ASSUME NEW a, NEW b, NEW c PROVE Fetched(a, b, c).total = c
  BY DEF Fetched
LEMMA SentAt == Sent.at = "sent" /\ Failed.at = "failed"
  BY FetchedAt DEF Sent, Failed
LEMMA EntryRev == ASSUME NEW a, NEW b, NEW c, NEW d PROVE Entry(a, b, c, d).rev = a
  BY DEF Entry
LEMMA EntryTotal == ASSUME NEW a, NEW b, NEW c, NEW d PROVE Entry(a, b, c, d).total = b
  BY DEF Entry
LEMMA EntryStale == ASSUME NEW a, NEW b, NEW c, NEW d PROVE Entry(a, b, c, d).stale = c
  BY DEF Entry
LEMMA EntryFailed == ASSUME NEW a, NEW b, NEW c, NEW d PROVE Entry(a, b, c, d).failed = d
  BY DEF Entry

LEMMA Staled ==
    ASSUME NEW e, IsEntry(e), NEW d, d = [e EXCEPT !.stale = TRUE]
    PROVE  IsEntry(d) /\ d.rev = e.rev /\ d.total = e.total /\ d.stale = TRUE /\ d.failed = e.failed
<1>1. PICK r, n, s, x : e = Entry(r, n, s, x)
  BY DEF IsEntry
<1>2. PICK t : t = TRUE
  OBVIOUS
<1>3. d = Entry(r, n, t, x)
  BY <1>1, <1>2 DEF Entry
<1>4. IsEntry(d)
  BY <1>3 DEF IsEntry
<1>5. d.rev = e.rev
  BY <1>1, <1>3, EntryRev
<1>6. d.total = e.total
  BY <1>1, <1>3, EntryTotal
<1>7. d.stale = TRUE
  BY <1>2, <1>3, EntryStale
<1>8. d.failed = e.failed
  BY <1>1, <1>3, EntryFailed
<1> QED BY <1>4, <1>5, <1>6, <1>7, <1>8

LEMMA Broken ==
    ASSUME NEW e, IsEntry(e), NEW d, d = [e EXCEPT !.stale = TRUE, !.failed = TRUE]
    PROVE  IsEntry(d) /\ d.stale = TRUE /\ d.failed = TRUE /\ d.total = e.total
<1>1. PICK r, n, s, x : e = Entry(r, n, s, x)
  BY DEF IsEntry
<1>t. PICK t : t = TRUE
  OBVIOUS
<1>2. PICK b : b = [e EXCEPT !.stale = TRUE]
  OBVIOUS
<1>3. d = [b EXCEPT !.failed = t]
  BY <1>2, <1>t
<1>4. b = Entry(r, n, t, x)
  BY <1>1, <1>2, <1>t DEF Entry
<1>5. d = Entry(r, n, t, t)
  BY <1>3, <1>4 DEF Entry
<1>6. IsEntry(d)
  BY <1>5 DEF IsEntry
<1>7. d.stale = TRUE
  BY <1>t, <1>5, EntryStale
<1>8. d.failed = TRUE
  BY <1>t, <1>5, EntryFailed
<1>9. d.total = e.total
  BY <1>1, <1>5, EntryTotal
<1> QED BY <1>6, <1>7, <1>8, <1>9

LEMMA Putting ==
    ASSUME NEW f, NEW S, NEW v
    PROVE  /\ DOMAIN Put(f, S, v) = DOMAIN f \union S
           /\ \A k \in S : Put(f, S, v)[k] = v
           /\ \A k \in DOMAIN f \ S : Put(f, S, v)[k] = f[k]
  BY DEF Put

LEMMA Dropping ==
    ASSUME NEW f, NEW S
    PROVE  /\ DOMAIN Drop(f, S) = DOMAIN f \ S
           /\ \A k \in DOMAIN f \ S : Drop(f, S)[k] = f[k]
  BY DEF Drop, Restrict

\* The screen changes: what comes into use is fresh or is asked for.
LEMMA ShowsFresh ==
    ASSUME NEW u, NEW known, NEW conf, Shows(u, known), AllFresh(known, fetches, Exempt, KeysOf(ui), conf)
    PROVE  AllFresh(known, fetches', Exempt', KeysOf(u), conf)
<1>1. PICK wanted : /\ wanted = {k \in KeysOf(u) \ KeysOf(ui) :
                     (k \in DOMAIN known => known[k].stale) /\ k \notin DOMAIN fetches}
                   /\ fetches' = Put(fetches, wanted, Sent)
                   /\ Exempt' = Exempt \ wanted
  <2>1. PICK wanted : /\ wanted = {k \in KeysOf(u) \ KeysOf(ui) :
                       (k \in DOMAIN known => known[k].stale) /\ k \notin DOMAIN fetches}
                     /\ fetches' = Put(fetches, wanted, Sent)
                     /\ overtaken' = overtaken \ wanted /\ missed' = missed \ wanted
    BY DEF Shows
  <2>2. Exempt' = Exempt \ wanted
    BY <2>1 DEF Exempt
  <2> QED BY <2>1, <2>2
<1>2. /\ DOMAIN fetches' = DOMAIN fetches \union wanted
      /\ \A k \in wanted : fetches'[k] = Sent
      /\ \A k \in DOMAIN fetches \ wanted : fetches'[k] = fetches[k]
  BY <1>1 DEF Put
<1>3. ASSUME NEW k \in DOMAIN known PROVE IsEntry(known[k]) /\ EntryIsFresh(k, known[k], KeysOf(u), fetches', Exempt', conf)
  <2>1. IsEntry(known[k]) /\ EntryIsFresh(k, known[k], KeysOf(ui), fetches, Exempt, conf)
    BY <1>3 DEF AllFresh
  <2>2. SUFFICES ASSUME known[k].stale # TRUE \/ (k \in KeysOf(u) /\ known[k].failed # TRUE),
                        k \notin DOMAIN fetches', k \notin Exempt'
                 PROVE  Meets(known[k].rev, k, conf)
    BY <2>1 DEF EntryIsFresh
  <2>3. k \notin wanted /\ k \notin DOMAIN fetches /\ k \notin Exempt
    BY <1>1, <1>2, <2>2
  <2>4. known[k].stale # TRUE \/ (k \in KeysOf(ui) /\ known[k].failed # TRUE)
    <3>1. CASE known[k].stale
      <4>1. k \in KeysOf(u) => k \in KeysOf(ui)
        BY <1>1, <2>3, <3>1
      <4>2. known[k].stale = TRUE \/ known[k].stale # TRUE
        OBVIOUS
      <4> QED BY <2>2, <4>1
    <3>2. CASE ~known[k].stale
      BY <3>2
    <3> QED BY <3>1, <3>2
  <2> QED BY <2>1, <2>3, <2>4 DEF EntryIsFresh
<1>4. ASSUME NEW k \in DOMAIN fetches' PROVE FetchIsFresh(k, fetches'[k], Exempt', conf)
  <2>1. CASE k \in wanted
    BY <1>2, <2>1, SentAt DEF FetchIsFresh
  <2>2. CASE k \notin wanted
    BY <1>1, <1>2, <2>2 DEF FetchIsFresh, AllFresh
  <2> QED BY <2>1, <2>2
<1> QED BY <1>3, <1>4 DEF AllFresh

LEMMA KeysOfScreen ==
    ASSUME NEW u, ui' = u
    PROVE  KeysOf(ui)' = KeysOf(u)
  BY DEF KeysOf, ListKeys, DetailKeys

LEMMA MovesFresh ==
    ASSUME FreshInv, NEW u, Shows(u, cache), cache' = cache, confirmed' = confirmed
    PROVE  FreshInv'
<1>1. AllFresh(cache, fetches', Exempt', KeysOf(u), confirmed)
  BY ShowsFresh DEF FreshInv
<1>2. KeysOf(ui)' = KeysOf(u)
  BY KeysOfScreen DEF Shows
<1> QED BY <1>1, <1>2 DEF FreshInv

\* No news: what was fresh stays so when entries only age and fetches are only taken back.
LEMMA QuietFresh ==
    ASSUME FreshInv, UNCHANGED <<ui, confirmed>>, DOMAIN cache' = DOMAIN cache, Exempt' = Exempt,
           \A k \in DOMAIN cache : IsEntry(cache'[k]) /\ (cache'[k] = cache[k] \/ (cache'[k].stale = TRUE
              /\ (k \in KeysOf(ui) /\ k \notin DOMAIN fetches' =>
                     cache'[k].failed = TRUE \/ (cache'[k].rev = cache[k].rev /\ cache'[k].failed = cache[k].failed)))),
           DOMAIN fetches \subseteq DOMAIN fetches',
           \A k \in DOMAIN fetches' : \/ k \in DOMAIN fetches /\ fetches'[k] = fetches[k]
                                     \/ fetches'[k].at \in {"sent", "failed"}
    PROVE  FreshInv'
<1>1. KeysOf(ui)' = KeysOf(ui)
  BY KeysOfScreen
<1>2. ASSUME NEW k \in DOMAIN cache' PROVE IsEntry(cache'[k]) /\ EntryIsFresh(k, cache'[k], KeysOf(ui), fetches', Exempt, confirmed)
  BY <1>2 DEF FreshInv, AllFresh, EntryIsFresh
<1>3. ASSUME NEW k \in DOMAIN fetches' PROVE FetchIsFresh(k, fetches'[k], Exempt, confirmed)
  BY <1>3 DEF FreshInv, AllFresh, FetchIsFresh
<1> QED BY <1>1, <1>2, <1>3 DEF FreshInv, AllFresh

LEMMA ClickFresh == ASSUME FreshInv, Click PROVE FreshInv'
  BY MovesFresh DEF Click, historyVars

LEMMA OpenFresh == ASSUME FreshInv, Open PROVE FreshInv'
  BY MovesFresh DEF Open, historyVars

LEMMA ReloadFresh == ASSUME Reload PROVE FreshInv'
<1>1. cache' = << >> /\ confirmed' = << >> /\ fetches' = Put(<< >>, KeysOf(ui'), Sent)
  BY DEF Reload
<1>2. DOMAIN cache' = {}
  BY <1>1
<1>3. \A k \in DOMAIN fetches' : fetches'[k] = Sent
  BY <1>1 DEF Put
<1>4. \A k \in DOMAIN fetches' : FetchIsFresh(k, fetches'[k], Exempt', confirmed')
  BY <1>3, SentAt DEF FetchIsFresh
<1> QED BY <1>2, <1>4 DEF FreshInv, AllFresh

LEMMA RetryFresh == ASSUME FreshInv, RevisionsInv, Retry PROVE FreshInv'
<1>1. /\ cache' = [k \in DOMAIN cache |-> IF k[1] = "metrics" THEN [cache[k] EXCEPT !.stale = TRUE] ELSE cache[k]]
      /\ fetches' = Put(fetches, ListKeys(ui), Sent) /\ UNCHANGED <<ui, confirmed, Exempt>>
  BY DEF Retry, historyVars, unrenewed, Exempt
<1>2. DOMAIN fetches \subseteq DOMAIN fetches' /\ \A k \in DOMAIN fetches' :
         fetches'[k] = Sent \/ (k \in DOMAIN fetches /\ fetches'[k] = fetches[k])
  BY <1>1 DEF Put
<1>3. ASSUME NEW k \in DOMAIN cache
      PROVE  IsEntry(cache'[k]) /\ (cache'[k] = cache[k] \/ (cache'[k].stale = TRUE
                /\ cache'[k].rev = cache[k].rev /\ cache'[k].failed = cache[k].failed))
  <2>1. IsEntry(cache[k])
    BY DEF FreshInv, AllFresh
  <2>2. cache'[k] = cache[k] \/ cache'[k] = [cache[k] EXCEPT !.stale = TRUE]
    BY <1>1
  <2> QED BY <2>1, <2>2, Staled
<1>4. DOMAIN cache' = DOMAIN cache
  BY <1>1
<1> QED BY <1>1, <1>2, <1>3, <1>4, SentAt, QuietFresh

LEMMA AgeFresh == ASSUME FreshInv, Age PROVE FreshInv'
<1>1. /\ cache' = [k \in DOMAIN cache |-> [cache[k] EXCEPT !.stale = TRUE]]
      /\ UNCHANGED <<ui, fetches, confirmed, Exempt>>
  BY DEF Age, historyVars, unrenewed, Exempt
<1>3. ASSUME NEW k \in DOMAIN cache
      PROVE  IsEntry(cache'[k]) /\ cache'[k].stale = TRUE
             /\ cache'[k].rev = cache[k].rev /\ cache'[k].failed = cache[k].failed
  <2>1. IsEntry(cache[k])
    BY DEF FreshInv, AllFresh
  <2>2. cache'[k] = [cache[k] EXCEPT !.stale = TRUE]
    BY <1>1
  <2> QED BY <2>1, <2>2, Staled
<1>4. DOMAIN cache' = DOMAIN cache
  BY <1>1
<1> QED BY <1>1, <1>3, <1>4, QuietFresh

LEMMA TimeOutFresh == ASSUME FreshInv, NEW q \in DOMAIN fetches, TimeOut(q) PROVE FreshInv'
<1>1. fetches' = [fetches EXCEPT ![q] = Failed] /\ UNCHANGED <<ui, cache, confirmed, Exempt>>
  BY DEF TimeOut, historyVars, unrenewed, Exempt
<1>2. DOMAIN fetches' = DOMAIN fetches /\ \A k \in DOMAIN fetches' : fetches'[k] = Failed \/ fetches'[k] = fetches[k]
  BY <1>1
<1>3. \A k \in DOMAIN cache : IsEntry(cache'[k]) /\ cache'[k] = cache[k]
  BY <1>1 DEF FreshInv, AllFresh
<1>4. DOMAIN cache' = DOMAIN cache
  BY <1>1
<1> QED BY <1>1, <1>2, <1>3, <1>4, SentAt, QuietFresh

LEMMA SameFresh == ASSUME FreshInv, UNCHANGED <<pageVars, confirmed>> PROVE FreshInv'
<1>1. UNCHANGED <<ui, cache, fetches, Exempt>>
  BY DEF pageVars, unrenewed, Exempt
<1>2. KeysOf(ui)' = KeysOf(ui)
  BY <1>1, KeysOfScreen
<1> QED BY <1>1, <1>2 DEF FreshInv

\* An answer is read at the latest revision.
LEMMA ServeFresh == ASSUME FreshInv, RevisionsInv, NEW q \in DOMAIN fetches, Serve(q) PROVE FreshInv'
<1>1. PICK f \in {Fetched("answered", rev, total), Failed} :
         fetches' = [fetches EXCEPT ![q] = f] /\ UNCHANGED <<ui, cache, confirmed, Exempt>>
  BY DEF Serve, historyVars, unrenewed, Exempt
<1>2. KeysOf(ui)' = KeysOf(ui)
  BY <1>1, KeysOfScreen
<1>3. FetchIsFresh(q, f, Exempt, confirmed)
  <2>1. CASE f = Failed
    BY <2>1, SentAt DEF FetchIsFresh
  <2>2. CASE f = Fetched("answered", rev, total)
    <3>1. f.at = "answered" /\ f.rev = rev
      BY <2>2, FetchedAt, FetchedRev
    <3>2. Meets(rev, q, confirmed)
      BY DEF Meets, RevisionsInv
    <3> QED BY <3>1, <3>2 DEF FetchIsFresh
  <2> QED BY <2>1, <2>2
<1>4. DOMAIN fetches' = DOMAIN fetches /\ \A k \in DOMAIN fetches' : fetches'[k] = IF k = q THEN f ELSE fetches[k]
  BY <1>1
<1>5. \A k \in DOMAIN fetches' : FetchIsFresh(k, fetches'[k], Exempt, confirmed)
  BY <1>3, <1>4 DEF FreshInv, AllFresh
<1>6. \A k \in DOMAIN cache : IsEntry(cache[k]) /\ EntryIsFresh(k, cache[k], KeysOf(ui), fetches', Exempt, confirmed)
  BY <1>4 DEF FreshInv, AllFresh, EntryIsFresh
<1> QED BY <1>1, <1>2, <1>5, <1>6 DEF FreshInv, AllFresh

\* An answer that arrives is put into the cache as it was read.
LEMMA GetFresh == ASSUME FreshInv, NEW q \in DOMAIN fetches, Get(q) PROVE FreshInv'
<1>1. fetches' = Drop(fetches, {q}) /\ fetches[q].at # "sent" /\ UNCHANGED <<ui, confirmed, Exempt>>
  BY DEF Get, historyVars, unrenewed, Exempt
<1>2. KeysOf(ui)' = KeysOf(ui)
  BY <1>1, KeysOfScreen
<1>3. DOMAIN fetches' = DOMAIN fetches \ {q} /\ \A k \in DOMAIN fetches' : fetches'[k] = fetches[k]
  BY <1>1 DEF Drop, Restrict
<1>4. \A k \in DOMAIN fetches' : FetchIsFresh(k, fetches'[k], Exempt, confirmed)
  BY <1>3 DEF FreshInv, AllFresh
<1>5. \A k \in DOMAIN cache \ {q} : IsEntry(cache[k]) /\ EntryIsFresh(k, cache[k], KeysOf(ui), fetches', Exempt, confirmed)
  BY <1>3 DEF FreshInv, AllFresh, EntryIsFresh
<1>6. /\ \A k \in DOMAIN cache' \ {q} : k \in DOMAIN cache /\ cache'[k] = cache[k]
      /\ q \in DOMAIN cache' => IsEntry(cache'[q]) /\ EntryIsFresh(q, cache'[q], KeysOf(ui), fetches', Exempt, confirmed)
  <2>1. CASE fetches[q].at # "failed"
    <3>1. PICK r, n : r = fetches[q].rev /\ n = fetches[q].total
      OBVIOUS
    <3>2. cache' = Put(cache, {q}, [rev |-> r, total |-> n, stale |-> FALSE, failed |-> FALSE])
      BY <2>1, <3>1 DEF Get
    <3>3. PICK e : e = Entry(r, n, FALSE, FALSE) /\ cache' = Put(cache, {q}, e)
      BY <3>2 DEF Entry
    <3>4. /\ \A k \in DOMAIN cache' \ {q} : k \in DOMAIN cache /\ cache'[k] = cache[k]
          /\ cache'[q] = e
      BY <3>3 DEF Put
    <3>5. IsEntry(e) /\ e.rev = r
      BY <3>3, EntryRev DEF IsEntry
    <3>6. fetches[q].at = "answered" /\ FetchIsFresh(q, fetches[q], Exempt, confirmed)
      BY <1>1, <2>1 DEF FreshInv, AllFresh, FetchIsFresh
    <3>7. q \notin Exempt => Meets(r, q, confirmed)
      BY <3>1, <3>6 DEF FetchIsFresh
    <3> QED BY <3>4, <3>5, <3>7 DEF EntryIsFresh
  <2>2. CASE fetches[q].at = "failed" /\ q \in DOMAIN cache
    <3>1. PICK e : e = [cache[q] EXCEPT !.stale = TRUE, !.failed = TRUE] /\ cache' = [cache EXCEPT ![q] = e]
      BY <2>2 DEF Get, Loaded
    <3>2. IsEntry(e) /\ e.stale = TRUE /\ e.failed = TRUE
      BY <2>2, <3>1, Broken DEF FreshInv, AllFresh
    <3>3. cache'[q] = e /\ \A k \in DOMAIN cache' \ {q} : k \in DOMAIN cache /\ cache'[k] = cache[k]
      BY <2>2, <3>1
    <3> QED BY <3>2, <3>3 DEF EntryIsFresh
  <2>3. CASE fetches[q].at = "failed" /\ q \notin DOMAIN cache
    BY <2>3 DEF Get, Loaded
  <2> QED BY <2>1, <2>2, <2>3
<1> QED BY <1>1, <1>2, <1>4, <1>5, <1>6 DEF FreshInv, AllFresh

\* Every query that owes the news an answer brings is invalidated, or is of a row not open.
LEMMA NewsInvalidates ==
    ASSUME NEW c, Sensible(c.kind, c.id, c.view), c.view \in Views, Parses(c), NEW change \in Told(c),
           NEW k \in DOMAIN cache \union DOMAIN fetches, Owed(k, change)
    PROVE  k \in Invalidated(c) \union MissedBy(c)
<1>1. PICK id \in {Nil, c.id} : change = <<c.view, id>>
  BY DEF Told
<1>2. c.kind \in Kinds(c.view) /\ c.kind # "delete"
  BY DEF Sensible, Parses
<1>3. PICK v \in Views :
       \/ change = <<v, Nil>> /\ Pages[v].goes = Nil /\ k[1] = Pages[v].list
       \/ \E row \in RowIds : change = <<v, row>> /\ k = <<Pages[v].detail, row, Nil>>
  BY DEF Owed
<1>4. v = c.view
  BY <1>1, <1>3
<1>5. CASE change = <<v, Nil>> /\ Pages[v].goes = Nil /\ k[1] = Pages[v].list
  <2>1. "list" \in Pages[c.view].refreshes[c.kind]
    BY <1>2, <1>4, <1>5, ListIsRefreshed
  <2> QED BY <1>4, <1>5, <2>1 DEF Invalidated
<1>6. CASE \E row \in RowIds : change = <<v, row>> /\ k = <<Pages[v].detail, row, Nil>>
  <2>1. PICK row \in RowIds : change = <<v, row>> /\ k = <<Pages[v].detail, row, Nil>>
    BY <1>6
  <2>2. row = id /\ row # Nil
    BY <1>1, <2>1, AreasAssumption
  <2>3. id = c.id /\ k = <<Pages[c.view].detail, id, Nil>>
    BY <1>4, <2>1, <2>2
  <2>4. c.view = "ab-tests"
    BY <1>2, <2>2, <2>3 DEF Sensible
  <2>5. "detail" \in Pages[c.view].refreshes[c.kind]
    BY <1>2, <2>4, DetailIsRefreshed
  <2>6. CASE id = OpenRow(c)
    BY <2>3, <2>5, <2>6 DEF Invalidated
  <2>7. CASE id # OpenRow(c)
    BY <2>2, <2>3, <2>7 DEF MissedBy
  <2> QED BY <2>6, <2>7
<1> QED BY <1>3, <1>5, <1>6

LEMMA HearFresh == ASSUME FreshInv, RevisionsInv, NEW c \in calls, Hear(c) PROVE FreshInv'
<1>1. CASE ~Parses(c)
  BY <1>1, SameFresh DEF Hear
<1>2. CASE Parses(c)
  <2>1. PICK keys, known, again :
          /\ keys = Invalidated(c)
          /\ known = [k \in DOMAIN cache |-> IF k \in keys THEN [cache[k] EXCEPT !.stale = TRUE] ELSE cache[k]]
          /\ again = {k \in keys \intersect KeysOf(ui) : Loaded(k) \/ k \notin DOMAIN fetches}
          /\ cache' = known
          /\ confirmed' = Put(confirmed, Told(c), c.rev)
          /\ IF Pages[c.view].goes # Nil THEN Shows(Screen(Pages[c.view].goes, Nil), known)
             ELSE /\ fetches' = Put(fetches, again, Sent)
                  /\ overtaken' = (overtaken \union (keys \intersect DOMAIN fetches)) \ again
                  /\ missed' = (missed \union MissedBy(c)) \ again
                  /\ ui' = ui
    BY <1>2 DEF Hear, Told
  <2>2. Sensible(c.kind, c.id, c.view) /\ c.view \in Views
    BY CallParts, AreaIs DEF RevisionsInv, ScreenIsKnown, Sensible
  <2>3. ASSUME NEW k \in (DOMAIN cache \union DOMAIN fetches) \ (keys \union MissedBy(c)), NEW n,
               Meets(n, k, confirmed)
        PROVE  Meets(n, k, confirmed')
    <3>1. \A change \in Told(c) : ~Owed(k, change)
      BY <1>2, <2>1, <2>2, <2>3, NewsInvalidates
    <3>2. PICK r : confirmed' = Put(confirmed, Told(c), r)
      BY <2>1
    <3>3. \A change \in DOMAIN confirmed' \ Told(c) : change \in DOMAIN confirmed /\ confirmed'[change] = confirmed[change]
      BY <3>2 DEF Put
    <3> QED BY <2>3, <3>1, <3>3 DEF Meets
  <2>4. DOMAIN known = DOMAIN cache /\ \A k \in DOMAIN cache \ keys : known[k] = cache[k]
    BY <2>1
  <2>5. \A k \in DOMAIN cache \intersect keys : IsEntry(known[k]) /\ known[k].stale = TRUE
    <3> SUFFICES ASSUME NEW k \in DOMAIN cache \intersect keys PROVE IsEntry(known[k]) /\ known[k].stale = TRUE
      OBVIOUS
    <3>1. IsEntry(cache[k])
      BY DEF FreshInv, AllFresh
    <3>2. known[k] = [cache[k] EXCEPT !.stale = TRUE]
      BY <2>1
    <3> QED BY <3>1, <3>2, Staled
  <2>6. CASE Pages[c.view].goes # Nil
    <3>1. keys \union MissedBy(c) = {}
      <4>1. c.view \in Forms
        BY <2>2, <2>6, Goals DEF Forms
      <4>2. c.kind = "create" /\ Pages[c.view].refreshes = [create |-> {}]
        BY <2>2, <4>1, Mutations, FormsFields DEF Sensible
      <4>3. Pages[c.view].refreshes[c.kind] = {}
        BY <4>2
      <4>4. c.id = Nil
        BY <2>2, <4>1, <4>2 DEF Sensible, Forms
      <4> QED BY <2>1, <4>3, <4>4 DEF Invalidated, MissedBy
    <3>2. AllFresh(known, fetches, Exempt, KeysOf(ui), confirmed')
      <4>1. ASSUME NEW k \in DOMAIN known
            PROVE  IsEntry(known[k]) /\ EntryIsFresh(k, known[k], KeysOf(ui), fetches, Exempt, confirmed')
        BY <2>3, <2>4, <3>1, <4>1 DEF FreshInv, AllFresh, EntryIsFresh
      <4>2. ASSUME NEW k \in DOMAIN fetches PROVE FetchIsFresh(k, fetches[k], Exempt, confirmed')
        BY <2>3, <3>1, <4>2 DEF FreshInv, AllFresh, FetchIsFresh
      <4> QED BY <4>1, <4>2 DEF AllFresh
    <3>3. PICK u : u = Screen(Pages[c.view].goes, Nil) /\ Shows(u, known)
      BY <2>1, <2>6
    <3>4. KeysOf(ui)' = KeysOf(u)
      BY <3>3, KeysOfScreen DEF Shows
    <3>5. AllFresh(known, fetches', Exempt', KeysOf(u), confirmed')
      BY <3>2, <3>3, ShowsFresh
    <3> QED BY <2>1, <3>4, <3>5 DEF FreshInv
  <2>7. CASE Pages[c.view].goes = Nil
    <3>1. /\ fetches' = Put(fetches, again, Sent) /\ ui' = ui
          /\ Exempt' = (Exempt \union MissedBy(c) \union (keys \intersect DOMAIN fetches)) \ again
      BY <2>1, <2>7 DEF Exempt
    <3>2. /\ DOMAIN fetches' = DOMAIN fetches \union again /\ \A k \in again : fetches'[k] = Sent
          /\ \A k \in DOMAIN fetches \ again : fetches'[k] = fetches[k]
      BY <3>1 DEF Put
    <3>3. KeysOf(ui)' = KeysOf(ui)
      BY <3>1, KeysOfScreen
    <3>4. ASSUME NEW k \in DOMAIN known
          PROVE  IsEntry(known[k]) /\ EntryIsFresh(k, known[k], KeysOf(ui), fetches', Exempt', confirmed')
      <4>1. CASE k \in keys
        <5>1. IsEntry(known[k]) /\ known[k].stale = TRUE
          BY <2>4, <2>5, <3>4, <4>1
        <5>2. k \in KeysOf(ui) => k \in DOMAIN fetches'
          BY <2>1, <2>4, <3>2, <3>4, <4>1 DEF Loaded
        <5> QED BY <5>1, <5>2 DEF EntryIsFresh
      <4>2. CASE k \notin keys
        <5>1. known[k] = cache[k] /\ k \in DOMAIN cache
          BY <2>4, <3>4, <4>2
        <5>2. IsEntry(cache[k]) /\ EntryIsFresh(k, cache[k], KeysOf(ui), fetches, Exempt, confirmed)
          BY <5>1 DEF FreshInv, AllFresh
        <5>3. k \notin DOMAIN fetches' => k \notin DOMAIN fetches
          BY <3>2
        <5>4. k \notin Exempt' => (k \notin Exempt /\ k \notin MissedBy(c)) \/ k \in DOMAIN fetches'
          BY <2>1, <3>1, <3>2, <4>2
        <5> QED BY <2>3, <4>2, <5>1, <5>2, <5>3, <5>4 DEF EntryIsFresh
      <4> QED BY <4>1, <4>2
    <3>5. ASSUME NEW k \in DOMAIN fetches' PROVE FetchIsFresh(k, fetches'[k], Exempt', confirmed')
      <4>1. CASE k \in again
        BY <3>2, <4>1, SentAt DEF FetchIsFresh
      <4>2. CASE k \notin again
        <5>1. k \in DOMAIN fetches /\ fetches'[k] = fetches[k]
          BY <3>2, <3>5, <4>2
        <5>2. FetchIsFresh(k, fetches[k], Exempt, confirmed)
          BY <5>1 DEF FreshInv, AllFresh
        <5>3. k \notin Exempt' => k \notin Exempt /\ k \notin keys /\ k \notin MissedBy(c)
          BY <3>1, <4>2, <5>1
        <5> QED BY <2>3, <5>1, <5>2, <5>3 DEF FetchIsFresh
      <4> QED BY <4>1, <4>2
    <3> QED BY <2>1, <3>3, <3>4, <3>5 DEF FreshInv, AllFresh
  <2> QED BY <2>6, <2>7
<1> QED BY <1>1, <1>2

\* FreshInv is an invariant.
THEOREM FreshInvIsInvariant == DashboardSpec => []FreshInv
<1>1. DashboardInit => FreshInv
  <2> SUFFICES ASSUME DashboardInit PROVE FreshInv
    OBVIOUS
  <2>1. cache = << >> /\ fetches = Put(<< >>, KeysOf(ui), Sent)
    BY DEF DashboardInit
  <2>2. DOMAIN cache = {}
    BY <2>1
  <2>3. \A k \in DOMAIN fetches : fetches[k] = Sent
    BY <2>1 DEF Put
  <2>4. \A k \in DOMAIN fetches : FetchIsFresh(k, fetches[k], Exempt, confirmed)
    BY <2>3, SentAt DEF FetchIsFresh
  <2> QED BY <2>2, <2>4 DEF FreshInv, AllFresh
<1>2. RevisionsInv /\ FreshInv /\ [DashboardNext]_dashboardVars => FreshInv'
  <2> SUFFICES ASSUME RevisionsInv, FreshInv, [DashboardNext]_dashboardVars PROVE FreshInv'
    OBVIOUS
  <2>1. CASE UNCHANGED dashboardVars
    BY <2>1, SameFresh DEF dashboardVars, historyVars
  <2>2. CASE DashboardNext
    <3>1. CASE Click \/ Open \/ Reload
      BY <3>1, ClickFresh, OpenFresh, ReloadFresh
    <3>2. CASE Retry \/ Age
      BY <3>2, RetryFresh, AgeFresh
    <3>3. CASE Save \/ Logout \/ Press \/ SessionEnds \/ Other
      BY <3>3, SameFresh DEF Save, Logout, Press, SessionEnds, Other, historyVars
    <3>4. ASSUME NEW c \in orphans, CarryLate(c) PROVE FreshInv'
      BY <3>4, SameFresh DEF CarryLate, historyVars
    <3>5. ASSUME NEW c \in calls, Carry(c) \/ GiveUp(c) PROVE FreshInv'
      BY <3>5, SameFresh DEF Carry, GiveUp, historyVars
    <3>6. ASSUME NEW c \in calls, Hear(c) PROVE FreshInv'
      BY <3>6, HearFresh
    <3>7. ASSUME NEW k \in DOMAIN fetches, Serve(k) \/ Get(k) \/ TimeOut(k) PROVE FreshInv'
      BY <3>7, ServeFresh, GetFresh, TimeOutFresh
    <3> QED BY <2>2, <3>1, <3>2, <3>3, <3>4, <3>5, <3>6, <3>7 DEF DashboardNext
  <2> QED BY <2>1, <2>2
<1> QED BY <1>1, <1>2, RevisionsInvIsInvariant, PTL DEF DashboardSpec

\* For any number of pages, rows, clicks and mutations: a page that was told of its change,
\* and has no query under way, shows it, except a row that was not open at the answer.
THEOREM ConfirmedChangesAreShown == DashboardSpec => []ConfirmedIsShown
<1>1. RevisionsInv /\ FreshInv => ConfirmedIsShown
  <2> SUFFICES ASSUME RevisionsInv, FreshInv, NEW k \in KeysOf(ui) \ Exempt,
                      Loaded(k), k \notin DOMAIN fetches, ~cache[k].failed, NEW change \in DOMAIN confirmed,
                      OnScreen(k, change)
               PROVE  cache[k].rev >= confirmed[change]
    BY DEF ConfirmedIsShown, ShowsChanges, Exempt
  <2>1. ui.view \in Views /\ ui.selected \in RowIds \union {Nil}
    BY ScreenParts DEF RevisionsInv
  <2>2. Meets(cache[k].rev, k, confirmed)
    BY DEF FreshInv, AllFresh, EntryIsFresh, Loaded
  <2>3. Owed(k, change)
    <3>1. CASE change = <<ui.view, Nil>> /\ P.goes = Nil /\ k \in ListKeys(ui)
      <4>1. k[1] = Pages[ui.view].list
        BY <3>1 DEF ListKeys
      <4> QED BY <2>1, <3>1, <4>1 DEF Owed, P
    <3>2. CASE change = <<ui.view, ui.selected>> /\ k \in DetailKeys(ui)
      <4>1. ui.selected \in RowIds /\ k = <<Pages[ui.view].detail, ui.selected, Nil>>
        BY <2>1, <3>2 DEF DetailKeys
      <4> QED BY <2>1, <3>2, <4>1 DEF Owed
    <3> QED BY <3>1, <3>2 DEF OnScreen
  <2> QED BY <2>2, <2>3 DEF Meets
<1> QED BY <1>1, RevisionsInvIsInvariant, FreshInvIsInvariant, PTL

-----------------------------------------------------------------------------
\* Of n rows some are on the page that the key is of, or it is the first page.
Within(n, k) == k[2] = 1 \/ (k[2] \in Nat /\ n > (k[2] - 1) * Limit)
Seen(n, k, m) == n \in Nat /\ n <= m /\ Within(n, k)

\* Nobody deletes a log: the pages one can come to keep their rows.
LogsInv ==
    area = "logs" =>
       /\ calls = {} /\ orphans = {}
       /\ \A k \in DOMAIN cache : IsEntry(cache[k]) /\ Seen(cache[k].total, k, total)
       /\ \A k \in DOMAIN fetches : Within(total, k) /\ (fetches[k].at # "failed" /\ fetches[k].at # "sent" => Seen(fetches[k].total, k, total))
       /\ \A k \in KeysOf(ui) : Within(total, k)

LEMMA PagesOf ==
    ASSUME NEW n \in Nat, NEW l \in Nat \ {0}, NEW p \in Nat, p < (n + l - 1) \div l
    PROVE  n > p * l
<1>1. PICK q : q = (n + l - 1) \div l
  OBVIOUS
<1>2. q \in Int /\ q * l <= n + l - 1 /\ p + 1 <= q
  BY <1>1
<1>3. (p + 1) * l <= q * l
  BY <1>2
<1>4. (p + 1) * l = p * l + l /\ p * l \in Nat /\ q * l \in Int
  BY <1>2
<1> QED BY <1>2, <1>3, <1>4

LEMMA WithinGrows ==
    ASSUME NEW n \in Nat, NEW m \in Nat, n <= m, NEW k, Within(n, k)
    PROVE  Within(m, k)
<1>1. CASE k[2] \in Nat
  <2>1. PICK x : x = (k[2] - 1) * Limit
    OBVIOUS
  <2>2. x \in Int
    BY <1>1, <2>1, DashboardAssumption
  <2> QED BY <1>1, <2>1, <2>2 DEF Within
<1> QED BY <1>1 DEF Within

\* In the area of the logs there is one view.
LEMMA LogsView ==
    ASSUME ScreenIsKnown, area = "logs"
    PROVE  /\ ui.view = "logs" /\ ui.selected = Nil /\ ui.page \in Nat \ {0}
           /\ KeysOf(ui) = {<<"logs", ui.page, ui.arg>>}
           /\ ListKeys(ui) = {<<"logs", ui.page, ui.arg>>} /\ ListKey = <<"logs", ui.page, ui.arg>>
           /\ Controls = Pager
<1>1. ui.view = "logs" /\ ui.selected = Nil /\ ui.page \in Nat \ {0}
  BY ScreenParts, AreaLinks DEF Openers
<1>2. Pages["logs"].list = "logs" /\ "logs" # Nil
  BY LogsFields, AreasAssumption, ViewsArePages DEF Views
<1>3. ListKeys(ui) = {<<"logs", ui.page, ui.arg>>} /\ DetailKeys(ui) = {}
  BY <1>1, <1>2 DEF ListKeys, DetailKeys
<1>4. ListKey = <<"logs", ui.page, ui.arg>>
  BY <1>3 DEF ListKey
<1> QED BY <1>1, <1>3, <1>4, ControlsAre DEF KeysOf

LEMMA LogsKeys ==
    ASSUME NEW p, NEW a, NEW f
    PROVE  KeysOf(Full("logs", p, a, f, Nil)) = {<<"logs", p, a>>}
<1>1. Pages["logs"].list = "logs" /\ "logs" # Nil
  BY LogsFields, AreasAssumption, ViewsArePages DEF Views
<1>2. ListKeys(Full("logs", p, a, f, Nil)) = {<<"logs", p, a>>} /\ DetailKeys(Full("logs", p, a, f, Nil)) = {}
  BY <1>1, FullFields DEF ListKeys, DetailKeys
<1> QED BY <1>2 DEF KeysOf

\* The pager goes to pages that have rows.
LEMMA ClickLogs == ASSUME LogsInv, RevisionsInv, Click PROVE LogsInv'
<1> SUFFICES ASSUME area' = "logs" PROVE LogsInv'
  BY DEF LogsInv
<1>0. area = "logs" /\ ScreenIsKnown /\ total \in Nat
  BY DEF Click, RevisionsInv
<1>1. PICK control \in Controls : \E u \in After(ui, control) : Shows(u, cache)
  BY DEF Click
<1>2. PICK u \in After(ui, control) : Shows(u, cache)
  BY <1>1
<1>3. PICK p, a, f : p = ui.page /\ a = ui.arg /\ f = ui.filtered
  OBVIOUS
<1>4. /\ ui = Full("logs", p, a, f, Nil) /\ p \in Nat \ {0} /\ Controls = Pager
      /\ ListKeys(ui) = {<<"logs", p, a>>} /\ ListKey = <<"logs", p, a>> /\ KeysOf(ui) = {<<"logs", p, a>>}
  BY <1>0, <1>3, LogsView, ScreenParts
<1>5. control \in {"previous", "next"}
  BY <1>4, PagerIs
<1>6. \E q \in Nat \ {0} : u = Full("logs", q, a, f, Nil) /\ Within(total, <<"logs", q, a>>)
  <2>1. CASE control = "previous"
    <3>1. u = Full("logs", p - 1, a, f, Nil)
      BY <1>4, <2>1, AfterIs
    <3>2. p > 1 /\ p - 1 \in Nat \ {0}
      BY <1>3, <1>4, <2>1, PagerIs
    <3>3. Within(total, <<"logs", p, a>>)
      BY <1>0, <1>4 DEF LogsInv
    <3>4. total > (p - 1) * Limit
      BY <3>2, <3>3 DEF Within
    <3>5. (p - 1) * Limit >= (p - 1 - 1) * Limit /\ (p - 1) * Limit \in Int /\ (p - 1 - 1) * Limit \in Int
      BY <3>2, DashboardAssumption
    <3>6. Within(total, <<"logs", p - 1, a>>)
      BY <1>0, <3>2, <3>4, <3>5 DEF Within
    <3> QED BY <3>1, <3>2, <3>6
  <2>2. CASE control = "next"
    <3>1. u = Full("logs", p + 1, a, f, Nil)
      BY <1>4, <2>2, AfterIs
    <3>2. p < PageCount
      BY <1>3, <1>4, <2>2, PagerIs
    <3>3. Answered
      BY <1>4, <3>2 DEF PageCount
    <3>4. PICK n : n = cache[ListKey].total
      OBVIOUS
    <3>5. n \in Nat /\ n <= total /\ PageCount = (n + Limit - 1) \div Limit
      BY <1>0, <3>3, <3>4 DEF LogsInv, Seen, Answered, Loaded, PageCount
    <3>6. n > p * Limit
      BY <1>4, <3>2, <3>5, PagesOf, DashboardAssumption
    <3>7. p * Limit \in Nat /\ p \in Nat
      BY <1>4, DashboardAssumption
    <3>8. total > p * Limit
      BY <1>0, <3>5, <3>6, <3>7
    <3>9. PICK q : q = p + 1
      OBVIOUS
    <3>10. q \in Nat \ {0} /\ q - 1 = p
      BY <3>7, <3>9
    <3>11. Within(total, <<"logs", q, a>>)
      BY <3>8, <3>10 DEF Within
    <3> QED BY <3>1, <3>9, <3>10, <3>11
  <2> QED BY <1>5, <2>1, <2>2
<1>7. KeysOf(u) = {k \in KeysOf(u) : Within(total, k)}
  BY <1>6, LogsKeys
<1>8. PICK wanted \in SUBSET KeysOf(u) : fetches' = Put(fetches, wanted, Sent)
  BY <1>2 DEF Shows
<1>9. \A k \in DOMAIN fetches' : (k \in wanted /\ fetches'[k] = Sent) \/ (k \in DOMAIN fetches /\ fetches'[k] = fetches[k])
  BY <1>8 DEF Put
<1>10. ui' = u /\ UNCHANGED <<calls, orphans, cache, total>>
  BY <1>2 DEF Shows, Click, serverVars
<1>11. KeysOf(ui)' = KeysOf(u)
  BY <1>10, KeysOfScreen
<1> QED BY <1>0, <1>7, <1>9, <1>10, <1>11, SentAt DEF LogsInv, Seen

\* What changes no row and no screen, and asks for what is on screen.
LEMMA QuietLogs ==
    ASSUME LogsInv, RevisionsInv, area' = area, ui' = ui, total' \in Nat, area = "logs" => total' >= total,
           area = "logs" => calls' = {} /\ orphans' = {},
           \A k \in DOMAIN cache' : k \in DOMAIN cache /\ (IsEntry(cache[k]) => IsEntry(cache'[k]) /\ cache'[k].total = cache[k].total),
           \A k \in DOMAIN fetches' : \/ k \in DOMAIN fetches /\ fetches'[k] = fetches[k]
                                     \/ (k \in DOMAIN fetches \union KeysOf(ui) /\ fetches'[k].at \in {"sent", "failed"})
    PROVE  LogsInv'
<1> SUFFICES ASSUME area = "logs" PROVE LogsInv'
  BY DEF LogsInv
<1>1. \A k : Within(total, k) => Within(total', k)
  BY WithinGrows DEF RevisionsInv
<1>2. \A n, k : Seen(n, k, total) => Seen(n, k, total')
  BY DEF Seen, RevisionsInv
<1>3. KeysOf(ui)' = KeysOf(ui)
  BY KeysOfScreen
<1>4. \A k \in DOMAIN cache' : IsEntry(cache'[k]) /\ Seen(cache'[k].total, k, total')
  BY <1>2 DEF LogsInv
<1>5. \A k \in DOMAIN fetches' : Within(total', k)
  BY <1>1 DEF LogsInv
<1>6. \A k \in DOMAIN fetches' : fetches'[k].at # "failed" /\ fetches'[k].at # "sent" => Seen(fetches'[k].total, k, total')
  BY <1>2 DEF LogsInv
<1>7. \A k \in KeysOf(ui) : Within(total', k)
  BY <1>1 DEF LogsInv
<1> QED BY <1>3, <1>4, <1>5, <1>6, <1>7 DEF LogsInv, Within

LEMMA ReloadLogs == ASSUME LogsInv, RevisionsInv, Reload PROVE LogsInv'
<1> SUFFICES ASSUME area' = "logs" PROVE LogsInv'
  BY DEF LogsInv
<1>1. /\ area = "logs" /\ ui' = InUrl(ui) /\ cache' = << >> /\ calls' = {}
      /\ fetches' = Put(<< >>, KeysOf(ui'), Sent) /\ orphans' = orphans \union {c \in calls : c.at = "sent"}
  BY DEF Reload
<1>2. calls = {} /\ orphans = {} /\ ui.view = "logs"
  BY <1>1, LogsView DEF LogsInv, RevisionsInv
<1>3. ui' = Full("logs", 1, Nil, FALSE, Nil)
  BY <1>1, <1>2 DEF InUrl, Screen, Full
<1>4. PICK u : u = Full("logs", 1, Nil, FALSE, Nil) /\ ui' = u
  BY <1>3
<1>5. KeysOf(u) = {<<"logs", 1, Nil>>} /\ KeysOf(ui)' = KeysOf(u)
  BY <1>4, LogsKeys, KeysOfScreen
<1>6. fetches' = Put(<< >>, KeysOf(u), Sent)
  BY <1>1, <1>4
<1>7. \A k \in DOMAIN fetches' : k \in KeysOf(u) /\ fetches'[k] = Sent
  BY <1>6 DEF Put
<1>8. \A k \in KeysOf(u) : k[2] = 1
  BY <1>5
<1>9. DOMAIN cache' = {}
  BY <1>1
<1> QED BY <1>1, <1>2, <1>5, <1>7, <1>8, <1>9, SentAt DEF LogsInv, Within

LEMMA StaledLogs ==
    ASSUME NEW S, cache' = [k \in DOMAIN cache |-> IF k \in S THEN [cache[k] EXCEPT !.stale = TRUE] ELSE cache[k]]
    PROVE  \A k \in DOMAIN cache' : k \in DOMAIN cache /\ (IsEntry(cache[k]) => IsEntry(cache'[k]) /\ cache'[k].total = cache[k].total)
<1> SUFFICES ASSUME NEW k \in DOMAIN cache', IsEntry(cache[k]) PROVE k \in DOMAIN cache /\ IsEntry(cache'[k]) /\ cache'[k].total = cache[k].total
  OBVIOUS
<1>1. k \in DOMAIN cache /\ (cache'[k] = cache[k] \/ cache'[k] = [cache[k] EXCEPT !.stale = TRUE])
  OBVIOUS
<1> QED BY <1>1, Staled

LEMMA AgeLogs == ASSUME LogsInv, RevisionsInv, Retry \/ Age PROVE LogsInv'
<1>1. PICK S : cache' = [k \in DOMAIN cache |-> IF k \in S THEN [cache[k] EXCEPT !.stale = TRUE] ELSE cache[k]]
  <2>1. CASE Retry
    <3>1. PICK S : S = {k \in DOMAIN cache : k[1] = "metrics"}
      OBVIOUS
    <3>2. cache' = [k \in DOMAIN cache |-> IF k \in S THEN [cache[k] EXCEPT !.stale = TRUE] ELSE cache[k]]
      BY <2>1, <3>1 DEF Retry
    <3> QED BY <3>2
  <2>2. CASE Age
    <3>1. PICK S : S = DOMAIN cache
      OBVIOUS
    <3>2. cache' = [k \in DOMAIN cache |-> IF k \in S THEN [cache[k] EXCEPT !.stale = TRUE] ELSE cache[k]]
      BY <2>2, <3>1 DEF Age
    <3> QED BY <3>2
  <2> QED BY <2>1, <2>2
<1>2. UNCHANGED <<area, ui, total, calls, orphans>> /\ total \in Nat
  BY DEF Retry, Age, serverVars, RevisionsInv
<1>3. \A k \in DOMAIN fetches' : \/ k \in DOMAIN fetches /\ fetches'[k] = fetches[k]
                                \/ (k \in DOMAIN fetches \union KeysOf(ui) /\ fetches'[k].at \in {"sent", "failed"})
  <2>1. CASE Retry
    <3>1. fetches' = Put(fetches, ListKeys(ui), Sent)
      BY <2>1 DEF Retry
    <3>2. ListKeys(ui) \subseteq KeysOf(ui)
      BY DEF KeysOf
    <3>3. \A k \in DOMAIN fetches' : (k \in DOMAIN fetches /\ fetches'[k] = fetches[k]) \/ (k \in ListKeys(ui) /\ fetches'[k] = Sent)
      BY <3>1 DEF Put
    <3> QED BY <3>2, <3>3, SentAt
  <2>2. CASE Age
    BY <2>2 DEF Age
  <2> QED BY <2>1, <2>2
<1>4. \A k \in DOMAIN cache' : k \in DOMAIN cache /\ (IsEntry(cache[k]) => IsEntry(cache'[k]) /\ cache'[k].total = cache[k].total)
  BY <1>1, StaledLogs
<1> QED BY <1>2, <1>3, <1>4, QuietLogs DEF LogsInv

LEMMA SameLogs ==
    ASSUME LogsInv, RevisionsInv, UNCHANGED <<area, pageVars>>, total' \in Nat, area = "logs" => total' >= total,
           area = "logs" => calls' = {} /\ orphans' = {}
    PROVE  LogsInv'
<1>1. UNCHANGED <<area, ui, cache, fetches>>
  BY DEF pageVars
<1> QED BY <1>1, QuietLogs

LEMMA QueryLogs == ASSUME LogsInv, RevisionsInv, NEW q \in DOMAIN fetches, Serve(q) \/ TimeOut(q) PROVE LogsInv'
<1> SUFFICES ASSUME area' = "logs" PROVE LogsInv'
  BY DEF LogsInv
<1>1. UNCHANGED <<ui, area, cache, total, calls, orphans>> /\ area = "logs" /\ total \in Nat
  BY DEF Serve, TimeOut, serverVars, RevisionsInv
<1>2. PICK f \in {Fetched("answered", rev, total), Failed} : fetches' = [fetches EXCEPT ![q] = f]
  BY DEF Serve, TimeOut
<1>3. Within(total, q)
  BY <1>1 DEF LogsInv
<1>4. f.at # "failed" => Seen(f.total, q, total)
  <2>1. CASE f = Failed
    BY <2>1, SentAt
  <2>2. CASE f = Fetched("answered", rev, total)
    <3>1. f.total = total
      BY <2>2, FetchedTotal
    <3> QED BY <1>1, <1>3, <3>1 DEF Seen
  <2> QED BY <2>1, <2>2
<1>5. DOMAIN fetches' = DOMAIN fetches /\ \A k \in DOMAIN fetches' : fetches'[k] = IF k = q THEN f ELSE fetches[k]
  BY <1>2
<1>6. KeysOf(ui)' = KeysOf(ui)
  BY <1>1, KeysOfScreen
<1> QED BY <1>1, <1>3, <1>4, <1>5, <1>6 DEF LogsInv

LEMMA GetLogs == ASSUME LogsInv, RevisionsInv, NEW q \in DOMAIN fetches, Get(q) PROVE LogsInv'
<1> SUFFICES ASSUME area' = "logs" PROVE LogsInv'
  BY DEF LogsInv
<1>1. UNCHANGED <<ui, area, total, calls, orphans>> /\ area = "logs" /\ fetches' = Drop(fetches, {q}) /\ fetches[q].at # "sent"
  BY DEF Get, serverVars
<1>2. KeysOf(ui)' = KeysOf(ui)
  BY <1>1, KeysOfScreen
<1>3. DOMAIN fetches' = DOMAIN fetches \ {q} /\ \A k \in DOMAIN fetches' : fetches'[k] = fetches[k]
  BY <1>1 DEF Drop, Restrict
<1>4. /\ \A k \in DOMAIN cache' \ {q} : k \in DOMAIN cache /\ cache'[k] = cache[k]
      /\ q \in DOMAIN cache' => IsEntry(cache'[q]) /\ Seen(cache'[q].total, q, total)
  <2>1. CASE fetches[q].at # "failed"
    <3>1. PICK r, n : r = fetches[q].rev /\ n = fetches[q].total
      OBVIOUS
    <3>2. cache' = Put(cache, {q}, [rev |-> r, total |-> n, stale |-> FALSE, failed |-> FALSE])
      BY <2>1, <3>1 DEF Get
    <3>0. PICK b : b = FALSE
      OBVIOUS
    <3>3. PICK e : e = Entry(r, n, b, b) /\ cache' = Put(cache, {q}, e)
      BY <3>0, <3>2 DEF Entry
    <3>4. /\ \A k \in DOMAIN cache' \ {q} : k \in DOMAIN cache /\ cache'[k] = cache[k]
          /\ cache'[q] = e
      BY <3>3 DEF Put
    <3>5. IsEntry(e)
      BY <3>3 DEF IsEntry
    <3>6. e.total = n
      BY <3>3, EntryTotal
    <3> QED BY <1>1, <2>1, <3>1, <3>4, <3>5, <3>6 DEF LogsInv
  <2>2. CASE fetches[q].at = "failed" /\ q \in DOMAIN cache
    <3>1. PICK e : e = [cache[q] EXCEPT !.stale = TRUE, !.failed = TRUE] /\ cache' = [cache EXCEPT ![q] = e]
      BY <2>2 DEF Get, Loaded
    <3>2. IsEntry(e) /\ e.total = cache[q].total
      BY <1>1, <2>2, <3>1, Broken DEF LogsInv
    <3>3. cache'[q] = e /\ \A k \in DOMAIN cache' \ {q} : k \in DOMAIN cache /\ cache'[k] = cache[k]
      BY <2>2, <3>1
    <3> QED BY <1>1, <2>2, <3>2, <3>3 DEF LogsInv
  <2>3. CASE fetches[q].at = "failed" /\ q \notin DOMAIN cache
    BY <2>3 DEF Get, Loaded
  <2> QED BY <2>1, <2>2, <2>3
<1> QED BY <1>1, <1>2, <1>3, <1>4 DEF LogsInv

LEMMA LogsInvIsInvariant == DashboardSpec => []LogsInv
<1>1. DashboardInit => LogsInv
  <2> SUFFICES ASSUME DashboardInit, area = "logs" PROVE LogsInv
    BY DEF LogsInv
  <2>1. /\ ui = Screen(Home[area], Nil) /\ cache = << >> /\ fetches = Put(<< >>, KeysOf(ui), Sent)
        /\ calls = {} /\ orphans = {}
    BY DEF DashboardInit
  <2>2. ui = Full("logs", 1, Nil, FALSE, Nil)
    BY <2>1, AreaHomes DEF Screen, Full
  <2>3. KeysOf(ui) = {<<"logs", 1, Nil>>}
    BY <2>2, LogsKeys
  <2>4. \A k \in KeysOf(ui) : k[2] = 1
    BY <2>3
  <2>5. \A k \in DOMAIN fetches : k \in KeysOf(ui) /\ fetches[k] = Sent
    BY <2>1 DEF Put
  <2>6. DOMAIN cache = {}
    BY <2>1
  <2> QED BY <2>1, <2>4, <2>5, <2>6, SentAt DEF LogsInv, Within
<1>2. RevisionsInv /\ LogsInv /\ [DashboardNext]_dashboardVars => LogsInv'
  <2> SUFFICES ASSUME RevisionsInv, LogsInv, [DashboardNext]_dashboardVars PROVE LogsInv'
    OBVIOUS
  <2>0. total \in Nat /\ total >= total /\ (area = "logs" => calls = {} /\ orphans = {})
    BY DEF RevisionsInv, LogsInv
  <2>v. area = "logs" => ui.view = "logs"
    BY LogsView DEF RevisionsInv
  <2>1. CASE UNCHANGED dashboardVars
    <3>1. UNCHANGED <<area, pageVars, total, calls, orphans>>
      BY <2>1 DEF dashboardVars, serverVars
    <3> QED BY <2>0, <3>1, SameLogs
  <2>2. CASE DashboardNext
    <3>1. CASE Click \/ Reload
      BY <3>1, ClickLogs, ReloadLogs
    <3>2. CASE Retry \/ Age
      BY <3>2, AgeLogs
    <3>3. CASE Open
      <4>1. area # "logs"
        BY <2>v, <3>3, AreaLinks DEF Open
      <4>2. area' = area
        BY <3>3 DEF Open
      <4> QED BY <4>1, <4>2 DEF LogsInv
    <3>4. CASE Press
      <4>1. area # "logs"
        BY <2>v, <3>4, Mutations DEF Press, P, Kinds, ReadOnly
      <4>2. area' = area
        BY <3>4 DEF Press
      <4> QED BY <4>1, <4>2 DEF LogsInv
    <3>5. CASE Save \/ Logout \/ SessionEnds
      <4>1. UNCHANGED <<area, pageVars, total, calls, orphans>>
        BY <3>5 DEF Save, Logout, SessionEnds, serverVars
      <4> QED BY <2>0, <4>1, SameLogs
    <3>6. CASE Other
      <4>1. UNCHANGED <<area, pageVars, calls, orphans>> /\ total' \in Nat /\ (area = "logs" => total' >= total)
        BY <2>0, <3>6 DEF Other
      <4> QED BY <2>0, <4>1, SameLogs
    <3>7. ASSUME NEW c \in calls, Carry(c) \/ Hear(c) \/ GiveUp(c) PROVE LogsInv'
      BY <2>0, <3>7 DEF Carry, Hear, GiveUp, LogsInv
    <3>8. ASSUME NEW c \in orphans, CarryLate(c) PROVE LogsInv'
      BY <2>0, <3>8 DEF CarryLate, LogsInv
    <3>9. ASSUME NEW k \in DOMAIN fetches, Serve(k) \/ Get(k) \/ TimeOut(k) PROVE LogsInv'
      BY <3>9, QueryLogs, GetLogs
    <3> QED BY <2>2, <3>1, <3>2, <3>3, <3>4, <3>5, <3>6, <3>7, <3>8, <3>9 DEF DashboardNext
  <2> QED BY <2>1, <2>2
<1> QED BY <1>1, <1>2, RevisionsInvIsInvariant, PTL DEF DashboardSpec

\* A filter or a question starts over at the first page.
LEMMA StartsOver ==
    ASSUME ScreenIsKnown, ui.page > 1, NEW control \in Controls,
           control = "filter" \/ (control = "ask" /\ Args # {})
    PROVE  \E c \in Controls : \E u \in After(ui, c) : u.page < ui.page
<1>1. PICK v, p, a, f, s : ui = Full(v, p, a, f, s) /\ p > 1 /\ ui.filtered = f
  <2>1. ui = Full(ui.view, ui.page, ui.arg, ui.filtered, ui.selected)
    BY ScreenParts
  <2> QED BY <2>1
<1>2. CASE control = "filter"
  <2>1. PICK w : w = [ui EXCEPT !.filtered = ~ui.filtered, !.page = 1]
    OBVIOUS
  <2>2. w \in After(ui, control)
    BY <1>2, <2>1 DEF After
  <2>3. PICK g : g = ~ui.filtered
    OBVIOUS
  <2>4. PICK w1 : w1 = [ui EXCEPT !.filtered = g]
    OBVIOUS
  <2>5. w = [w1 EXCEPT !.page = 1]
    BY <2>1, <2>3, <2>4
  <2>6. w1 = Full(v, p, a, g, s)
    BY <1>1, <2>4, Filtered
  <2>7. w = Full(v, 1, a, g, s)
    BY <2>5, <2>6, Paged
  <2>8. w.page = 1
    BY <2>7, FullFields
  <2> QED BY <2>2, <2>8
<1>3. CASE control = "ask"
  <2>1. PICK b \in Args : TRUE
    BY <1>3
  <2>2. PICK w : w = [ui EXCEPT !.arg = b, !.page = 1]
    OBVIOUS
  <2>3. w \in After(ui, control)
    BY <1>3, <2>2 DEF After
  <2>4. PICK w1 : w1 = [ui EXCEPT !.arg = b]
    OBVIOUS
  <2>5. w = [w1 EXCEPT !.page = 1]
    BY <2>2, <2>4
  <2>6. w1 = Full(v, p, b, f, s)
    BY <1>1, <2>4, Asked
  <2>7. w = Full(v, 1, b, f, s)
    BY <2>5, <2>6, Paged
  <2>8. w.page = 1
    BY <2>7, FullFields
  <2> QED BY <2>3, <2>8
<1> QED BY <1>2, <1>3

\* For any number of rows and pages, whoever looks at a page number beyond the last page can
\* leave it with a click.
THEOREM NobodyIsStranded == DashboardSpec => []NotStranded
<1>1. RevisionsInv /\ LogsInv => NotStranded
  <2> SUFFICES ASSUME RevisionsInv, LogsInv, Answered, ~HasRows, ui.page > 1, ui.selected = Nil,
                      ui.view \notin {"runs", "traces"}
               PROVE  \E control \in Controls : \E u \in After(ui, control) : u.page < ui.page
    BY DEF NotStranded
  <2>0. ScreenIsKnown
    BY DEF RevisionsInv
  <2>1. /\ ui.view \in Views /\ ui.view \notin OnePaged /\ ui.arg \in Args \union {Nil}
        /\ area \in Areas /\ ui.view \in Links[area]
    BY <2>0, ScreenParts
  <2>2. CASE ui.view \in {"datasets", "ab-tests", "evaluations", "compliance", "audit-logs"}
    <3>1. "filter" \in Controls
      BY <2>2, ControlsAre DEF DatasetsControls, AbTestsControls, EvaluationsControls, ComplianceControls,
         ComplianceTable, AuditLogsControls
    <3> QED BY <2>0, <3>1, StartsOver
  <2>3. CASE ui.view = "labels"
    <3>1. "ask" \in Controls
      BY <2>3, ControlsAre DEF LabelsControls
    <3>2. ui.arg # Nil
      BY <2>3 DEF Answered, ListKeys
    <3> QED BY <2>0, <2>1, <3>1, <3>2, StartsOver
  <2>4. CASE ui.view = "logs"
    <3>1. area = "logs"
      BY <2>1, <2>4, AreaIs
    <3>2. ListKey = <<"logs", ui.page, ui.arg>> /\ ui.page \in Nat
      BY <2>0, <3>1, LogsView
    <3>3. PICK n : n = cache[ListKey].total
      OBVIOUS
    <3>4. Seen(n, ListKey, total)
      BY <3>1, <3>3 DEF LogsInv, Answered, Loaded
    <3>5. n > (ui.page - 1) * Limit
      BY <3>2, <3>4 DEF Seen, Within
    <3> QED BY <3>3, <3>5 DEF HasRows
  <2> QED BY <2>1, <2>2, <2>3, <2>4 DEF Views, OnePaged
<1> QED BY <1>1, RevisionsInvIsInvariant, LogsInvIsInvariant, PTL
=============================================================================
