----------------------------- MODULE Telemetry ------------------------------
(***************************************************************************)
(* The services that write one table row at a time: traces with their      *)
(* spans and runs, datasets with their rows, evaluations with results and  *)
(* runs, compliance scores and API keys.  A handler is a few statements,   *)
(* each committed by itself: on PostgreSQL those of concurrent requests    *)
(* interleave, on SQLite a request reaches its handler in a turn of the    *)
(* event loop of its own and runs through.                                 *)
(*                                                                         *)
(* Each behaviour exercises one group of tables, its scene.                *)
(***************************************************************************)
EXTENDS Naturals, Sequences, FiniteSets, SequencesExt

CONSTANTS
    Clients,     \* requests in flight
    Workspaces,
    Ids,         \* trace ids, which clients may choose
    Backends, Scenes,
    Items,       \* rows of a dataset
    Cap,         \* the limit parsePagination grants
    PageSizes,   \* limits of the walks over the scores
    Debounce,    \* seconds between two writes of last_used_at
    MaxRequests, MaxFaults, MaxTime,   \* bounds
    None

ASSUME TelemetryAssumption ==
    /\ Backends \subseteq {"sqlite", "postgres"}
    /\ Scenes \subseteq {"traces", "evaluations", "scores", "keys"}
    /\ {Items, Cap, MaxRequests, MaxFaults, MaxTime, Debounce} \subseteq Nat
    /\ PageSizes \subseteq Nat \ {0}
    /\ None \notin Ids \union Nat \union {"idle"} \union [id : Nat, at : Nat]

VARIABLES
    backend, scene,
    traces, spans, runs,
    datasets, items, evaluations, results, evalRuns,
    scores,
    key, admitted,          \* admitted: history, the latest admission
    req,                    \* each client's request: where its handler is
    acked,                  \* history: spans and datasets that were answered 201
    touched,                \* history: ids a delete has begun on
    clock, requests, faults

traceVars == <<traces, spans, runs>>
dataVars == <<datasets, items, evaluations, results, evalRuns>>
keyVars == <<key, admitted>>
telemetryVars == <<backend, scene, traceVars, dataVars, scores, keyVars, req, acked, touched,
                  clock, requests, faults>>

NoRequest == [op |-> "idle"]
Free(c) == req[c].op \in {"idle", "walked"}

\* No handler is half way with a statement of c's: a walk is a request for each page.
Between(c) == Free(c) \/ req[c].op \in {"keyset", "count"}

\* A statement of c may run: on SQLite no other handler is half way.
Turn(c) == backend = "postgres" \/ \A d \in Clients \ {c} : Between(d)

\* A request of this scene arrives and runs its first statement.
Arrives(c, s) ==
    /\ scene = s /\ Free(c) /\ Turn(c) /\ requests < MaxRequests
    /\ requests' = requests + 1
    /\ UNCHANGED <<backend, scene, clock, faults>>

At(c, op) == req[c].op = op /\ Turn(c) /\ UNCHANGED <<backend, scene, clock, faults, requests>>

Goes(c, next) == req' = [req EXCEPT ![c] = next]
Ends(c) == Goes(c, NoRequest)

\* Row ids are taken from the number of the request.
Fresh == requests

Has(table, id, w) == \E r \in table : r.id = id /\ r.ws = w
HasId(table, id) == \E r \in table : r.id = id
Row(id, w) == [id |-> id, ws |-> w]

-----------------------------------------------------------------------------
(* Traces, spans and runs.                                                  *)

\* trace_id is unique over all workspaces.
CreateTrace(c) ==
    /\ Arrives(c, "traces")
    /\ \E id \in Ids, w \in Workspaces :
         traces' = IF HasId(traces, id) THEN traces ELSE traces \union {Row(id, w)}
    /\ Ends(c)
    /\ UNCHANGED <<spans, runs, dataVars, scores, keyVars, acked, touched>>

\* Mutant: the trace is looked up in every workspace.
CreateSpanAnywhere(c) ==
    /\ Arrives(c, "traces")
    /\ \E id \in Ids, w \in Workspaces :
         Goes(c, IF HasId(traces, id)
                 THEN [op |-> "insert span", id |-> Fresh, trace |-> id, ws |-> w] ELSE NoRequest)
    /\ UNCHANGED <<traceVars, dataVars, scores, keyVars, acked, touched>>

CreateSpan(c) ==
    /\ Arrives(c, "traces")
    /\ \E id \in Ids, w \in Workspaces :
         Goes(c, IF Has(traces, id, w)
                 THEN [op |-> "insert span", id |-> Fresh, trace |-> id, ws |-> w] ELSE NoRequest)
    /\ UNCHANGED <<traceVars, dataVars, scores, keyVars, acked, touched>>

\* The foreign key is on the trace's id alone.
InsertSpan(c) ==
    /\ At(c, "insert span") /\ Ends(c)
    /\ LET s == [id |-> req[c].id, trace |-> req[c].trace, ws |-> req[c].ws] IN
       IF HasId(traces, s.trace)
       THEN spans' = spans \union {s} /\ acked' = acked \union {s}
       ELSE UNCHANGED <<spans, acked>>
    /\ UNCHANGED <<traces, runs, dataVars, scores, keyVars, touched>>

DeleteTrace(c) ==
    /\ Arrives(c, "traces")
    /\ \E id \in Ids, w \in Workspaces :
         IF Has(traces, id, w)
         THEN Goes(c, [op |-> "delete spans", id |-> id, ws |-> w]) /\ touched' = touched \union {id}
         ELSE Ends(c) /\ UNCHANGED touched
    /\ UNCHANGED <<traceVars, dataVars, scores, keyVars, acked>>

DeleteSpans(c) ==
    /\ At(c, "delete spans")
    /\ spans' = {s \in spans : ~(s.trace = req[c].id /\ s.ws = req[c].ws)}
    /\ Goes(c, [req[c] EXCEPT !.op = "delete trace"])
    /\ UNCHANGED <<traces, runs, dataVars, scores, keyVars, acked, touched>>

\* Mutant: the foreign keys as they were before migration 024.
DeleteTraceRowOnly(c) ==
    /\ At(c, "delete trace") /\ Ends(c)
    /\ traces' = traces \ {Row(req[c].id, req[c].ws)}
    /\ UNCHANGED <<spans, runs, dataVars, scores, keyVars, acked, touched>>

\* The foreign keys delete the spans that came in between and detach the runs.
DeleteTraceRow(c) ==
    /\ At(c, "delete trace") /\ Ends(c)
    /\ traces' = traces \ {Row(req[c].id, req[c].ws)}
    /\ IF Has(traces, req[c].id, req[c].ws)
       THEN /\ spans' = {s \in spans : s.trace # req[c].id}
            /\ runs' = {IF r.trace = req[c].id THEN [r EXCEPT !.trace = None] ELSE r : r \in runs}
       ELSE UNCHANGED <<spans, runs>>
    /\ UNCHANGED <<dataVars, scores, keyVars, acked, touched>>

\* The trace is optional and looked up only when it is given.
CreateRun(c) ==
    /\ Arrives(c, "traces")
    /\ \E id \in Ids \union {None}, w \in Workspaces :
         Goes(c, IF id # None /\ ~Has(traces, id, w) THEN NoRequest
                 ELSE [op |-> "insert run", id |-> Fresh, trace |-> id, ws |-> w])
    /\ UNCHANGED <<traceVars, dataVars, scores, keyVars, acked, touched>>

InsertRun(c) ==
    /\ At(c, "insert run") /\ Ends(c)
    /\ LET t == req[c].trace IN
       runs' = IF t = None \/ HasId(traces, t)
               THEN runs \union {[id |-> req[c].id, trace |-> t, ws |-> req[c].ws, status |-> "running"]}
               ELSE runs
    /\ UNCHANGED <<traces, spans, dataVars, scores, keyVars, acked, touched>>

\* An update without a field is answered before the UPDATE.
UpdateRun(c) ==
    /\ Arrives(c, "traces")
    /\ \E r \in runs : Goes(c, [op |-> "update run", id |-> r.id, ws |-> r.ws])
    /\ UNCHANGED <<traceVars, dataVars, scores, keyVars, acked, touched>>

SetRun(c) ==
    /\ At(c, "update run") /\ Ends(c)
    /\ runs' = {IF r.id = req[c].id /\ r.ws = req[c].ws THEN [r EXCEPT !.status = "failed"] ELSE r
                  : r \in runs}
    /\ UNCHANGED <<traces, spans, dataVars, scores, keyVars, acked, touched>>

DeleteRun(c) ==
    /\ Arrives(c, "traces")
    /\ \E r \in runs : Goes(c, [op |-> "delete run", id |-> r.id, ws |-> r.ws])
    /\ UNCHANGED <<traceVars, dataVars, scores, keyVars, acked, touched>>

DeleteRunRow(c) ==
    /\ At(c, "delete run") /\ Ends(c)
    /\ runs' = {r \in runs : ~(r.id = req[c].id /\ r.ws = req[c].ws)}
    /\ UNCHANGED <<traces, spans, dataVars, scores, keyVars, acked, touched>>

-----------------------------------------------------------------------------
(* Datasets, evaluations, their results and runs.                           *)

Dataset(id, w, count) == [id |-> id, ws |-> w, count |-> count]
Item(dataset, n, w) == [dataset |-> dataset, n |-> n, ws |-> w]

\* Mutant: row_count is written with the dataset, before its rows.
CreateDatasetCounted(c) ==
    /\ Arrives(c, "evaluations")
    /\ \E w \in Workspaces :
         /\ datasets' = datasets \union {Dataset(Fresh, w, Items)}
         /\ Goes(c, [op |-> "insert item", id |-> Fresh, ws |-> w, n |-> 1])
    /\ UNCHANGED <<traceVars, items, evaluations, results, evalRuns, scores, keyVars, acked, touched>>

\* One transaction on SQLite; on PostgreSQL its statements run on the pool, outside it.
CreateDataset(c) ==
    /\ Arrives(c, "evaluations")
    /\ \E w \in Workspaces :
         IF backend = "sqlite"
         THEN /\ datasets' = datasets \union {Dataset(Fresh, w, Items)}
              /\ items' = items \union {Item(Fresh, n, w) : n \in 1..Items}
              /\ acked' = acked \union {Row(Fresh, w)}
              /\ Ends(c)
         ELSE /\ datasets' = datasets \union {Dataset(Fresh, w, 0)}
              /\ Goes(c, IF Items = 0 THEN [op |-> "set count", id |-> Fresh, ws |-> w]
                         ELSE [op |-> "insert item", id |-> Fresh, ws |-> w, n |-> 1])
              /\ UNCHANGED <<items, acked>>
    /\ UNCHANGED <<traceVars, evaluations, results, evalRuns, scores, keyVars, touched>>

\* The foreign key fails when the dataset was deleted meanwhile.
InsertItem(c) ==
    /\ At(c, "insert item")
    /\ LET r == req[c] IN
       IF HasId(datasets, r.id)
       THEN /\ items' = items \union {Item(r.id, r.n, r.ws)}
            /\ Goes(c, IF r.n = Items THEN [op |-> "set count", id |-> r.id, ws |-> r.ws]
                       ELSE [r EXCEPT !.n = @ + 1])
       ELSE Ends(c) /\ UNCHANGED items
    /\ UNCHANGED <<traceVars, datasets, evaluations, results, evalRuns, scores, keyVars, acked, touched>>

\* Nobody looks at how many rows the UPDATE changed.
SetCount(c) ==
    /\ At(c, "set count") /\ Ends(c)
    /\ datasets' = {IF d.id = req[c].id THEN [d EXCEPT !.count = Items] ELSE d : d \in datasets}
    /\ acked' = acked \union {Row(req[c].id, req[c].ws)}
    /\ UNCHANGED <<traceVars, items, evaluations, results, evalRuns, scores, keyVars, touched>>

\* The rows go first, whoever owns the dataset; only then is it looked for.
DeleteDataset(c) ==
    /\ Arrives(c, "evaluations")
    /\ \E d \in datasets, w \in Workspaces :
         /\ items' = {i \in items : ~(i.dataset = d.id /\ i.ws = w)}
         /\ touched' = IF d.ws = w THEN touched \union {d.id} ELSE touched
         /\ Goes(c, [op |-> "delete dataset", id |-> d.id, ws |-> w])
    /\ UNCHANGED <<traceVars, datasets, evaluations, results, evalRuns, scores, keyVars, acked>>

\* The foreign keys of the rows and of the eval runs cascade.
DeleteDatasetRow(c) ==
    /\ At(c, "delete dataset") /\ Ends(c)
    /\ LET gone == {d \in datasets : d.id = req[c].id /\ d.ws = req[c].ws} IN
       /\ datasets' = datasets \ gone
       /\ items' = {i \in items : ~HasId(gone, i.dataset)}
       /\ evalRuns' = {r \in evalRuns : ~HasId(gone, r.dataset)}
    /\ UNCHANGED <<traceVars, evaluations, results, scores, keyVars, acked, touched>>

CreateEvaluation(c) ==
    /\ Arrives(c, "evaluations") /\ Ends(c)
    /\ \E w \in Workspaces : evaluations' = evaluations \union {Row(Fresh, w)}
    /\ UNCHANGED <<traceVars, datasets, items, results, evalRuns, scores, keyVars, acked, touched>>

\* Only the foreign key is checked, so another workspace's evaluation will do.
CreateResult(c) ==
    /\ Arrives(c, "evaluations") /\ Ends(c)
    /\ \E e \in evaluations, w \in Workspaces :
         results' = results \union {[id |-> Fresh, evaluation |-> e.id, ws |-> w]}
    /\ UNCHANGED <<traceVars, datasets, items, evaluations, evalRuns, scores, keyVars, acked, touched>>

RunEvaluation(c) ==
    /\ Arrives(c, "evaluations") /\ Ends(c)
    /\ \E e \in evaluations, d \in {r.id : r \in datasets} \union {None}, w \in Workspaces :
         evalRuns' = evalRuns \union {[id |-> Fresh, evaluation |-> e.id, dataset |-> d, ws |-> w]}
    /\ UNCHANGED <<traceVars, datasets, items, evaluations, results, scores, keyVars, acked, touched>>

DeleteEvaluation(c) ==
    /\ Arrives(c, "evaluations")
    /\ \E e \in evaluations, w \in Workspaces :
         /\ results' = {r \in results : ~(r.evaluation = e.id /\ r.ws = w)}
         /\ Goes(c, [op |-> "delete evaluation", id |-> e.id, ws |-> w])
    /\ UNCHANGED <<traceVars, datasets, items, evaluations, evalRuns, scores, keyVars, acked, touched>>

\* The foreign key of the results has no cascade: a result left over fails the DELETE.
DeleteEvaluationRow(c) ==
    /\ At(c, "delete evaluation") /\ Ends(c)
    /\ LET gone == {e \in evaluations : e.id = req[c].id /\ e.ws = req[c].ws} IN
       IF \E r \in results : HasId(gone, r.evaluation)
       THEN UNCHANGED <<evaluations, evalRuns>>
       ELSE /\ evaluations' = evaluations \ gone
            /\ evalRuns' = {r \in evalRuns : ~HasId(gone, r.evaluation)}
    /\ UNCHANGED <<traceVars, datasets, items, results, scores, keyVars, acked, touched>>

-----------------------------------------------------------------------------
(* Compliance scores and the two ways to page through them.                 *)

Later(s, t) == s.at > t.at \/ (s.at = t.at /\ s.id > t.id)

\* ORDER BY created_at DESC, id DESC: row i is the one with i - 1 rows before it.
Rank(s, table) == Cardinality({t \in table : Later(t, s)})
Listed(table) == [i \in 1..Cardinality(table) |-> CHOOSE s \in table : Rank(s, table) = i - 1]

Slice(seq, offset, size) == SubSeq(seq, offset + 1, offset + size)
Least(m, n) == IF m < n THEN m ELSE n

\* created_at is the time before the INSERT is sent.
Scan(c) ==
    /\ Arrives(c, "scores")
    /\ Goes(c, [op |-> "insert score", at |-> clock])
    /\ UNCHANGED <<traceVars, dataVars, scores, keyVars, acked, touched>>

InsertScore(c) ==
    /\ At(c, "insert score") /\ Ends(c)
    /\ scores' = scores \union {[id |-> Cardinality(scores) + 1, at |-> req[c].at]}
    /\ UNCHANGED <<traceVars, dataVars, keyVars, acked, touched>>

\* A reader that asks for one page after the other.
Walk(c) ==
    /\ Arrives(c, "scores")
    /\ \E size \in PageSizes :
         \/ Goes(c, [op |-> "keyset", size |-> size, after |-> None, seen |-> << >>, first |-> Cardinality(scores)])
         \/ Goes(c, [op |-> "count", size |-> size, page |-> 1, seen |-> << >>, first |-> Cardinality(scores)])
    /\ UNCHANGED <<traceVars, dataVars, scores, keyVars, acked, touched>>

Walked(way, seen, first, size) ==
    [op |-> "walked", way |-> way, seen |-> seen, first |-> first, size |-> size]

\* Mutant: the cursor compares created_at only.
KeysetPageByTime(c) ==
    /\ At(c, "keyset")
    /\ LET r == req[c]
           below == {s \in scores : r.after = None \/ s.at < r.after.at}
           page == Slice(Listed(below), 0, Least(r.size, Cardinality(below)))
       IN  Goes(c, IF Cardinality(below) > r.size
                   THEN [r EXCEPT !.seen = @ \o page, !.after = Last(page)]
                   ELSE Walked("keyset", r.seen \o page, r.first, r.size))
    /\ UNCHANGED <<traceVars, dataVars, scores, keyVars, acked, touched>>

\* One row more than the page tells whether there is a next one.
KeysetPage(c) ==
    /\ At(c, "keyset")
    /\ LET r == req[c]
           below == {s \in scores : r.after = None \/ Later(r.after, s)}
           page == Slice(Listed(below), 0, Least(r.size, Cardinality(below)))
       IN  Goes(c, IF Cardinality(below) > r.size
                   THEN [r EXCEPT !.seen = @ \o page, !.after = Last(page)]
                   ELSE Walked("keyset", r.seen \o page, r.first, r.size))
    /\ UNCHANGED <<traceVars, dataVars, scores, keyVars, acked, touched>>

\* An offset page: the total, then the rows.  The offset is computed from the limit that
\* parsePagination caps, the page is as long as the limit asked for.
CountScores(c) ==
    /\ At(c, "count")
    /\ LET r == req[c] IN
       Goes(c, [op |-> "offset", size |-> r.size, page |-> r.page, seen |-> r.seen,
                first |-> r.first, total |-> Cardinality(scores)])
    /\ UNCHANGED <<traceVars, dataVars, scores, keyVars, acked, touched>>

OffsetPage(c) ==
    /\ At(c, "offset")
    /\ LET r == req[c]
           start == Least((r.page - 1) * Least(r.size, Cap), Cardinality(scores))
           page == Slice(Listed(scores), start, Least(r.size, Cardinality(scores) - start))
           seen == r.seen \o page
       IN  Goes(c, IF r.page * r.size < r.total
                   THEN [op |-> "count", size |-> r.size, page |-> r.page + 1, seen |-> seen,
                         first |-> r.first]
                   ELSE Walked("offset", seen, r.first, r.size))
    /\ UNCHANGED <<traceVars, dataVars, scores, keyVars, acked, touched>>

-----------------------------------------------------------------------------
(* API keys: the authentication of a request and its stamp on the key.      *)

Valid(id) == key # None /\ key.id = id
Admit(id, at) == admitted' = IF Valid(id) THEN at ELSE admitted

\* The row is read and then judged; the stamp is skipped when the last one is recent.
Authenticate(c) ==
    /\ Arrives(c, "keys")
    /\ Goes(c, IF key = None \/ key.ws \notin {"any", "mine"} THEN NoRequest
               ELSE [op |-> "judge", row |-> key])
    /\ UNCHANGED <<traceVars, dataVars, scores, keyVars, acked, touched>>

\* Mutant: the stamp of a key once used is left as it is.
JudgeOnce(c) ==
    /\ At(c, "judge")
    /\ LET row == req[c].row IN
       IF row.expires # None /\ row.expires < clock THEN Ends(c) /\ UNCHANGED admitted
       ELSE IF row.lastUsed = None
       THEN Goes(c, [op |-> "stamp", id |-> row.id, at |-> clock]) /\ UNCHANGED admitted
       ELSE Ends(c) /\ Admit(row.id, clock)
    /\ UNCHANGED <<traceVars, dataVars, scores, key, acked, touched>>

Judge(c) ==
    /\ At(c, "judge")
    /\ LET row == req[c].row IN
       IF row.expires # None /\ row.expires < clock THEN Ends(c) /\ UNCHANGED admitted
       ELSE IF row.lastUsed = None \/ clock >= row.lastUsed + Debounce
       THEN Goes(c, [op |-> "stamp", id |-> row.id, at |-> clock]) /\ UNCHANGED admitted
       ELSE Ends(c) /\ Admit(row.id, clock)
    /\ UNCHANGED <<traceVars, dataVars, scores, key, acked, touched>>

Stamp(c) ==
    /\ At(c, "stamp") /\ Ends(c)
    /\ key' = IF Valid(req[c].id) THEN [key EXCEPT !.lastUsed = req[c].at] ELSE key
    /\ Admit(req[c].id, req[c].at)
    /\ UNCHANGED <<traceVars, dataVars, scores, acked, touched>>

CreateApiKey(c) ==
    /\ Arrives(c, "keys") /\ Ends(c) /\ key = None
    /\ \E w \in {"any", "mine"}, life \in {None, Debounce} :
         key' = [id |-> Fresh, ws |-> w, lastUsed |-> None, expires |-> IF life = None THEN None ELSE clock + life]
    /\ admitted' = None
    /\ UNCHANGED <<traceVars, dataVars, scores, acked, touched>>

DeleteApiKey(c) ==
    /\ Arrives(c, "keys") /\ Ends(c)
    /\ key' = None /\ admitted' = None
    /\ UNCHANGED <<traceVars, dataVars, scores, acked, touched>>

-----------------------------------------------------------------------------
\* A statement that fails answers 500; what the request has written stays.
StatementFails(c) ==
    /\ ~Free(c) /\ Turn(c) /\ Ends(c)
    /\ faults < MaxFaults /\ faults' = faults + 1
    /\ UNCHANGED <<backend, scene, traceVars, dataVars, scores, keyVars, acked, touched, clock, requests>>

\* Time passes between two statements only when the connection is a socket.
Tick ==
    /\ scene \in {"scores", "keys"} /\ clock < MaxTime
    /\ backend = "postgres" \/ \A c \in Clients : Between(c)
    /\ clock' = clock + 1
    /\ UNCHANGED <<backend, scene, traceVars, dataVars, scores, keyVars, req, acked, touched,
                   requests, faults>>

\* Scores are there from before the walk, two of them of the same second.
TelemetryInit ==
    /\ backend \in Backends /\ scene \in Scenes
    /\ traces = {} /\ spans = {} /\ runs = {}
    /\ datasets = {} /\ items = {} /\ evaluations = {} /\ results = {} /\ evalRuns = {}
    /\ scores = IF scene = "scores" THEN {[id |-> n, at |-> 0] : n \in 1..Items} ELSE {}
    /\ key = None /\ admitted = None
    /\ req = [c \in Clients |-> NoRequest]
    /\ acked = {} /\ touched = {}
    /\ clock = 0 /\ requests = 0 /\ faults = 0

TraceStep(c) ==
    \/ CreateTrace(c) \/ CreateSpan(c) \/ InsertSpan(c)
    \/ DeleteTrace(c) \/ DeleteSpans(c) \/ DeleteTraceRow(c)

RunStep(c) ==
    \/ CreateRun(c) \/ InsertRun(c) \/ UpdateRun(c) \/ SetRun(c) \/ DeleteRun(c) \/ DeleteRunRow(c)

DatasetStep(c) ==
    \/ CreateDataset(c) \/ InsertItem(c) \/ SetCount(c) \/ DeleteDataset(c) \/ DeleteDatasetRow(c)

EvaluationStep(c) ==
    \/ CreateEvaluation(c) \/ CreateResult(c) \/ RunEvaluation(c)
    \/ DeleteEvaluation(c) \/ DeleteEvaluationRow(c)

ScoreStep(c) ==
    \/ Scan(c) \/ InsertScore(c) \/ Walk(c) \/ KeysetPage(c) \/ CountScores(c) \/ OffsetPage(c)

KeyStep(c) == \/ Authenticate(c) \/ Judge(c) \/ Stamp(c) \/ CreateApiKey(c) \/ DeleteApiKey(c)

TelemetryNext ==
    \/ \E c \in Clients :
         \/ TraceStep(c) \/ RunStep(c) \/ DatasetStep(c) \/ EvaluationStep(c)
         \/ ScoreStep(c) \/ KeyStep(c) \/ StatementFails(c)
    \/ Tick

TelemetrySpec == TelemetryInit /\ [][TelemetryNext]_telemetryVars

-----------------------------------------------------------------------------
\* Every row points at a row that exists, whatever was deleted meanwhile: spans at their
\* trace, runs at theirs or at none, rows of datasets, results and eval runs at their parents.
EveryChildHasParent ==
    /\ \A s \in spans : HasId(traces, s.trace)
    /\ \A r \in runs : r.trace = None \/ HasId(traces, r.trace)
    /\ \A i \in items : HasId(datasets, i.dataset)
    /\ \A r \in results : HasId(evaluations, r.evaluation)
    /\ \A r \in evalRuns : /\ HasId(evaluations, r.evaluation)
                           /\ r.dataset = None \/ HasId(datasets, r.dataset)

\* A span is in the workspace of its trace: createSpan looks the trace up in the caller's
\* workspace before it inserts.  (On PostgreSQL a trace deleted in between and created again
\* by another workspace under the same id gets the span; such ids are left out.)
SpanInItsWorkspace ==
    \A s \in spans, t \in traces :
        s.trace = t.id => s.ws = t.ws \/ (backend = "postgres" /\ t.id \in touched)

\* Until a delete of it begins, a dataset has as many rows as its row_count says, and one
\* that was answered 201 is there with all of them: rows of a creation that failed half way
\* are never counted.
DatasetIsWhole ==
    /\ \A d \in datasets : d.id \notin touched /\ d.count > 0 =>
           Cardinality({i \in items : i.dataset = d.id}) = d.count
    /\ \A a \in acked : scene = "evaluations" /\ a.id \notin touched =>
           \E d \in datasets : d.id = a.id /\ d.count = Items

Times(id, seq) == Cardinality({i \in DOMAIN seq : seq[i].id = id})

\* A reader of all pages sees every score that was there when it began: exactly once with
\* the cursor, and with page numbers at least once while the server runs the count and the
\* page without a pause and the limit is one parsePagination grants.
WalkSeesEach ==
    \A c \in Clients : req[c].op = "walked" =>
        \A id \in 1..req[c].first :
            IF req[c].way = "keyset" THEN Times(id, req[c].seen) = 1
            ELSE backend = "sqlite" /\ req[c].size <= Cap => Times(id, req[c].seen) >= 1

\* last_used_at lags the latest admitted request by less than the debounce interval, as the
\* comment in authenticateApiKey promises, on the backend where a request runs through; an
\* interval of zero leaves no lag at all.
LastUsedLags ==
    backend = "sqlite" /\ key # None /\ admitted # None /\ (\A c \in Clients : Free(c)) =>
        /\ key.lastUsed # None
        /\ admitted = key.lastUsed \/ admitted < key.lastUsed + Debounce
=============================================================================
