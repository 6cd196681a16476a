----------------------------- MODULE Migrations -----------------------------
(***************************************************************************)
(* The twenty-five migrations of migrations/ as scripts: what each one     *)
(* executes on each database, and what a statement does to the schema.     *)
(*                                                                         *)
(* A script is the sequence of what it commits: db.exec is called with     *)
(* several statements.  node-postgres sends them as one query string,      *)
(* which PostgreSQL runs in one implicit transaction; better-sqlite3's     *)
(* exec has no transaction, so each statement commits by itself.           *)
(*                                                                         *)
(* Indexes are left out (all are created IF NOT EXISTS), and so is down(), *)
(* which no program of the repository calls.                               *)
(***************************************************************************)
EXTENDS Naturals, Sequences, SequencesExt, FiniteSetsExt

\* The tables that a migration rebuilds, and those that are only created or extended.
Rebuilt == {"ab_test_results", "dataset_rows", "eval_runs", "spans", "runs"}
Tables == Rebuilt \union
    {"prompts", "api_keys", "logs", "config", "audit_logs", "traces", "prompt_labels",
     "rate_limits", "evaluations", "evaluation_results", "ab_tests", "datasets",
     "compliance_rules", "compliance_scores"}

\* One statement: what it does, the table, and the column it adds or the migration
\* whose constraints it gives the table.
Stmt(does, table, arg) == [does |-> does, table |-> table, arg |-> arg]
Each(does, ts, arg) == [i \in DOMAIN ts |-> Stmt(does, ts[i], arg)]

\* CREATE TABLE IF NOT EXISTS; ALTER TABLE ADD COLUMN, plain and guarded.
Ensure(ts, m) == Each("ensure", ts, m)
Add(t, cs) == [i \in DOMAIN cs |-> Stmt("add", t, cs[i])]
AddMissing(t, cs) == [i \in DOMAIN cs |-> Stmt("supply", t, cs[i])]

\* Mutant: the old table is dropped before its rows are copied.
RebuildDropsFirst(t, m, prunes) ==
    <<Stmt("rename", t, m), Stmt("create", t, m), Stmt("drop", t, m), Stmt("copy", t, m)>>

\* Remove the orphans, move the table aside, create it anew, copy, drop the old one.
Rebuild(t, m, prunes) ==
    (IF prunes THEN <<Stmt("prune", t, m)>> ELSE <<>>)
    \o <<Stmt("rename", t, m), Stmt("create", t, m), Stmt("copy", t, m), Stmt("drop", t, m)>>

\* PostgreSQL replaces the constraint of the table it keeps.
Constrain(t, m, prunes) ==
    (IF prunes THEN <<Stmt("prune", t, m)>> ELSE <<>>) \o <<Stmt("constrain", t, m)>>

OnSqlite(backend, one, other) == IF backend = "sqlite" THEN one ELSE other

\* One db.exec: what it commits, in order.
Exec(b, statements) ==
    OnSqlite(b, [i \in DOMAIN statements |-> <<statements[i]>>], <<statements>>)

-----------------------------------------------------------------------------
(* The scripts.                                                             *)

InitialSchema(b) ==
    Exec(b, Ensure(<<"prompts", "api_keys", "logs", "config", "audit_logs", "traces", "spans",
                     "runs", "prompt_labels", "rate_limits">>, 1))
OllamaColumns(b) ==
    Exec(b, Add("logs", <<"ollama_options", "ollama_keep_alive", "ollama_format">>))
KeyExpiration(b) == Exec(b, Add("api_keys", <<"expires_at">>))
Evaluations(b) == Exec(b, Ensure(<<"evaluations", "evaluation_results">>, 4))

Tenanted == <<"api_keys", "prompts", "logs", "traces", "spans", "runs", "prompt_labels",
              "evaluations", "evaluation_results", "audit_logs">>
WorkspaceId(b) ==
    OnSqlite(b, Exec(b, Each("add", Tenanted, "workspace_id")),
                [i \in DOMAIN Tenanted |-> AddMissing(Tenanted[i], <<"workspace_id">>)])

TraceCreatedIndex(b) == << >>
RateLimitsWindowStart(b) ==
    OnSqlite(b, << >>, << <<Stmt("type", "rate_limits", 7)>> >>)
PromptStatus(b) == Exec(b, Add("prompts", <<"status">>))
SpansTimeColumns(b) ==
    OnSqlite(b, << >>, << <<Stmt("type", "spans", 9)>>, <<Stmt("type", "spans", 9)>> >>)
MetricsIndexes(b) == << >>
AbTesting(b) == Exec(b, Ensure(<<"ab_tests", "ab_test_results">>, 11))
DatasetsAndEvalRuns(b) == Exec(b, Ensure(<<"datasets", "dataset_rows", "eval_runs">>, 12))
Compliance(b) == Exec(b, Ensure(<<"compliance_rules", "compliance_scores">>, 13))
LogRunId(b) == Exec(b, Add("logs", <<"run_id">>))
AbTestPromotion(b) == Exec(b, Add("ab_tests", <<"promoted_version", "promoted_at">>))

\* The migrations that give a table new constraints.
Reshape(b, t, m, prunes) == OnSqlite(b, Rebuild(t, m, prunes), Constrain(t, m, prunes))
CascadeDeletes(b) ==
    Exec(b, Reshape(b, "ab_test_results", 16, TRUE) \o Reshape(b, "dataset_rows", 16, TRUE))
CascadeEvalRuns(b) == Exec(b, Reshape(b, "eval_runs", 17, TRUE))
LogStatus(b) == Exec(b, Add("logs", <<"status", "error_code">>))
AuditTargetId(b) ==
    Exec(b, OnSqlite(b, Add("audit_logs", <<"target_id">>), AddMissing("audit_logs", <<"target_id">>)))
AbTestEvaluation(b) ==
    Exec(b, OnSqlite(b, Add("ab_tests", <<"evaluation_id">>), AddMissing("ab_tests", <<"evaluation_id">>)))

\* The pointer of every prompt is set to the version its production label names.
ActiveVersionId(b) ==
    Exec(b, OnSqlite(b, Add("prompts", <<"active_version_id">>),
                        AddMissing("prompts", <<"active_version_id">>)))
    \o Exec(b, <<Stmt("backfill", "prompts", 21)>>)

ComplianceProvider(b) ==
    LET columns == <<"provider", "raw_response_json">> IN
    Exec(b, OnSqlite(b, Add("compliance_scores", columns), AddMissing("compliance_scores", columns)))
AbTestResultCi(b) ==
    LET columns == <<"ci_lower", "ci_upper", "stddev_a", "stddev_b">> IN
    Exec(b, OnSqlite(b, Add("ab_test_results", columns), AddMissing("ab_test_results", columns)))
TraceRunCascades(b) == Exec(b, Reshape(b, "spans", 24, TRUE) \o Reshape(b, "runs", 24, TRUE))
SpanStatus(b) == Exec(b, Reshape(b, "spans", 25, FALSE))

\* In the order of their file names, which is umzug's.
Script(b, m) ==
    CASE m = 1 -> InitialSchema(b)
      [] m = 2 -> OllamaColumns(b) [] m = 3 -> KeyExpiration(b)
      [] m = 4 -> Evaluations(b) [] m = 5 -> WorkspaceId(b)
      [] m = 6 -> TraceCreatedIndex(b) [] m = 7 -> RateLimitsWindowStart(b)
      [] m = 8 -> PromptStatus(b) [] m = 9 -> SpansTimeColumns(b)
      [] m = 10 -> MetricsIndexes(b) [] m = 11 -> AbTesting(b)
      [] m = 12 -> DatasetsAndEvalRuns(b) [] m = 13 -> Compliance(b)
      [] m = 14 -> LogRunId(b) [] m = 15 -> AbTestPromotion(b)
      [] m = 16 -> CascadeDeletes(b) [] m = 17 -> CascadeEvalRuns(b)
      [] m = 18 -> LogStatus(b) [] m = 19 -> AuditTargetId(b)
      [] m = 20 -> AbTestEvaluation(b) [] m = 21 -> ActiveVersionId(b)
      [] m = 22 -> ComplianceProvider(b) [] m = 23 -> AbTestResultCi(b)
      [] m = 24 -> TraceRunCascades(b) [] m = 25 -> SpanStatus(b)

-----------------------------------------------------------------------------
(* What a statement needs and what it does.  A database is the tables it   *)
(* has, the tables moved aside under <name>_old, and the two columns the   *)
(* backfill relates: the promoted pointer and the production label.  Each  *)
(* table has the migration whose constraints it carries, the columns added *)
(* to it, and its rows: `kept' and `orphan' ones from before, `running'    *)
(* spans, whose status only migration 25 permits.                          *)

Without(f, t) == [x \in DOMAIN f \ {t} |-> f[x]]
With(f, t, v) == [x \in DOMAIN f \union {t} |-> IF x = t THEN v ELSE f[x]]

Fresh(m, cols) == [shape |-> m, cols |-> cols, rows |-> {}]

\* The columns of a table that its CREATE statement in a rebuild names.
Recreated(t) == IF t \in {"spans", "runs"} THEN {"workspace_id"} ELSE {}

Admits(tab, row) == row = "running" => tab.shape = 25

Works(s, d) ==
    LET t == s.table IN
    CASE s.does = "ensure"   -> TRUE
      [] s.does = "add"      -> t \in DOMAIN d.table /\ s.arg \notin d.table[t].cols
      [] s.does = "rename"   -> t \in DOMAIN d.table /\ t \notin DOMAIN d.aside
      [] s.does = "create"   -> t \notin DOMAIN d.table
      [] s.does = "copy"     -> /\ {t} \subseteq DOMAIN d.table \intersect DOMAIN d.aside
                                /\ d.aside[t].cols = d.table[t].cols
                                /\ \A r \in d.aside[t].rows : Admits(d.table[t], r)
                                /\ {} \in {d.table[t].rows, d.aside[t].rows}
      [] s.does = "drop" -> t \in DOMAIN d.aside
      [] OTHER               -> t \in DOMAIN d.table

AddedTo(s, d) == [d EXCEPT !.table[s.table].cols = @ \union {s.arg}]

Effect(s, d) ==
    LET t == s.table IN
    CASE s.does = "ensure" ->
           IF t \in DOMAIN d.table THEN d
           ELSE [d EXCEPT !.table = With(@, t, Fresh(s.arg, {}))]
      [] s.does \in {"add", "supply"} -> AddedTo(s, d)
      [] s.does = "prune" -> [d EXCEPT !.table[t].rows = @ \ {"orphan"}]
      [] s.does = "rename" -> [d EXCEPT !.aside = With(@, t, d.table[t]), !.table = Without(@, t)]
      [] s.does = "create" -> [d EXCEPT !.table = With(@, t, Fresh(s.arg, Recreated(t)))]
      [] s.does = "copy" -> [d EXCEPT !.table[t].rows = @ \union d.aside[t].rows]
      [] s.does = "drop" -> [d EXCEPT !.aside = Without(@, t)]
      [] s.does = "constrain" -> [d EXCEPT !.table[t].shape = IF t = "spans" /\ @ = 25 THEN @ ELSE s.arg]
      [] s.does = "backfill" -> [d EXCEPT !.pointer = d.label]
      [] s.does = "type" -> d

Databases == {"sqlite", "postgres"}
Scripts == [b \in Databases |-> [m \in 1..25 |-> Script(b, m)]]

\* The databases that a unit may leave behind: one, or none if a statement fails, which
\* undoes the unit.
After(s, databases) == {Effect(s, d) : d \in {x \in databases : Works(s, x)}}
Outcomes(unit, d) ==
    LET after[i \in 0..Len(unit)] == IF i = 0 THEN {d} ELSE After(unit[i], after[i - 1])
    IN  after[Len(unit)]

\* The statements of a migration.
Statements == [b \in Databases |-> [m \in 1..25 |-> UNION {ToSet(unit) : unit \in ToSet(Scripts[b][m])}]]

\* The reference: what the tables are to be after the first k migrations, read off their
\* statements without running them.
Migrated(b, k) ==
    LET all == UNION {Statements[b][m] : m \in 1..k}
        args(t, does) == {s.arg : s \in {x \in all : x.table = t /\ x.does \in does}}
    IN  [t \in {s.table : s \in {x \in all : x.does = "ensure"}} |->
            [shape |-> Max(args(t, {"ensure", "create", "constrain"})),
             cols |-> args(t, {"add", "supply"}),
             rows |-> {}]]

\* A statement's effect is there: its table, column or constraints.
InEffect(s, d) ==
    \/ s.table \in DOMAIN d.aside
    \/ /\ s.table \in DOMAIN d.table
       /\ s.does \in {"add", "supply"} => s.arg \in d.table[s.table].cols
       /\ s.does \in {"ensure", "create", "constrain"} => d.table[s.table].shape >= s.arg
=============================================================================
