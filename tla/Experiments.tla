---------------------------- MODULE Experiments ----------------------------
(***************************************************************************)
(* A/B tests of the versions of one prompt in one workspace: ABTestService *)
(* with the `production' label its promotion sets (LabelService) and the   *)
(* evaluation scores it may read (EvaluationService).                      *)
(*                                                                         *)
(* promoteWinner runs inside db.transaction but prepares its statements on *)
(* getDb().  On SQLite (filesystem driver) that is the connection of the   *)
(* transaction and the whole call is one chain: it commits or is undone.   *)
(* On PostgreSQL each statement commits by itself on the pool, between any *)
(* two of them other calls run, and ROLLBACK undoes nothing.               *)
(***************************************************************************)
EXTENDS Naturals

CONSTANTS
    Tests,        \* rows of ab_tests; ids are never used again
    Calls,        \* requests that run a test, promote, label or delete (bound)
    Versions,     \* version tags of the prompt
    Backends,     \* the databases a deployment may have
    MaxTime,      \* bound: seconds of the clock
    MaxFaults,    \* bound: failing statements and crashes
    None, Free,
    NoEval,       \* a test that is not linked to an evaluation
    Versionless   \* an evaluation whose version_tag is NULL

ASSUME ExperimentsAssumption ==
    /\ Backends \subseteq {"sqlite", "postgres"}
    /\ MaxTime \in Nat /\ MaxFaults \in Nat
    /\ Free \notin Calls
    /\ None \notin Tests
    /\ {None, NoEval, Versionless} \intersect Versions = {}

VARIABLES
    backend,
    now,          \* the clock of created_at, in seconds
    versions,     \* created_at of each active version, None for the others
    db,           \* the tables: ab_tests, ab_test_results, active_version_id, label
    saved,        \* the tables at SQLite's open BEGIN, or None
    used,         \* the test ids given out
    call,         \* each request: its next statement, its test, the winner or version
    turn,         \* the call whose chain is still running
    audited,      \* promote_ab_test entries handed to the audit queue
    won,          \* history: <<t, v>> when a result of t named v the winner
    faults

vars == <<backend, now, versions, db, saved, used, call, turn, audited, won, faults>>

Winners == {"A", "B", "tie"}
Evaluations == Versions \union {NoEval, Versionless}
TestRow == [a : Versions, b : Versions, eval : Evaluations,
            status : {"running", "completed"}, promoted : Versions \union {None}]
Result == [winner : Winners, at : 0..MaxTime]
Tables == [tests : [Tests -> TestRow \union {None}],
           results : [Tests -> SUBSET Result],
           pointed : SUBSET Versions,
           label : Versions \union {None}]

ASSUME NoneIsNoRow == None \notin TestRow /\ None \notin Tables

Statements == {"insert", "status", "result", "row", "pointer", "record", "label prompt",
               "label version", "label write", "commit", "delete"}
Idle == [next |-> "idle", test |-> None, got |-> None]
Done == [next |-> "done", test |-> None, got |-> None]
CallState == [next : Statements, test : Tests \union {None},
              got : Versions \union Winners \union {None}] \union {Idle, Done}

TypeOK ==
    /\ backend \in Backends
    /\ now \in 0..MaxTime
    /\ versions \in [Versions -> 0..MaxTime \union {None}]
    /\ db \in Tables
    /\ saved \in Tables \union {None}
    /\ used \in SUBSET Tests
    /\ call \in [Calls -> CallState]
    /\ turn \in Calls \union {Free}
    /\ audited \in SUBSET (Tests \X Versions)
    /\ won \in SUBSET (Tests \X Versions)
    /\ faults \in 0..MaxFaults

Init ==
    /\ backend \in Backends
    /\ now = 0
    /\ versions = [v \in Versions |-> None]
    /\ db = [tests |-> [t \in Tests |-> None], results |-> [t \in Tests |-> {}],
             pointed |-> {}, label |-> None]
    /\ saved = None
    /\ used = {}
    /\ call = [c \in Calls |-> Idle]
    /\ turn = Free
    /\ audited = {}
    /\ won = {}
    /\ faults = 0

Active == {v \in Versions : versions[v] # None}

-----------------------------------------------------------------------------
(* The chain of a call.                                                     *)

At(c, s) == turn \in {Free, c} /\ call[c].next = s

\* The call goes on with statement s; on PostgreSQL others run before it.
GoOn(c, rec) ==
    /\ call' = [call EXCEPT ![c] = rec]
    /\ turn' = IF backend = "sqlite" /\ rec # Done THEN c ELSE Free

Then(c, s) == GoOn(c, [call[c] EXCEPT !.next = s])

\* The handler returns; its transaction, if it has one, is over.
Return(c) == GoOn(c, Done) /\ saved' = None

\* Mutant: the SQLite transaction is not rolled back.
ThrowWithoutRollback(c) == Return(c) /\ UNCHANGED db

\* The handler throws: ROLLBACK undoes what ran on the connection that holds BEGIN.
Throw(c) ==
    /\ Return(c)
    /\ db' = IF saved = None THEN db ELSE saved

Idles(c) == At(c, "idle") /\ turn = Free

-----------------------------------------------------------------------------
(* createTest and runTest.                                                  *)

\* INSERT INTO ab_tests: neither version has to exist.
CreateTest(t, a, b, e) ==
    /\ turn = Free /\ t \notin used /\ db.tests[t] = None
    /\ used' = used \union {t}
    /\ db' = [db EXCEPT !.tests[t] = [a |-> a, b |-> b, eval |-> e,
                                      status |-> "running", promoted |-> None]]
    /\ UNCHANGED <<backend, now, versions, saved, call, turn, audited, won, faults>>

\* getResultsForVersion compares the evaluation's only version_tag with the version
\* asked for: NULL equals none.
HasScores(eval, v) == eval = v

\* A test linked to an evaluation is scored by it alone; else the client's arrays or
\* the logs are used, and there may be too few of them (400, no effect).
Scored(row) == row.eval # NoEval => HasScores(row.eval, row.a) /\ HasScores(row.eval, row.b)

\* analyzeABTest of an array with itself finds no difference; otherwise any outcome.
Outcomes(row) == IF row.eval = NoEval THEN Winners ELSE {"tie"}

\* The controller and runTest read the test and its scores, and analyse them.
RunReads(c, t) ==
    /\ Idles(c) /\ db.tests[t] # None
    /\ Scored(db.tests[t])
    /\ \E w \in Outcomes(db.tests[t]) :
          GoOn(c, [next |-> "insert", test |-> t, got |-> w])
    /\ UNCHANGED <<backend, now, versions, db, saved, used, audited, won, faults>>

\* Mutant: without the foreign key the result is inserted after its test is gone.
ReferencedAlways(t) == TRUE

\* FOREIGN KEY (ab_test_id) REFERENCES ab_tests(id)
Referenced(t) == db.tests[t] # None

\* The versions that a result with winner w names.
Named(t, w) == {v \in Versions : /\ db.tests[t] # None
                                 /\ \/ w = "A" /\ v = db.tests[t].a
                                    \/ w = "B" /\ v = db.tests[t].b}

\* The row inserted: created_at is the database's clock.
Recorded(w) == {[winner |-> w, at |-> now]}

\* INSERT INTO ab_test_results: refused when the test was deleted meanwhile.
RunInserts(c) ==
    LET t == call[c].test
        w == call[c].got IN
    /\ At(c, "insert")
    /\ IF Referenced(t)
       THEN /\ db' = [db EXCEPT !.results[t] = @ \union Recorded(w)]
            /\ won' = won \union ({t} \X Named(t, w))
            /\ Then(c, "status") /\ UNCHANGED saved
       ELSE Throw(c) /\ UNCHANGED won
    /\ UNCHANGED <<backend, now, versions, used, audited, faults>>

\* UPDATE ... WHERE id: changes nothing when the row is gone.
UpdateTest(t, field, value) ==
    IF db.tests[t] = None THEN db ELSE [db EXCEPT !.tests[t][field] = value]

\* UPDATE ab_tests SET status; the result is read back and answered.
RunCompletes(c) ==
    /\ At(c, "status")
    /\ db' = UpdateTest(call[c].test, "status", "completed")
    /\ Return(c)
    /\ UNCHANGED <<backend, now, versions, used, audited, won, faults>>

-----------------------------------------------------------------------------
(* promoteWinner.                                                           *)

\* BEGIN, and the test is read.
PromoteBegins(c, t) ==
    /\ Idles(c) /\ db.tests[t] # None
    /\ saved' = IF backend = "sqlite" THEN db ELSE None
    /\ GoOn(c, [next |-> "result", test |-> t, got |-> None])
    /\ UNCHANGED <<backend, now, versions, db, used, audited, won, faults>>

\* Mutant: B is named where A won.
VersionOfSwapped(t, w) ==
    CASE w = "A" -> db.tests[t].b [] w = "B" -> db.tests[t].a [] OTHER -> None

\* winner === 'A' ? version_a : winner === 'B' ? version_b : null
VersionOf(t, w) ==
    CASE w = "A" -> db.tests[t].a [] w = "B" -> db.tests[t].b [] OTHER -> None

\* ORDER BY created_at DESC LIMIT 1: of two in the same second, either.
Latest(t) == {r \in db.results[t] : \A s \in db.results[t] : s.at <= r.at}

\* No result: 400.  A tie promotes nothing.
PromoteReads(c) ==
    LET t == call[c].test IN
    /\ At(c, "result")
    /\ \/ /\ db.results[t] = {}
          /\ Throw(c)
       \/ \E r \in Latest(t) :
          LET v == VersionOf(t, r.winner) IN
          /\ GoOn(c, [next |-> IF v = None THEN "commit" ELSE "row", test |-> t, got |-> v])
          /\ UNCHANGED <<db, saved>>
    /\ UNCHANGED <<backend, now, versions, used, audited, won, faults>>

\* SELECT id FROM prompts ... AND status = 'active': no such row, no pointer.
PromoteFindsRow(c) ==
    /\ At(c, "row")
    /\ Then(c, IF call[c].got \in Active THEN "pointer" ELSE "record")
    /\ UNCHANGED <<backend, now, versions, db, saved, used, audited, won, faults>>

\* UPDATE prompts SET active_version_id: nothing when the row is gone.
PromotePoints(c) ==
    /\ At(c, "pointer")
    /\ db' = [db EXCEPT !.pointed = @ \union {call[c].got}]
    /\ Then(c, "record")
    /\ UNCHANGED <<backend, now, versions, saved, used, audited, won, faults>>

\* UPDATE ab_tests SET promoted_version.
PromoteRecords(c) ==
    /\ At(c, "record")
    /\ db' = UpdateTest(call[c].test, "promoted", call[c].got)
    /\ Then(c, "label prompt")
    /\ UNCHANGED <<backend, now, versions, saved, used, audited, won, faults>>

\* auditLogService.enqueue, when there was a version.
Enqueue(c) == audited' = audited \union ({call[c].test} \X ({call[c].got} \ {None}))

\* The label is read back, the entry enqueued; COMMIT.
PromoteCommits(c) ==
    /\ At(c, "commit")
    /\ Enqueue(c)
    /\ Return(c)
    /\ UNCHANGED <<backend, now, versions, db, used, won, faults>>

\* SQLite's COMMIT fails: the entry is enqueued, the promotion is undone.
CommitFails(c) ==
    /\ At(c, "commit") /\ saved # None
    /\ faults < MaxFaults /\ faults' = faults + 1
    /\ Enqueue(c)
    /\ Throw(c)
    /\ UNCHANGED <<backend, now, versions, used, won>>

-----------------------------------------------------------------------------
(* createLabel for `production', by itself or as the end of a promotion.    *)

\* A request with a version_tag, or without one (None).
LabelBegins(c, v) ==
    /\ Idles(c)
    /\ GoOn(c, [next |-> "label prompt", test |-> None, got |-> v])
    /\ UNCHANGED <<backend, now, versions, db, saved, used, audited, won, faults>>

\* The prompt has an active version in this workspace, or 404.
LabelFindsPrompt(c) ==
    /\ At(c, "label prompt")
    /\ IF Active # {}
       THEN Then(c, "label version") /\ UNCHANGED <<db, saved>>
       ELSE Throw(c)
    /\ UNCHANGED <<backend, now, versions, used, audited, won, faults>>

\* ORDER BY created_at DESC LIMIT 1
Newest == {v \in Active : \A u \in Active : versions[u] <= versions[v]}

\* The version the label may take: the newest when none was given, else that one if
\* it is active.
LabelVersions(v) == IF v = None THEN Newest ELSE {v} \intersect Active

\* No version: 400.
LabelFindsVersion(c) ==
    /\ At(c, "label version")
    /\ \/ \E v \in LabelVersions(call[c].got) :
          /\ GoOn(c, [call[c] EXCEPT !.next = "label write", !.got = v])
          /\ UNCHANGED <<db, saved>>
       \/ /\ LabelVersions(call[c].got) = {}
          /\ Throw(c)
    /\ UNCHANGED <<backend, now, versions, used, audited, won, faults>>

\* INSERT ... ON CONFLICT(prompt_name, name) DO UPDATE SET version_tag.
LabelWrites(c) ==
    /\ At(c, "label write")
    /\ db' = [db EXCEPT !.label = call[c].got]
    /\ IF call[c].test = None
       THEN Return(c)
       ELSE Then(c, "commit") /\ UNCHANGED saved
    /\ UNCHANGED <<backend, now, versions, used, audited, won, faults>>

\* deleteLabel: one statement.
DeleteLabel ==
    /\ turn = Free /\ db.label # None
    /\ db' = [db EXCEPT !.label = None]
    /\ UNCHANGED <<backend, now, versions, saved, used, call, turn, audited, won, faults>>

-----------------------------------------------------------------------------
(* deleteTest, the registry and failures.                                   *)

\* DELETE FROM ab_test_results.
DeletesResults(c, t) ==
    /\ Idles(c) /\ db.tests[t] # None
    /\ db' = [db EXCEPT !.results[t] = {}]
    /\ GoOn(c, [next |-> "delete", test |-> t, got |-> None])
    /\ UNCHANGED <<backend, now, versions, saved, used, audited, won, faults>>

\* DELETE FROM ab_tests; ON DELETE CASCADE takes the results inserted meanwhile.
DeletesTest(c) ==
    LET t == call[c].test IN
    /\ At(c, "delete")
    /\ db' = [db EXCEPT !.tests[t] = None, !.results[t] = {}]
    /\ Return(c)
    /\ UNCHANGED <<backend, now, versions, used, audited, won, faults>>

\* deleteEvaluation of the one a test is linked to: evaluation_id is set to NULL.
DeleteEvaluation(t) ==
    /\ turn = Free /\ db.tests[t] # None /\ db.tests[t].eval # NoEval
    /\ db' = [db EXCEPT !.tests[t].eval = NoEval]
    /\ UNCHANGED <<backend, now, versions, saved, used, call, turn, audited, won, faults>>

\* createPrompt activates a version; its row may be older than the activation.
RegistryActivates(v) ==
    /\ turn = Free /\ v \notin Active
    /\ \E at \in 0..now : versions' = [versions EXCEPT ![v] = at]
    /\ UNCHANGED <<backend, now, db, saved, used, call, turn, audited, won, faults>>

\* On PostgreSQL an overlapping create of the same version makes its row pending
\* again, and the reconciliation job may delete it, with the pointer in it.
RegistryReopens(v) ==
    /\ backend = "postgres" /\ v \in Active
    /\ versions' = [versions EXCEPT ![v] = None]
    /\ \/ UNCHANGED db
       \/ db' = [db EXCEPT !.pointed = @ \ {v}]
    /\ UNCHANGED <<backend, now, saved, used, call, turn, audited, won, faults>>

Tick ==
    /\ turn = Free /\ now < MaxTime
    /\ now' = now + 1
    /\ UNCHANGED <<backend, versions, db, saved, used, call, turn, audited, won, faults>>

\* A statement fails before it has an effect: 500.
StatementFails(c) ==
    /\ call[c] \notin {Idle, Done} /\ turn \in {Free, c}
    /\ faults < MaxFaults /\ faults' = faults + 1
    /\ Throw(c)
    /\ UNCHANGED <<backend, now, versions, used, audited, won>>

\* The process restarts: SQLite discards an open transaction.
Crash ==
    /\ faults < MaxFaults /\ faults' = faults + 1
    /\ call' = [c \in Calls |-> IF call[c] = Idle THEN Idle ELSE Done]
    /\ turn' = Free
    /\ saved' = None
    /\ db' = IF saved = None THEN db ELSE saved
    /\ UNCHANGED <<backend, now, versions, used, audited, won>>

\* All requests have been answered.
Quiet == (\A c \in Calls : call[c] = Done) /\ UNCHANGED vars

CallStep(c) ==
    \/ RunInserts(c) \/ RunCompletes(c)
    \/ PromoteReads(c) \/ PromoteFindsRow(c) \/ PromotePoints(c) \/ PromoteRecords(c)
    \/ PromoteCommits(c) \/ CommitFails(c)
    \/ LabelFindsPrompt(c) \/ LabelFindsVersion(c) \/ LabelWrites(c)
    \/ DeletesTest(c)
    \/ StatementFails(c)

Next ==
    \/ \E t \in Tests, a, b \in Versions, e \in Evaluations : CreateTest(t, a, b, e)
    \/ \E c \in Calls, t \in Tests : RunReads(c, t) \/ PromoteBegins(c, t) \/ DeletesResults(c, t)
    \/ \E c \in Calls, v \in Versions \union {None} : LabelBegins(c, v)
    \/ \E c \in Calls : CallStep(c)
    \/ DeleteLabel
    \/ \E t \in Tests : DeleteEvaluation(t)
    \/ \E v \in Versions : RegistryActivates(v) \/ RegistryReopens(v)
    \/ Tick
    \/ Crash
    \/ Quiet

Spec == Init /\ [][Next]_vars

-----------------------------------------------------------------------------
(* Properties.                                                             *)

\* What other requests see on SQLite, whatever statement failed: a promotion is
\* there with its pointer and its audit entry, or not at all (promoteWinner's
\* transaction).
PromotionIsWhole ==
    backend = "sqlite" /\ turn = Free =>
        /\ \A t \in Tests : db.tests[t] # None =>
              LET v == db.tests[t].promoted IN
              v # None => v \in db.pointed /\ <<t, v>> \in audited
        /\ \A v \in db.pointed : \E t \in Tests : <<t, v>> \in audited

\* A version is promoted, recorded and audited only if a result of that test named
\* it the winner, however runs, promotions and deletions overlap.
PromotedWon ==
    /\ audited \subseteq won
    /\ \A t \in Tests : db.tests[t] # None /\ db.tests[t].promoted # None =>
          <<t, db.tests[t].promoted>> \in won
    /\ \A v \in db.pointed : \E t \in Tests : <<t, v>> \in won

\* No result outlives its test when a run and a deletion overlap (migration 016).
NoOrphanResult == \A t \in Tests : db.tests[t] = None => db.results[t] = {}

=============================================================================
