----------------------------- MODULE Dashboard ------------------------------
(***************************************************************************)
(* One browser tab of the dashboard: its pages with their queries, their   *)
(* controls and their mutations, the session it reaches the API through,   *)
(* and the API server as far as the pages see it.                          *)
(*                                                                         *)
(* Pages read through the query cache of @tanstack/react-query, modelled   *)
(* from how the pages use it: a query in use is fetched when the cache has *)
(* nothing or something stale for its key; answers stay fresh for a        *)
(* minute; an invalidation marks every key of its prefix, and restarts the *)
(* fetches of those in use.  One fetch per key is under way at a time.     *)
(*                                                                         *)
(* The rows of a list are a number, and `rev' counts their changes: an     *)
(* answer is known by the revision it was read at.  Each behaviour stays   *)
(* within one area, the pages about one kind of row.                       *)
(***************************************************************************)
EXTENDS Naturals, FiniteSets, Functions

CONSTANTS
    Areas,
    Args,        \* prompt names, date ranges, time windows, trace ids
    RowIds,      \* rows that can be selected
    Limit,       \* rows of a page
    MaxRows, MaxMoves, MaxCalls, MaxOthers, MaxLosses,   \* bounds
    Nil

ASSUME DashboardAssumption ==
    /\ Limit \in Nat \ {0}
    /\ {MaxRows, MaxMoves, MaxCalls, MaxOthers, MaxLosses} \subseteq Nat

-----------------------------------------------------------------------------
(* The pages: the query keys, what their mutations invalidate on success    *)
(* ("list" and "detail", the latter of the row that is open by then).       *)

Page(list, detail, refreshes) ==
    [list |-> list, detail |-> detail, refreshes |-> refreshes, goes |-> Nil]
Form(list, goes) == [list |-> list, detail |-> Nil, refreshes |-> [create |-> {}], goes |-> goes]
NoCalls == << >>

DatasetsPage == Page("datasets", "dataset", [delete |-> {"list"}])

\* Mutant: a run refreshes the open test only.
AbTestsPageDetailOnly ==
    Page("ab-tests", "ab-test",
         [run |-> {"detail"}, promote |-> {"list", "detail"}, delete |-> {"list"}])

AbTestsPage ==
    Page("ab-tests", "ab-test",
         [run |-> {"list", "detail"}, promote |-> {"list", "detail"}, delete |-> {"list"}])
LabelsPage == Page("labels", Nil, [create |-> {"list"}, delete |-> {"list"}])
EvaluationsPage == Page("evaluations", "evaluation-trend", NoCalls)
CompliancePage == Page("compliance", "compliance-score", [scan |-> {"list"}])
ReviewPromptsPage == Page("compliance-review", Nil, NoCalls)
AuditLogsPage == Page("audit-logs", Nil, NoCalls)
LogsPage == Page("logs", Nil, NoCalls)
RunsPage == Page("runs", Nil, NoCalls)
TracesPage == Page("traces", Nil, NoCalls)
TraceDetailPage == Page("trace", Nil, NoCalls)
OverviewPage == Page("metrics", Nil, NoCalls)

\* The forms read the prompts or nothing; on success they go to the list.
NewDatasetPage == Form(Nil, "datasets")
NewEvaluationPage == Form("prompts", "evaluations")
NewABTestPage == Form(Nil, "ab-tests")

Pages ==
    [v \in {"datasets", "ab-tests", "labels", "evaluations", "compliance", "review", "audit-logs",
            "logs", "runs", "traces", "trace", "overview", "new dataset", "new evaluation",
            "new ab-test"} |->
        CASE v = "datasets" -> DatasetsPage       [] v = "ab-tests" -> AbTestsPage
          [] v = "labels" -> LabelsPage           [] v = "evaluations" -> EvaluationsPage
          [] v = "compliance" -> CompliancePage   [] v = "review" -> ReviewPromptsPage
          [] v = "audit-logs" -> AuditLogsPage    [] v = "logs" -> LogsPage
          [] v = "runs" -> RunsPage               [] v = "traces" -> TracesPage
          [] v = "trace" -> TraceDetailPage       [] v = "overview" -> OverviewPage
          [] v = "new dataset" -> NewDatasetPage  [] v = "new evaluation" -> NewEvaluationPage
          [] v = "new ab-test" -> NewABTestPage]

\* The links between the pages of an area, which are also its views.
Links ==
    [datasets |-> {"datasets", "new dataset"}, abtests |-> {"ab-tests", "new ab-test"},
     labels |-> {"labels"}, evaluations |-> {"evaluations", "new evaluation"},
     compliance |-> {"compliance", "review"}, auditlogs |-> {"audit-logs"}, logs |-> {"logs"},
     runs |-> {"runs"}, traces |-> {"traces", "trace"}, overview |-> {"overview"}]
Home == [datasets |-> "datasets", abtests |-> "ab-tests", labels |-> "labels",
         evaluations |-> "evaluations", compliance |-> "compliance", auditlogs |-> "audit-logs",
         logs |-> "logs", runs |-> "runs", traces |-> "traces", overview |-> "overview"]

ASSUME AreasAssumption ==
    /\ Areas \subseteq DOMAIN Links
    /\ Nil \notin RowIds \union Args \union DOMAIN Pages

-----------------------------------------------------------------------------
VARIABLES
    area,
    ui,         \* the page on screen: view, page, arg, filtered, selected
    cache,      \* key -> [rev, total, stale, failed]
    fetches,    \* key -> sent, answered or failed
    calls,      \* mutations the tab waits for
    orphans,    \* mutations the tab gave up on and the server has not seen yet
    total, rev, \* the server: rows of the area, and how often they changed
    cookie, sessions, token,   \* the session of the cookie, of the server, and the tab's CSRF token
    confirmed,  \* history: revisions of the changes the page was told of, by key prefix
    overtaken,  \* history: keys whose fetch was under way, unused, when they were invalidated
    missed,     \* history: details of changed rows that were not invalidated: another was open
    told,       \* history: [done, confirmed] of the mutations that were answered
    moves, others, losses

unrenewed == <<overtaken, missed>>
pageVars == <<ui, cache, fetches, unrenewed>>
serverVars == <<total, rev>>
sessionVars == <<cookie, sessions, token>>
historyVars == <<confirmed, told>>
boundVars == <<moves, others, losses>>
dashboardVars == <<area, pageVars, calls, orphans, serverVars, sessionVars, historyVars, boundVars>>

P == Pages[ui.view]
Screen(view, arg) == [view |-> view, page |-> 1, arg |-> arg, filtered |-> FALSE, selected |-> Nil]

\* The labels page asks nothing before a prompt is named.
ListKeys(u) ==
    IF Pages[u.view].list = Nil \/ (u.view = "labels" /\ u.arg = Nil) THEN {}
    ELSE {<<Pages[u.view].list, u.page, u.arg>>}
DetailKeys(u) == IF u.selected = Nil THEN {} ELSE {<<Pages[u.view].detail, u.selected, Nil>>}
KeysOf(u) == ListKeys(u) \union DetailKeys(u)

Fetched(at, r, n) == [at |-> at, rev |-> r, total |-> n]
Sent == Fetched("sent", 0, 0)
Failed == Fetched("failed", 0, 0)

Loaded(k) == k \in DOMAIN cache
Drop(f, keys) == Restrict(f, DOMAIN f \ keys)
Put(f, keys, value) == [k \in DOMAIN f \union keys |-> IF k \in keys THEN value ELSE f[k]]

\* The screen becomes u: queries newly in use are fetched unless fresh or under way.
Shows(u, known) ==
    LET wanted == {k \in KeysOf(u) \ KeysOf(ui) :
                     (k \in DOMAIN known => known[k].stale) /\ k \notin DOMAIN fetches}
    IN  /\ ui' = u
        /\ fetches' = Put(fetches, wanted, Sent)
        /\ overtaken' = overtaken \ wanted /\ missed' = missed \ wanted

-----------------------------------------------------------------------------
(* What each page offers: the controls that are drawn and not disabled.     *)

ListKey == CHOOSE k \in ListKeys(ui) : TRUE
Answered == ListKeys(ui) # {} /\ Loaded(ListKey)
PageCount == IF Answered THEN (cache[ListKey].total + Limit - 1) \div Limit ELSE 0
HasRows == Answered /\ cache[ListKey].total > (ui.page - 1) * Limit
Pending(kind) == \E c \in calls : c.kind = kind /\ c.mounted
Idle(kinds) == {k \in kinds : ~Pending(k)}
Offer(condition, controls) == IF condition THEN controls ELSE {}

\* Previous and Next are drawn when there are several pages.
Pager == Offer(PageCount > 1, Offer(ui.page > 1, {"previous"}) \union Offer(ui.page < PageCount, {"next"}))

\* The dialog of an open test has its buttons once the cache has the test.
AbTestButtons == Idle({"run", "promote", "delete"})
AbTestDialog == {"close"} \union Offer(HasRows \/ \E k \in DetailKeys(ui) : Loaded(k), AbTestButtons)

\* A dialog covers the page while a row is open.
DatasetDialog == {"close"}
DatasetsControls ==
    IF ui.selected # Nil THEN DatasetDialog
    ELSE {"filter"} \union Offer(HasRows, {"select"} \union Idle({"delete"}))
         \union Offer(~ui.filtered, Pager)

AbTestsControls ==
    IF ui.selected # Nil THEN AbTestDialog
    ELSE {"filter"} \union Offer(HasRows, {"select"}) \union Offer(~ui.filtered, Pager)

LabelsControls ==
    {"ask"} \union Offer(ui.arg # Nil, Idle({"create"})) \union Offer(HasRows, Idle({"delete"}))
    \union Pager

EvaluationsControls ==
    IF ui.selected # Nil THEN {"close"}
    ELSE {"filter"} \union Offer(HasRows, {"select"}) \union Offer(~ui.filtered, Pager)

ScanForm == Idle({"scan"})
ComplianceTable == {"filter"} \union Offer(HasRows, {"select"}) \union Offer(~ui.filtered, Pager)
ComplianceDialog == {"close"}
ComplianceControls == IF ui.selected # Nil THEN ComplianceDialog ELSE ScanForm \union ComplianceTable

AuditLogsControls == {"ask", "filter"} \union Pager
RunsControls == {"status"} \union Pager
OverviewControls ==
    {"ask"} \union Offer(\E k \in ListKeys(ui) : Loaded(k) /\ cache[k].failed, {"retry"})
FormControls == Idle({"create"})

Controls ==
    CASE ui.view = "datasets" -> DatasetsControls        [] ui.view = "ab-tests" -> AbTestsControls
      [] ui.view = "labels" -> LabelsControls            [] ui.view = "evaluations" -> EvaluationsControls
      [] ui.view = "compliance" -> ComplianceControls    [] ui.view = "audit-logs" -> AuditLogsControls
      [] ui.view = "runs" -> RunsControls                [] ui.view \in {"logs", "traces"} -> Pager
      [] ui.view = "overview" -> OverviewControls        [] ui.view \in {"review", "trace"} -> {}
      [] OTHER -> FormControls

\* The compliance page keeps its state in the URL and drops the page with every other change.
SetParam(u, key, value) == IF key = "page" THEN [u EXCEPT !.page = value]
                           ELSE [u EXCEPT ![key] = value, !.page = 1]

\* Mutant: a search keeps the page number.
AfterKeepsPage(u, control) ==
    CASE control = "previous" -> {[u EXCEPT !.page = u.page - 1]}
      [] control = "next" -> {[u EXCEPT !.page = u.page + 1]}
      [] control = "filter" -> {[u EXCEPT !.filtered = ~u.filtered]}
      [] control = "status" -> {[u EXCEPT !.filtered = ~u.filtered]}
      [] control = "ask" -> {[u EXCEPT !.arg = a, !.page = 1] : a \in Args}
      [] control = "select" /\ u.view = "compliance" -> {SetParam(u, "selected", id) : id \in RowIds}
      [] control = "close" /\ u.view = "compliance" -> {SetParam(u, "selected", Nil)}
      [] control = "select" /\ u.view # "compliance" -> {[u EXCEPT !.selected = id] : id \in RowIds}
      [] control = "close" /\ u.view # "compliance" -> {[u EXCEPT !.selected = Nil]}
      [] OTHER -> {}

\* The screens that a click on the control leads to.
After(u, control) ==
    CASE control = "previous" -> {[u EXCEPT !.page = u.page - 1]}
      [] control = "next" -> {[u EXCEPT !.page = u.page + 1]}
      [] control = "filter" -> {[u EXCEPT !.filtered = ~u.filtered, !.page = 1]}
      [] control = "status" -> {[u EXCEPT !.filtered = ~u.filtered]}
      [] control = "ask" -> {[u EXCEPT !.arg = a, !.page = 1] : a \in Args}
      [] control = "select" /\ u.view = "compliance" -> {SetParam(u, "selected", id) : id \in RowIds}
      [] control = "close" /\ u.view = "compliance" -> {SetParam(u, "selected", Nil)}
      [] control = "select" /\ u.view # "compliance" -> {[u EXCEPT !.selected = id] : id \in RowIds}
      [] control = "close" /\ u.view # "compliance" -> {[u EXCEPT !.selected = Nil]}
      [] OTHER -> {}

-----------------------------------------------------------------------------
(* The user.                                                                *)

Moves == moves < MaxMoves /\ moves' = moves + 1 /\ UNCHANGED losses
Mishap == losses < MaxLosses /\ losses' = losses + 1 /\ UNCHANGED moves

Click ==
    /\ Moves
    /\ \E control \in Controls : \E u \in After(ui, control) : Shows(u, cache)
    /\ UNCHANGED <<area, cache, calls, orphans, serverVars, sessionVars, historyVars, others>>

\* Another page of the area: a trace is named by its link.  The page left no longer shows
\* which of its mutations is pending.
Leave(c) == IF c.mounted THEN [c EXCEPT !.mounted = FALSE, !.open = ui.selected] ELSE c
Open ==
    /\ Moves
    /\ \E v \in Links[area] \ {ui.view} :
         \E a \in (IF v = "trace" THEN Args ELSE {Nil}) : Shows(Screen(v, a), cache)
    /\ calls' = {Leave(c) : c \in calls}
    /\ UNCHANGED <<area, cache, orphans, serverVars, sessionVars, historyVars, others>>

\* What a page keeps in its URL: the compliance page all of it, a trace its id.
InUrl(u) == IF u.view = "compliance" THEN u
            ELSE Screen(u.view, IF u.view = "trace" THEN u.arg ELSE Nil)

\* The module state goes, the cookie and the URL stay.
Reload ==
    /\ Mishap
    /\ ui' = InUrl(ui) /\ cache' = << >> /\ token' = Nil
    /\ fetches' = Put(<< >>, KeysOf(ui'), Sent) /\ overtaken' = {} /\ missed' = {}
    /\ orphans' = orphans \union {c \in calls : c.at = "sent"} /\ calls' = {}
    /\ confirmed' = << >>
    /\ UNCHANGED <<area, serverVars, cookie, sessions, told, others>>

\* The retry button of the overview invalidates all metrics.
Retry ==
    /\ Moves /\ "retry" \in Controls
    /\ cache' = [k \in DOMAIN cache |-> IF k[1] = "metrics" THEN [cache[k] EXCEPT !.stale = TRUE] ELSE cache[k]]
    /\ fetches' = Put(fetches, ListKeys(ui), Sent)
    /\ UNCHANGED <<area, ui, unrenewed, calls, orphans, serverVars, sessionVars, historyVars, others>>

CreateSession(id) == sessions' = sessions \union {id}
\* The key is checked by a request to /v1/api-keys/me, which the server in front of the API
\* has to answer: the API itself has no such route.
Login(id) == CreateSession(id) /\ cookie' = id
Save ==
    /\ Mishap
    /\ \E id \in {losses + 1} : Login(id) /\ token' = id
    /\ UNCHANGED <<area, pageVars, calls, orphans, serverVars, historyVars, others>>

\* The cache is left as it is.
DeleteSession(id) == sessions' = sessions \ {id}
EndSession == DeleteSession(cookie) /\ cookie' = Nil
Logout ==
    /\ Mishap
    /\ EndSession /\ token' = Nil
    /\ UNCHANGED <<area, pageVars, calls, orphans, serverVars, historyVars, others>>

\* A mutation is sent, at most one of a kind from the page on screen.
Press ==
    /\ Cardinality(told) + Cardinality(calls) + Cardinality(orphans) < MaxCalls
    /\ \E kind \in DOMAIN P.refreshes \intersect Controls :
         \E id \in (IF ui.selected # Nil THEN {ui.selected} ELSE IF kind = "delete" THEN RowIds ELSE {Nil}) :
           calls' = calls \union
             {[kind |-> kind, id |-> id, view |-> ui.view, token |-> token, at |-> "sent", rev |-> 0,
               mounted |-> TRUE, open |-> Nil]}
    /\ UNCHANGED <<area, pageVars, orphans, serverVars, sessionVars, historyVars, boundVars>>

-----------------------------------------------------------------------------
(* The proxy and the API.                                                   *)

HasSession == cookie # Nil /\ cookie \in sessions

\* A cookie without a session is deleted.
CookieAfter == IF HasSession THEN cookie ELSE Nil

Changes(kind) ==
    CASE kind \in {"create", "scan"} -> {total + 1}
      [] kind = "delete" -> {total - 1}
      [] OTHER -> {total}

\* A mutation needs the token of the cookie's session.
Forwarded(c) == HasSession /\ c.token = cookie

Execute(c) ==
    IF Forwarded(c) /\ ~(c.kind = "delete" /\ total = 0)
    THEN total' \in Changes(c.kind) /\ rev' = rev + 1
    ELSE UNCHANGED serverVars

Carry(c) ==
    /\ c \in calls /\ c.at = "sent"
    /\ Execute(c)
    /\ calls' = (calls \ {c}) \union
         {[c EXCEPT !.at = IF rev' # rev THEN "done" ELSE "refused", !.rev = rev']}
    /\ cookie' = CookieAfter
    /\ UNCHANGED <<area, pageVars, orphans, sessions, token, historyVars, boundVars>>

CarryLate(c) ==
    /\ c \in orphans /\ orphans' = orphans \ {c}
    /\ Execute(c)
    /\ cookie' = CookieAfter
    /\ UNCHANGED <<area, pageVars, calls, sessions, token, historyVars, boundVars>>

Serve(k) ==
    /\ k \in DOMAIN fetches /\ fetches[k].at = "sent"
    /\ fetches' = [fetches EXCEPT ![k] = IF HasSession THEN Fetched("answered", rev, total) ELSE Failed]
    /\ cookie' = CookieAfter
    /\ UNCHANGED <<area, ui, cache, unrenewed, calls, orphans, serverVars, sessions, token,
                   historyVars, boundVars>>

\* Rows that others create and, where the API lets them, delete.
Other ==
    /\ others < MaxOthers /\ others' = others + 1
    /\ \/ total' = total + 1 /\ total < MaxRows
       \/ total' = total - 1 /\ total > 0
          /\ area \in {"datasets", "abtests", "labels", "evaluations", "runs", "traces"}
    /\ rev' = rev + 1
    /\ UNCHANGED <<area, pageVars, calls, orphans, sessionVars, historyVars, moves, losses>>

-----------------------------------------------------------------------------
(* The query cache.                                                         *)

\* Data that could not be renewed stays on screen, beside the error.
Get(k) ==
    /\ k \in DOMAIN fetches /\ fetches[k].at # "sent"
    /\ fetches' = Drop(fetches, {k})
    /\ cache' = IF fetches[k].at # "failed"
                THEN Put(cache, {k}, [rev |-> fetches[k].rev, total |-> fetches[k].total,
                                      stale |-> FALSE, failed |-> FALSE])
                ELSE IF Loaded(k) THEN [cache EXCEPT ![k] = [@ EXCEPT !.stale = TRUE, !.failed = TRUE]]
                ELSE cache
    /\ UNCHANGED <<area, ui, unrenewed, calls, orphans, serverVars, sessionVars, historyVars,
                   boundVars>>

\* A minute passes, and what the cache has is stale.
Age ==
    /\ Moves /\ \E k \in DOMAIN cache : ~cache[k].stale
    /\ cache' = [k \in DOMAIN cache |-> [cache[k] EXCEPT !.stale = TRUE]]
    /\ UNCHANGED <<area, ui, fetches, unrenewed, calls, orphans, serverVars, sessionVars,
                   historyVars, others>>

\* The answer to a DELETE is 204 and has no body to parse.
Parses(c) == c.at = "done" /\ c.kind # "delete"

\* The row whose detail is invalidated is the one open now, or when the page was left.
OpenRow(c) == IF c.mounted THEN ui.selected ELSE c.open

Invalidated(c) ==
    LET page == Pages[c.view]  prefixes == page.refreshes[c.kind]
        known == DOMAIN cache \union DOMAIN fetches
    IN  {k \in known : \/ "list" \in prefixes /\ k[1] = page.list
                       \/ "detail" \in prefixes /\ k = <<page.detail, OpenRow(c), Nil>>}

\* The page was told that this row changed, and another row's detail is invalidated, or none.
MissedBy(c) ==
    {<<Pages[c.view].detail, id, Nil>> : id \in {c.id} \ {Nil, OpenRow(c)}}

\* An invalidation restarts the fetches in use, but not a first one, whose data is still missing.
Hear(c) ==
    /\ c \in calls /\ c.at # "sent"
    /\ calls' = calls \ {c}
    /\ told' = told \union {<<c.at = "done", Parses(c)>>}
    /\ IF ~Parses(c) THEN UNCHANGED <<pageVars, confirmed>>
       ELSE LET keys == Invalidated(c)
                known == [k \in DOMAIN cache |->
                            IF k \in keys THEN [cache[k] EXCEPT !.stale = TRUE] ELSE cache[k]]
                again == {k \in keys \intersect KeysOf(ui) : Loaded(k) \/ k \notin DOMAIN fetches}
                goes == Pages[c.view].goes
            IN  /\ cache' = known
                /\ confirmed' = Put(confirmed, {<<c.view, Nil>>, <<c.view, c.id>>}, c.rev)
                /\ IF goes # Nil THEN Shows(Screen(goes, Nil), known)
                   ELSE /\ fetches' = Put(fetches, again, Sent)
                        /\ overtaken' = (overtaken \union (keys \intersect DOMAIN fetches)) \ again
                        /\ missed' = (missed \union MissedBy(c)) \ again
                        /\ ui' = ui
    /\ UNCHANGED <<area, orphans, serverVars, sessionVars, boundVars>>

\* After ten seconds the tab gives up, on an answer or on a request that is still to arrive.
GiveUp(c) ==
    /\ c \in calls /\ Mishap
    /\ calls' = calls \ {c}
    /\ orphans' = IF c.at = "sent" THEN orphans \union {c} ELSE orphans
    /\ UNCHANGED <<area, pageVars, serverVars, sessionVars, historyVars, others>>

TimeOut(k) ==
    /\ k \in DOMAIN fetches /\ fetches[k].at # "failed" /\ Mishap
    /\ fetches' = [fetches EXCEPT ![k] = Failed]
    /\ UNCHANGED <<area, ui, cache, unrenewed, calls, orphans, serverVars, sessionVars, historyVars,
                   others>>

\* The cookie is gone after half an hour, the sessions with the process that holds them.
SessionEnds ==
    /\ Mishap
    /\ \/ cookie' = Nil /\ UNCHANGED sessions
       \/ sessions' = {} /\ UNCHANGED cookie
    /\ UNCHANGED <<area, pageVars, calls, orphans, serverVars, token, historyVars, others>>

-----------------------------------------------------------------------------
DashboardInit ==
    /\ area \in Areas
    /\ ui = Screen(Home[area], Nil)
    /\ cache = << >> /\ fetches = Put(<< >>, KeysOf(ui), Sent) /\ overtaken = {} /\ missed = {}
    /\ calls = {} /\ orphans = {}
    /\ total \in 0..MaxRows /\ rev = 0
    /\ cookie = 0 /\ sessions = {0} /\ token = 0
    /\ confirmed = << >> /\ told = {}
    /\ moves = 0 /\ others = 0 /\ losses = 0

DashboardNext ==
    \/ Click \/ Open \/ Reload \/ Retry \/ Save \/ Logout \/ Press
    \/ \E c \in calls : Carry(c) \/ Hear(c) \/ GiveUp(c)
    \/ \E c \in orphans : CarryLate(c)
    \/ \E k \in DOMAIN fetches : Serve(k) \/ Get(k) \/ TimeOut(k)
    \/ Age \/ Other \/ SessionEnds

DashboardSpec == DashboardInit /\ [][DashboardNext]_dashboardVars

-----------------------------------------------------------------------------
\* What a page was told of, and has on screen: the changes of its list and of its open row.
OnScreen(k, change) ==
    \/ change = <<ui.view, Nil>> /\ P.goes = Nil /\ k \in ListKeys(ui)
    \/ change = <<ui.view, ui.selected>> /\ k \in DetailKeys(ui)

ShowsChanges(k) ==
    Loaded(k) /\ k \notin DOMAIN fetches /\ ~cache[k].failed =>
        \A change \in DOMAIN confirmed : OnScreen(k, change) => cache[k].rev >= confirmed[change]

\* A page that was told of its change shows it: when none of its queries is under way, the
\* list and the open row were read after the change.  Left out are the forms, which invalidate
\* nothing; what the page itself reports as failed; a query that was invalidated while its
\* fetch was under way and was not restarted, for want of data or because it was not in use;
\* and, until it is fetched again, the detail of a row that was not the open one when its
\* change was answered: that is ConfirmedIsAlwaysShown.
ConfirmedIsShown == \A k \in KeysOf(ui) \ (overtaken \union missed) : ShowsChanges(k)

\* The same of every row.  Refuted on the A/B tests: the page invalidates the row that is open
\* when the answer comes.  Run a test, close it, wait for the answer, and open it again: for a
\* minute it is shown as it was before the run.
ConfirmedIsAlwaysShown == \A k \in KeysOf(ui) \ overtaken : ShowsChanges(k)

\* Whoever looks at a page number beyond the last page can leave it with a click: by the
\* pager or by a filter that starts over at page 1.  (The runs and traces pages have no such
\* filter: there, once one page of rows is left, the pager is gone.)
NotStranded ==
    Answered /\ ~HasRows /\ ui.page > 1 /\ ui.selected = Nil /\ ui.view \notin {"runs", "traces"} =>
        \E control \in Controls : \E u \in After(ui, control) : u.page < ui.page

\* A change that the server has made, and answered, is not reported as failed.
DoneIsConfirmed == <<TRUE, FALSE>> \notin told
=============================================================================
