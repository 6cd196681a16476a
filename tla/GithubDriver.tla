----------------------------- MODULE GithubDriver -----------------------------
(***************************************************************************)
(* createPrompt with the GitHub driver: the row in PostgreSQL, the file    *)
(* and the tag in the GitHub repository, the local clone that every read   *)
(* goes to, and the sync and reconciliation runs over it.  (On SQLite the  *)
(* driver's transaction nests in the service's and every create fails: see *)
(* PromptRegistry.)                                                        *)
(*                                                                         *)
(* Every step awaits the network, so any other step may come in between.   *)
(* The service's statements each take effect at once: they run outside of  *)
(* the transaction that was opened for them.  The content call behind the  *)
(* circuit breaker is a chain of its own (`gh'): when the breaker's 10 s   *)
(* are over the request fails and the chain runs on.                       *)
(*                                                                         *)
(* The content of a create call is the call itself, and so is its blob.    *)
(***************************************************************************)
EXTENDS Naturals, FiniteSets

CONSTANTS
    Creates,    \* POST /v1/prompts calls
    Versions,   \* version tags of one prompt
    Syncs,      \* driver.sync() calls: the timer, the webhook, the deep health check
    Job,        \* the reconciliation run
    Attempts,   \* of the content call (3)
    MaxFaults,  \* bound: failing calls, and crashes
    None, NoTag

ASSUME GithubAssumption ==
    /\ None \notin Creates \union Versions
    /\ NoTag \notin Creates \union {None}
    /\ Job \notin Syncs /\ None \notin Syncs \union {Job}
    /\ Attempts \in Nat \ {0} /\ MaxFaults \in Nat

VARIABLES
    rows,      \* the prompts table: version -> "none", "pending", "old" or "active"
    repo,      \* the branch's head: the content of each version
    tags,      \* NoTag, or the content of the version in the commit its tag names
    clone,     \* the clone's directory
    files,     \* the content of each version in the clone
    fileTags,  \* the versions whose tag the clone has
    pc,        \* createPrompt: where each call stands
    version,   \* the version each call creates
    gh,        \* createGithubContent of each call
    reply,     \* the status each call was answered with
    cloner,    \* who runs git clone: a sync call or the job's getPrompt
    job,       \* the reconciliation run
    faults

table == <<rows>>
remote == <<repo, tags>>
local == <<clone, files, fileTags>>
calls == <<pc, version, gh, reply>>
jobs == <<cloner, job>>
vars == <<table, remote, local, calls, jobs, faults>>

Content == Creates \union {None}
\* base: the blob the file had when the call asked for it; head: the content in the
\* newest commit of the branch; None of both may be an error of the request.
GhSet == [step : {"off", "put", "head", "tag", "returned", "threw"},
          base : Content, head : Content \union {NoTag}, attempt : 0..(Attempts - 1)]
Off == [step |-> "off", base |-> None, head |-> NoTag, attempt |-> 0]
JobSet == [step : {"idle", "look", "apply"}, todo : SUBSET Versions,
           item : Versions \union {None}, found : BOOLEAN]
IdleJob == [step |-> "idle", todo |-> {}, item |-> None, found |-> FALSE]

InFlight == {"upsert", "base", "fire", "content", "index", "revert", "activate", "commit"}

TypeOK ==
    /\ rows \in [Versions -> {"none", "pending", "old", "active"}]
    /\ repo \in [Versions -> Content]
    /\ tags \in [Versions -> Content \union {NoTag}]
    /\ clone \in {"absent", "cloning", "ready", "broken"}
    /\ files \in [Versions -> Content]
    /\ fileTags \in SUBSET Versions
    /\ pc \in [Creates -> InFlight \union {"idle", "done"}]
    /\ version \in [Creates -> Versions]
    /\ gh \in [Creates -> GhSet]
    /\ reply \in [Creates -> {"none", "201", "400", "500", "lost"}]
    /\ cloner \in Syncs \union {Job, None}
    /\ job \in JobSet
    /\ job.step # "idle" => job.item \in Versions
    /\ faults \in 0..MaxFaults

Init ==
    /\ rows = [v \in Versions |-> "none"]
    /\ repo = [v \in Versions |-> None]
    /\ tags = [v \in Versions |-> NoTag]
    /\ clone = "absent"
    /\ files = [v \in Versions |-> None]
    /\ fileTags = {}
    /\ pc = [c \in Creates |-> "idle"]
    /\ version \in [Creates -> Versions]
    /\ gh = [c \in Creates |-> Off]
    /\ reply = [c \in Creates |-> "none"]
    /\ cloner = None
    /\ job = IdleJob
    /\ faults = 0

Fault == faults < MaxFaults /\ faults' = faults + 1
Goto(c, step) == pc' = [pc EXCEPT ![c] = step]
Answer(c, code) == Goto(c, "done") /\ reply' = [reply EXCEPT ![c] = code]
SetRow(v, status) == rows' = [rows EXCEPT ![v] = status]
IsPending(v) == rows[v] \in {"pending", "old"}

-----------------------------------------------------------------------------
(* PromptService.createPrompt                                              *)

SelectExisting(c) ==
    /\ pc[c] = "idle"
    /\ IF rows[version[c]] = "active" THEN Answer(c, "400") ELSE Goto(c, "upsert") /\ UNCHANGED reply
    /\ UNCHANGED <<table, remote, local, version, gh, jobs, faults>>

UpsertPending(c) ==
    /\ pc[c] = "upsert"
    /\ SetRow(version[c], "pending") /\ Goto(c, "base")
    /\ UNCHANGED <<remote, local, version, gh, reply, jobs, faults>>

\* The driver asks for the file's blob; whatever goes wrong means that there is none.
GetBase(c) ==
    /\ pc[c] = "base" /\ Goto(c, "fire")
    /\ \/ gh' = [gh EXCEPT ![c].base = repo[version[c]]] /\ UNCHANGED faults
       \/ gh' = [gh EXCEPT ![c].base = None] /\ Fault
    /\ UNCHANGED <<table, remote, local, version, reply, jobs>>

\* createContentBreaker.fire
Fire(c) ==
    /\ pc[c] = "fire"
    /\ gh' = [gh EXCEPT ![c].step = "put"] /\ Goto(c, "content")
    /\ UNCHANGED <<table, remote, local, version, reply, jobs, faults>>

\* The breaker is open, or its timeout is over: the driver throws past its revert, and the
\* content call, if there is one, goes on.
BreakerRejects(c) ==
    /\ \/ pc[c] = "fire" /\ Fault
       \/ pc[c] = "content" /\ UNCHANGED faults
    /\ Answer(c, "500")
    /\ UNCHANGED <<table, remote, local, version, gh, jobs>>

\* Mutant: breaker.fire within the try block whose handler reverts.
ContentAnsweredReverting(c) ==
    /\ pc[c] = "content"
    /\ \/ gh[c].step = "returned" /\ Goto(c, "index")
       \/ gh[c].step = "threw" /\ Goto(c, "revert")
    /\ UNCHANGED <<table, remote, local, version, gh, reply, jobs, faults>>

\* The content call has ended and the request was still waiting for it.
ContentAnswered(c) ==
    /\ pc[c] = "content"
    /\ \/ gh[c].step = "returned" /\ Goto(c, "index") /\ UNCHANGED reply
       \/ gh[c].step = "threw" /\ Answer(c, "500")
    /\ UNCHANGED <<table, remote, local, version, gh, jobs, faults>>

\* The driver's own upsert: status and workspace of an existing row stay as they are; a
\* row that the reconciliation run deleted comes back with the default, active.
Index(c) ==
    LET v == version[c] IN
    /\ pc[c] = "index" /\ Goto(c, "activate")
    /\ SetRow(v, CASE rows[v] = "none" -> "active" [] rows[v] = "old" -> "pending" [] OTHER -> rows[v])
    /\ UNCHANGED <<remote, local, version, gh, reply, jobs, faults>>

\* DELETE with the blob that the call stored; the tag stays.  Errors are ignored.
Revert(c) ==
    LET v == version[c] IN
    /\ pc[c] = "revert" /\ Answer(c, "500")
    /\ \/ repo' = [repo EXCEPT ![v] = IF @ = c THEN None ELSE @] /\ UNCHANGED faults
       \/ UNCHANGED repo /\ Fault
    /\ UNCHANGED <<table, tags, local, version, gh, jobs>>

Activate(c) ==
    LET v == version[c] IN
    /\ pc[c] = "activate" /\ Goto(c, "commit")
    /\ SetRow(v, IF rows[v] = "none" THEN "none" ELSE "active")
    /\ UNCHANGED <<remote, local, version, gh, reply, jobs, faults>>

Commit(c) ==
    /\ pc[c] = "commit" /\ Answer(c, "201")
    /\ UNCHANGED <<table, remote, local, version, gh, jobs, faults>>

\* A statement fails; nothing that was done before is undone, but for a failing index
\* write the driver deletes the file.
StatementFails(c) ==
    /\ Fault
    /\ \/ pc[c] = "index" /\ Goto(c, "revert") /\ UNCHANGED reply
       \/ pc[c] \in {"idle", "upsert", "activate", "commit"} /\ Answer(c, "500")
    /\ UNCHANGED <<table, remote, local, version, gh, jobs>>

-----------------------------------------------------------------------------
(* GithubDriver.createGithubContent and the GitHub API behind it.          *)

GhStep(c, step) == gh' = [gh EXCEPT ![c].step = step]
GhEnds(c, step) == gh' = [gh EXCEPT ![c] = [Off EXCEPT !.step = step]]

\* 429: back off, then start over with the PUT and the blob asked for at first.
Throttled(c) ==
    IF gh[c].attempt + 1 < Attempts
    THEN gh' = [gh EXCEPT ![c].step = "put", ![c].attempt = @ + 1]
    ELSE GhEnds(c, "threw")

\* GitHub stores the file if its blob is the one the request names, and refuses otherwise.
Put(c) ==
    LET v == version[c] IN
    /\ gh[c].step = "put"
    /\ IF repo[v] = gh[c].base
       THEN repo' = [repo EXCEPT ![v] = c] /\ GhStep(c, "head")
       ELSE UNCHANGED repo /\ GhEnds(c, "threw")
    /\ UNCHANGED <<table, tags, local, pc, version, reply, jobs, faults>>

\* getLatestSha, which answers null on any error.
ReadHead(c) ==
    /\ gh[c].step = "head"
    /\ \/ gh' = [gh EXCEPT ![c].step = "tag", ![c].head = repo[version[c]]] /\ UNCHANGED faults
       \/ gh' = [gh EXCEPT ![c].step = "tag", ![c].head = NoTag] /\ Fault
    /\ UNCHANGED <<table, remote, local, pc, version, reply, jobs>>

\* Mutant: a tag that exists already counts as created.
CreateTagTolerant(c) ==
    LET v == version[c] IN
    /\ gh[c].step = "tag" /\ GhEnds(c, "returned")
    /\ tags' = IF tags[v] = NoTag THEN [tags EXCEPT ![v] = gh[c].head] ELSE tags
    /\ UNCHANGED <<table, repo, local, pc, version, reply, jobs, faults>>

\* POST git/refs: refused when the tag exists, or without a commit.
CreateTag(c) ==
    LET v == version[c] IN
    /\ gh[c].step = "tag"
    /\ IF tags[v] = NoTag /\ gh[c].head # NoTag
       THEN tags' = [tags EXCEPT ![v] = gh[c].head] /\ GhEnds(c, "returned")
       ELSE UNCHANGED tags /\ GhEnds(c, "threw")
    /\ UNCHANGED <<table, repo, local, pc, version, reply, jobs, faults>>

\* The PUT or the POST is throttled, or fails; a request whose answer is lost has done
\* its work.
RequestFails(c) ==
    LET v == version[c] IN
    /\ gh[c].step \in {"put", "tag"}
    /\ \/ Throttled(c) /\ UNCHANGED <<remote, faults>>
       \/ GhEnds(c, "threw") /\ Fault
          /\ \/ UNCHANGED remote
             \/ /\ gh[c].step = "put" /\ repo[v] = gh[c].base
                /\ repo' = [repo EXCEPT ![v] = c] /\ UNCHANGED tags
             \/ /\ gh[c].step = "tag" /\ tags[v] = NoTag /\ gh[c].head # NoTag
                /\ tags' = [tags EXCEPT ![v] = gh[c].head] /\ UNCHANGED repo
    /\ UNCHANGED <<table, local, pc, version, reply, jobs>>

-----------------------------------------------------------------------------
\* The reconciliation run takes the next row of its list.
Look(todo) == \E v \in todo : job' = [step |-> "look", todo |-> todo \ {v}, item |-> v, found |-> FALSE]
NextItem == IF job.todo = {} THEN job' = IdleJob ELSE Look(job.todo)

-----------------------------------------------------------------------------
(* The clone: ensureCloned and sync.                                       *)

\* git clone and git pull bring the files and every tag.
CopyRemote == files' = repo /\ fileTags' = {v \in Versions : tags[v] # NoTag}

\* ensureCloned: only the first caller clones; any directory counts as a clone.
StartClone(p) ==
    /\ clone = "absent" /\ clone' = "cloning" /\ cloner' = p
    /\ UNCHANGED <<table, remote, files, fileTags, calls, job, faults>>

\* git clone ends; when it fails git removes the directory, and the caller throws.
EndClone(p) ==
    /\ cloner = p /\ cloner' = None
    /\ \/ clone' = "ready" /\ CopyRemote /\ UNCHANGED <<job, faults>>
       \/ /\ clone' = "absent" /\ Fault /\ UNCHANGED <<files, fileTags>>
          /\ IF p = Job THEN NextItem ELSE UNCHANGED job
    /\ UNCHANGED <<table, remote, calls>>

\* git pull.  One that fails changes nothing, as it does in a directory that is no
\* complete clone.
Pull ==
    /\ clone = "ready" /\ CopyRemote
    /\ UNCHANGED <<table, remote, clone, calls, jobs, faults>>

-----------------------------------------------------------------------------
(* PromptReconciliationJob.runReconcile                                    *)

\* What getPrompt finds: the file, and the tag for its commit_sha.
InClone(v) == clone = "ready" /\ files[v] # None /\ v \in fileTags

RowAges(v) ==
    /\ rows[v] = "pending" /\ SetRow(v, "old")
    /\ UNCHANGED <<remote, local, calls, jobs, faults>>

JobReads ==
    /\ job.step = "idle"
    /\ Look({v \in Versions : rows[v] = "old"})
    /\ UNCHANGED <<table, remote, local, calls, cloner, faults>>

\* getPrompt clones first if there is no directory; a git command that fails is taken for
\* a prompt that is not there.
JobLooks ==
    /\ job.step = "look" /\ cloner # Job
    /\ \/ StartClone(Job)
       \/ /\ clone # "absent"
          /\ \/ job' = [job EXCEPT !.step = "apply", !.found = InClone(job.item)] /\ UNCHANGED faults
             \/ job' = [job EXCEPT !.step = "apply", !.found = FALSE] /\ Fault
          /\ UNCHANGED <<table, remote, local, calls, cloner>>

JobApplies ==
    LET v == job.item IN
    /\ job.step = "apply"
    /\ SetRow(v, IF rows[v] = "none" \/ ~job.found THEN "none" ELSE "active")
    /\ NextItem
    /\ UNCHANGED <<remote, local, calls, cloner, faults>>

JobSkips ==
    /\ job.step = "apply" /\ Fault /\ NextItem
    /\ UNCHANGED <<table, remote, local, calls, cloner>>

-----------------------------------------------------------------------------
\* The process dies and starts again.  A clone in progress leaves a directory.
Crash ==
    /\ Fault
    /\ clone' = IF clone = "cloning" THEN "broken" ELSE clone
    /\ pc' = [c \in Creates |-> IF pc[c] \in InFlight THEN "done" ELSE pc[c]]
    /\ reply' = [c \in Creates |-> IF pc[c] \in InFlight THEN "lost" ELSE reply[c]]
    /\ gh' = [c \in Creates |-> IF gh[c].step \in {"put", "head", "tag"}
                                THEN [Off EXCEPT !.step = "threw"] ELSE gh[c]]
    /\ cloner' = None
    /\ job' = IdleJob
    /\ UNCHANGED <<table, remote, files, fileTags, version>>

ContentCall(c) == Put(c) \/ ReadHead(c) \/ CreateTag(c) \/ RequestFails(c)
Proceed(c) ==
    \/ SelectExisting(c) \/ UpsertPending(c) \/ GetBase(c) \/ Fire(c) \/ BreakerRejects(c)
    \/ ContentAnswered(c) \/ Index(c) \/ Revert(c) \/ Activate(c) \/ Commit(c) \/ StatementFails(c)

\* Mutant: a sync that finds a clone leaves it as it is.
SyncClonesOnly(s) == StartClone(s) \/ EndClone(s)

Sync(s) == StartClone(s) \/ EndClone(s) \/ Pull
Reconcile == JobReads \/ JobLooks \/ EndClone(Job) \/ JobApplies \/ JobSkips

Next ==
    \/ \E c \in Creates : Proceed(c) \/ ContentCall(c)
    \/ \E s \in Syncs : Sync(s)
    \/ Reconcile
    \/ \E v \in Versions : RowAges(v)
    \/ Crash

Spec == Init /\ [][Next]_vars

\* Polling: the timer starts a sync again and again, and git ends.  GitHub and the
\* database need not answer.
FairSpec == Spec /\ (\A s \in Syncs : WF_vars(Sync(s))) /\ WF_vars(EndClone(Job))

-----------------------------------------------------------------------------
(* Properties.                                                             *)

Acked(c) == reply[c] = "201"

\* Two create calls of one version are never both answered 201, although the repository
\* takes updates, calls outlive their requests and rows come and go: a tag is created once.
AckedOnce == \A c, d \in Creates : Acked(c) /\ Acked(d) /\ version[c] = version[d] => c = d

\* No revert, retry or late call of another request takes the file of a version that was
\* answered 201 out of the repository again.
AckedStaysInRepo == \A c \in Creates : Acked(c) => repo[version[c]] # None

\* "Every version is immutable and traceable" (README.md): the commit that a version's tag
\* names contains the version, however its creation was interrupted.
TagNamesContent == \A v \in Versions : tags[v] # None

\* With polling, a version answered 201 reaches the clone that reads are served from,
\* unless a crash left a directory that is taken for a clone.
AckedReachesClone == \A c \in Creates : Acked(c) ~> InClone(version[c]) \/ clone = "broken"
=============================================================================
