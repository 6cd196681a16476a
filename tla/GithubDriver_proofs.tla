-------------------------- MODULE GithubDriver_proofs --------------------------
(***************************************************************************)
(* Proofs about GithubDriver, for any calls, versions, attempts and        *)
(* faults.  The argument: GitHub creates a tag once, so at most one        *)
(* content call of a version returns; only the call whose content call     *)
(* returned may revert; and while a version has no tag, a file that was    *)
(* put stays.                                                              *)
(***************************************************************************)
EXTENDS GithubDriver, TLAPS

LEMMA InitTypeOK == Init => TypeOK
BY GithubAssumption DEF Init, TypeOK, GhSet, Content, Off, JobSet, IdleJob

\* The run's next item keeps it well typed.
LEMMA NextItemType ==
    ASSUME TypeOK, NextItem
    PROVE  job' \in JobSet /\ (job'.step # "idle" => job'.item \in Versions)
<1>1. CASE job.todo = {}
  <2>1. job' = IdleJob
    BY <1>1 DEF NextItem
  <2>2. IdleJob \in JobSet /\ IdleJob.step = "idle"
    BY DEF IdleJob, JobSet
  <2> QED BY <2>1, <2>2
<1>2. CASE job.todo # {}
  <2>1. PICK v \in job.todo :
          job' = [step |-> "look", todo |-> job.todo \ {v}, item |-> v, found |-> FALSE]
    BY <1>2 DEF NextItem, Look
  <2>2. v \in Versions /\ job.todo \ {v} \in SUBSET Versions
    BY DEF TypeOK, JobSet
  <2>3. job' \in JobSet
    BY <2>1, <2>2 DEF JobSet
  <2> QED BY <2>1, <2>2, <2>3
<1> QED BY <1>1, <1>2

LEMMA ProceedTypeOK ==
    ASSUME TypeOK, NEW c \in Creates, Proceed(c)
    PROVE  TypeOK'
<1> USE GithubAssumption DEF TypeOK, Goto, Answer, SetRow, Fault, InFlight, table, remote, local, calls, jobs
<1>1. CASE SelectExisting(c) BY <1>1 DEF SelectExisting
<1>2. CASE UpsertPending(c) BY <1>2 DEF UpsertPending
<1>3. CASE GetBase(c)
  <2>1. PICK b \in Content : gh' = [gh EXCEPT ![c].base = b]
    <3>1. repo[version[c]] \in Content /\ None \in Content
      BY DEF Content
    <3> QED BY <1>3, <3>1 DEF GetBase
  <2>2. [gh[c] EXCEPT !.base = b] \in GhSet
    <3>1. gh[c] \in GhSet
      OBVIOUS
    <3> HIDE DEF TypeOK
    <3> QED BY <3>1 DEF GhSet
  <2>3. gh' \in [Creates -> GhSet]
    BY <2>1, <2>2
  <2> QED BY <1>3, <2>3 DEF GetBase
<1>4. CASE Fire(c) BY ZenonT(40), <1>4 DEF Fire, GhSet
<1>5. CASE BreakerRejects(c) BY <1>5 DEF BreakerRejects
<1>6. CASE ContentAnswered(c) BY <1>6 DEF ContentAnswered
<1>7. CASE Index(c) BY <1>7 DEF Index
<1>8. CASE Revert(c) BY <1>8 DEF Revert, Content
<1>9. CASE Activate(c) BY <1>9 DEF Activate
<1>10. CASE Commit(c) BY <1>10 DEF Commit
<1>11. CASE StatementFails(c) BY <1>11 DEF StatementFails
<1> QED BY <1>1, <1>2, <1>3, <1>4, <1>5, <1>6, <1>7, <1>8, <1>9, <1>10, <1>11 DEF Proceed

LEMMA ContentCallTypeOK ==
    ASSUME TypeOK, NEW c \in Creates, ContentCall(c)
    PROVE  TypeOK'
<1> USE GithubAssumption
    DEF TypeOK, GhStep, GhEnds, Off, GhSet, Content, Fault, table, remote, local, calls, jobs
<1>1. CASE Put(c) BY <1>1 DEF Put
<1>2. CASE ReadHead(c) BY <1>2 DEF ReadHead
<1>3. CASE CreateTag(c) BY SMTT(40), <1>3 DEF CreateTag
<1>4. CASE RequestFails(c)
  <2>1. gh' \in [Creates -> GhSet]
    BY <1>4 DEF RequestFails, Throttled
  <2>2. repo' \in [Versions -> Content] /\ tags' \in [Versions -> Content \union {NoTag}]
    BY <1>4 DEF RequestFails
  <2> QED BY <1>4, <2>1, <2>2 DEF RequestFails
<1> QED BY <1>1, <1>2, <1>3, <1>4 DEF ContentCall

LEMMA RunsTypeOK ==
    ASSUME TypeOK, (\E s \in Syncs : Sync(s)) \/ Reconcile
    PROVE  TypeOK'
<1> USE GithubAssumption DEF TypeOK, Fault, table, remote, local, calls, jobs
<1>1. ASSUME NEW p \in Syncs \union {Job}, StartClone(p) PROVE TypeOK'
  BY <1>1 DEF StartClone
<1>2. ASSUME NEW p \in Syncs \union {Job}, EndClone(p) PROVE TypeOK'
  <2>1. job' \in JobSet /\ (job'.step # "idle" => job'.item \in Versions)
    BY <1>2, NextItemType DEF EndClone
  <2> QED BY <1>2, <2>1 DEF EndClone, CopyRemote
<1>3. CASE Pull
  BY <1>3 DEF Pull, CopyRemote
<1>4. CASE JobReads
  BY <1>4 DEF JobReads, Look, JobSet
<1>5. CASE JobLooks
  <2>1. CASE StartClone(Job) BY <2>1, <1>1
  <2>2. CASE ~StartClone(Job) 
    <3>1. PICK found \in BOOLEAN : job' = [job EXCEPT !.step = "apply", !.found = found]
      BY <1>5, <2>2 DEF JobLooks, InClone
    <3>2. job' \in JobSet /\ job'.item \in Versions
      BY <1>5, <3>1 DEF JobLooks, JobSet
    <3> QED BY <1>5, <2>2, <3>2 DEF JobLooks
  <2> QED BY <2>1, <2>2
<1>6. CASE JobApplies
  BY <1>6, NextItemType DEF JobApplies, SetRow
<1>7. CASE JobSkips
  BY <1>7, NextItemType DEF JobSkips
<1> QED BY <1>1, <1>2, <1>3, <1>4, <1>5, <1>6, <1>7 DEF Sync, Reconcile

LEMMA NextTypeOK == TypeOK /\ [Next]_vars => TypeOK'
<1> SUFFICES ASSUME TypeOK, [Next]_vars PROVE TypeOK'
  OBVIOUS
<1>1. ASSUME NEW v \in Versions, RowAges(v) PROVE TypeOK'
  BY <1>1 DEF RowAges, SetRow, TypeOK, remote, local, calls, jobs
<1>2. CASE Crash
  BY <1>2, GithubAssumption
  DEF Crash, Fault, TypeOK, GhSet, Off, Content, JobSet, IdleJob, InFlight, table, remote
<1>3. CASE UNCHANGED vars
  BY <1>3 DEF vars, TypeOK, table, remote, local, calls, jobs
<1> QED BY <1>1, <1>2, <1>3, ProceedTypeOK, ContentCallTypeOK, RunsTypeOK DEF Next

\* Every variable of the GitHub write path keeps its type, and a content call never makes
\* more than its attempts.
THEOREM TypeCorrect == Spec => []TypeOK
BY InitTypeOK, NextTypeOK, PTL DEF Spec

-----------------------------------------------------------------------------
(* The inductive invariant.                                                *)

Returned(c) == gh[c].step = "returned"

\* The request of a content call that returned has not failed since.
Holds(c) == Returned(c) /\ (pc[c] # "done" \/ Acked(c))

\* A request and its content call: none before the breaker lets it through; past it only
\* with one that returned.
CallInv ==
    \A c \in Creates :
        /\ pc[c] \in {"idle", "upsert", "base", "fire"} => gh[c].step = "off"
        /\ pc[c] \in {"index", "revert", "activate", "commit"} \/ Acked(c) => Returned(c)

\* The call that returned has made the version's tag.
OneTagger ==
    /\ \A c \in Creates : Returned(c) => tags[version[c]] # NoTag
    /\ \A c, d \in Creates : Returned(c) /\ Returned(d) /\ version[c] = version[d] => c = d

\* Until then the file that was put stays, and the commit read after it contains it.
PutStays ==
    \A c \in Creates : tags[version[c]] = NoTag =>
        /\ gh[c].step \in {"head", "tag"} => repo[version[c]] # None
        /\ gh[c].step = "tag" => gh[c].head # None

Kept == \A c \in Creates : Holds(c) => repo[version[c]] # None

RepoInv == CallInv /\ OneTagger /\ PutStays /\ Kept /\ TagNamesContent

LEMMA InitRepoInv == Init => RepoInv
BY GithubAssumption
DEF Init, RepoInv, CallInv, OneTagger, PutStays, Kept, TagNamesContent, Returned, Holds, Acked, Off

LEMMA ProceedRepoInv ==
    ASSUME TypeOK, RepoInv, NEW c \in Creates, Proceed(c)
    PROVE  RepoInv'
<1> USE DEF TypeOK, RepoInv, CallInv, OneTagger, PutStays, Kept, TagNamesContent, Returned, Holds,
        Acked, Goto, Answer, remote
<1>1. CASE SelectExisting(c) BY <1>1 DEF SelectExisting
<1>2. CASE UpsertPending(c) BY <1>2 DEF UpsertPending
<1>3. CASE GetBase(c)
  <2>1. PICK b \in Content : gh' = [gh EXCEPT ![c].base = b]
    BY <1>3 DEF GetBase, Content
  <2>2. \A d \in Creates : gh'[d].step = gh[d].step /\ gh'[d].head = gh[d].head
    BY <2>1 DEF GhSet
  <2> QED BY SMTT(40), <1>3, <2>2 DEF GetBase
<1>4. CASE Fire(c) BY <1>4 DEF Fire, GhSet
<1>5. CASE BreakerRejects(c) BY <1>5 DEF BreakerRejects
<1>6. CASE ContentAnswered(c) BY <1>6 DEF ContentAnswered
<1>7. CASE Index(c) BY <1>7 DEF Index
<1>8. CASE Revert(c)
  <2>1. Returned(c) /\ tags[version[c]] # NoTag
    BY <1>8 DEF Revert
  <2>2. \A d \in Creates : Returned(d) /\ version[d] = version[c] => d = c
    BY <2>1
  <2>3. \A v \in Versions : v # version[c] => repo'[v] = repo[v]
    BY <1>8 DEF Revert
  <2>4. PutStays'
    BY <1>8, <2>1, <2>3 DEF Revert
  <2>5. Kept'
    BY <1>8, <2>2, <2>3 DEF Revert
  <2>6. CallInv' /\ OneTagger' /\ TagNamesContent'
    BY <1>8 DEF Revert
  <2> QED BY <2>4, <2>5, <2>6
<1>9. CASE Activate(c) BY <1>9 DEF Activate
<1>10. CASE Commit(c) BY <1>10 DEF Commit
<1>11. CASE StatementFails(c) BY <1>11 DEF StatementFails
<1> QED BY <1>1, <1>2, <1>3, <1>4, <1>5, <1>6, <1>7, <1>8, <1>9, <1>10, <1>11 DEF Proceed

LEMMA ContentCallRepoInv ==
    ASSUME TypeOK, RepoInv, NEW c \in Creates, ContentCall(c)
    PROVE  RepoInv'
<1> USE GithubAssumption
    DEF RepoInv, CallInv, OneTagger, PutStays, Kept, TagNamesContent, Returned, Holds, Acked,
        GhStep, GhEnds, Off, remote
<1>0. /\ gh \in [Creates -> GhSet] /\ version \in [Creates -> Versions]
      /\ repo \in [Versions -> Content] /\ tags \in [Versions -> Content \union {NoTag}]
      /\ c # None
  BY DEF TypeOK
<1>1. CASE Put(c)
  <2>1. gh[c].step = "put" /\ ~Returned(c)
    BY <1>1 DEF Put
  <2>2. \A v \in Versions : repo'[v] # None \/ repo'[v] = repo[v]
    BY <1>1, <1>0 DEF Put
  <2>3. /\ gh'[c].step = "head" /\ repo'[version[c]] # None
        \/ gh'[c].step = "threw"
    BY <1>1, <1>0 DEF Put, GhSet
  <2>4. \A d \in Creates : d # c => gh'[d] = gh[d]
    BY <1>1, <1>0 DEF Put
  <2>5. UNCHANGED <<tags, pc, reply, version>>
    BY <1>1 DEF Put
  <2>6. CallInv' /\ OneTagger' /\ TagNamesContent'
    BY <2>1, <2>3, <2>4, <2>5
  <2>7. PutStays' /\ Kept'
    BY <1>0, <2>1, <2>2, <2>3, <2>4, <2>5
  <2> QED BY <2>6, <2>7
<1>2. CASE ReadHead(c)
  <2>1. gh[c].step = "head" /\ UNCHANGED <<repo, tags, pc, reply, version>>
    BY <1>2 DEF ReadHead
  <2>2. gh'[c].step = "tag" /\ gh'[c].head \in {repo[version[c]], NoTag}
    BY <1>2, <1>0 DEF ReadHead, GhSet
  <2>3. \A d \in Creates : d # c => gh'[d] = gh[d]
    BY <1>2, <1>0 DEF ReadHead
  <2>4. CallInv' /\ OneTagger' /\ TagNamesContent' /\ Kept'
    BY <2>1, <2>2, <2>3
  <2>5. PutStays'
    BY <2>1, <2>2, <2>3
  <2> QED BY <2>4, <2>5
<1>3. ASSUME gh[c].step = "tag", tags[version[c]] = NoTag,
             tags' = [tags EXCEPT ![version[c]] = gh[c].head], gh[c].head # NoTag,
             gh'[c].step \in {"returned", "threw"}, \A d \in Creates : d # c => gh'[d] = gh[d],
             UNCHANGED <<repo, pc, reply, version>>
      PROVE  RepoInv'
  <2>1. tags'[version[c]] # NoTag /\ tags'[version[c]] # None
    BY <1>0, <1>3
  <2>2. \A v \in Versions : v # version[c] => tags'[v] = tags[v]
    BY <1>0, <1>3
  <2>3. repo[version[c]] # None
    BY <1>3
  <2>4. \A d \in Creates : version[d] = version[c] => ~Returned(d)
    BY <1>3
  <2>5. CallInv' /\ TagNamesContent'
    BY <1>0, <1>3, <2>1, <2>2
  <2>6. OneTagger'
    BY <1>0, <1>3, <2>1, <2>2, <2>4
  <2>7. PutStays' /\ Kept'
    BY <1>0, <1>3, <2>1, <2>2, <2>3
  <2> QED BY <2>5, <2>6, <2>7
<1>4. ASSUME gh[c].step \notin {"off", "returned"}, gh'[c].step \in {"put", "threw"},
             \A d \in Creates : d # c => gh'[d] = gh[d],
             \A v \in Versions : repo'[v] # None \/ repo'[v] = repo[v],
             UNCHANGED <<tags, pc, reply, version>>
      PROVE  RepoInv'
  <2>1. CallInv' /\ OneTagger' /\ TagNamesContent'
    BY <1>4
  <2>2. PutStays' /\ Kept'
    BY <1>0, <1>4
  <2> QED BY <2>1, <2>2
<1>5. CASE CreateTag(c)
  <2>1. CASE tags[version[c]] = NoTag /\ gh[c].head # NoTag
    BY <1>0, <1>3, <1>5, <2>1 DEF CreateTag
  <2>2. CASE ~(tags[version[c]] = NoTag /\ gh[c].head # NoTag)
    BY <1>0, <1>4, <1>5, <2>2 DEF CreateTag
  <2> QED BY <2>1, <2>2
<1>6. CASE RequestFails(c)
  <2>1. gh[c].step \in {"put", "tag"} /\ UNCHANGED <<pc, reply, version>>
    BY <1>6 DEF RequestFails
  <2>2. gh'[c].step \in {"put", "threw"} /\ \A d \in Creates : d # c => gh'[d] = gh[d]
    BY <1>0, <1>6 DEF RequestFails, Throttled, GhSet
  <2>3. CASE UNCHANGED remote
    BY <1>4, <2>1, <2>2, <2>3
  <2>4. CASE repo' = [repo EXCEPT ![version[c]] = c] /\ UNCHANGED tags
    BY <1>0, <1>4, <2>1, <2>2, <2>4
  <2>5. CASE /\ gh[c].step = "tag" /\ tags[version[c]] = NoTag /\ gh[c].head # NoTag
             /\ tags' = [tags EXCEPT ![version[c]] = gh[c].head] /\ UNCHANGED repo
             /\ gh'[c].step = "threw"
    BY <1>3, <2>1, <2>2, <2>5
  <2>6. \/ UNCHANGED remote
        \/ repo' = [repo EXCEPT ![version[c]] = c] /\ UNCHANGED tags
        \/ /\ gh[c].step = "tag" /\ tags[version[c]] = NoTag /\ gh[c].head # NoTag
           /\ tags' = [tags EXCEPT ![version[c]] = gh[c].head] /\ UNCHANGED repo
           /\ gh'[c].step = "threw"
    BY <1>0, <1>6 DEF RequestFails
  <2> QED BY <2>3, <2>4, <2>5, <2>6
<1> QED BY <1>1, <1>2, <1>5, <1>6 DEF ContentCall

\* What the other actions leave alone is all that the invariant is about.
LEMMA UntouchedRepoInv ==
    ASSUME RepoInv, UNCHANGED <<repo, tags, pc, version, gh, reply>>
    PROVE  RepoInv'
BY DEF RepoInv, CallInv, OneTagger, PutStays, Kept, TagNamesContent, Returned, Holds, Acked

LEMMA CrashRepoInv ==
    ASSUME TypeOK, RepoInv, Crash
    PROVE  RepoInv'
<1> USE DEF RepoInv, CallInv, OneTagger, PutStays, Kept, TagNamesContent, Returned, Holds, Acked, remote
<1>1. UNCHANGED <<repo, tags, version>>
  BY DEF Crash
<1>2. \A c \in Creates : gh'[c] = gh[c] \/ (gh[c].step \in {"put", "head", "tag"} /\ gh'[c].step = "threw")
  BY DEF Crash, Off
<1>3. \A c \in Creates : \/ pc[c] \in InFlight /\ pc'[c] = "done" /\ reply'[c] = "lost"
                         \/ pc[c] \notin InFlight /\ pc'[c] = pc[c] /\ reply'[c] = reply[c]
  BY DEF Crash
<1>4. CallInv'
  BY <1>2, <1>3 DEF InFlight
<1>5. OneTagger' /\ TagNamesContent' /\ PutStays'
  BY <1>1, <1>2
<1>6. Kept'
  BY <1>1, <1>2, <1>3 DEF InFlight
<1> QED BY <1>4, <1>5, <1>6

LEMMA NextRepoInv == TypeOK /\ RepoInv /\ [Next]_vars => RepoInv'
<1> SUFFICES ASSUME TypeOK, RepoInv, [Next]_vars PROVE RepoInv'
  OBVIOUS
<1> USE DEF remote, local, calls, table
<1>1. ASSUME NEW s \in Syncs, Sync(s) PROVE RepoInv'
  BY <1>1, UntouchedRepoInv DEF Sync, StartClone, EndClone, Pull
<1>2. CASE Reconcile
  BY <1>2, UntouchedRepoInv DEF Reconcile, StartClone, EndClone, JobReads, JobLooks, JobApplies, JobSkips
<1>3. ASSUME NEW v \in Versions, RowAges(v) PROVE RepoInv'
  BY <1>3, UntouchedRepoInv DEF RowAges
<1>4. CASE UNCHANGED vars
  BY <1>4, UntouchedRepoInv DEF vars
<1> QED BY <1>1, <1>2, <1>3, <1>4, ProceedRepoInv, ContentCallRepoInv, CrashRepoInv DEF Next

\* Two creates of one version are never both answered 201, whatever requests fail, are
\* throttled or outlived by their content calls, and whenever the process crashes.
THEOREM AckedAtMostOnce == Spec => []AckedOnce
<1>1. RepoInv => AckedOnce
  BY DEF RepoInv, CallInv, OneTagger, AckedOnce
<1> QED BY <1>1, InitTypeOK, NextTypeOK, InitRepoInv, NextRepoInv, PTL DEF Spec

\* The file of a version that was answered 201 stays in the repository, and the commit
\* that a version's tag names contains the version.
THEOREM RepositoryKeeps == Spec => [](AckedStaysInRepo /\ TagNamesContent)
<1>1. TypeOK /\ RepoInv => AckedStaysInRepo /\ TagNamesContent
  BY DEF RepoInv, CallInv, Kept, Holds, AckedStaysInRepo
<1> QED BY <1>1, InitTypeOK, NextTypeOK, InitRepoInv, NextRepoInv, PTL DEF Spec
=============================================================================
