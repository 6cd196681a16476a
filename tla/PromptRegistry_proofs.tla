------------------------ MODULE PromptRegistry_proofs ------------------------
(***************************************************************************)
(* Theorems about the write path of the prompt registry, for any number of *)
(* create calls, keys, workspaces and overlapping reconciliation runs.     *)
(***************************************************************************)
EXTENDS PromptRegistry, TLAPS

(***************************************************************************)
(* Type correctness.                                                       *)
(***************************************************************************)

\* The states where the system starts satisfy the invariant.
LEMMA InitTypeOK == Init => TypeOK
BY ConfigAssumption DEF Init, TypeOK, IdleJob, LookJob, JobSet, InFlight

\* A reconciliation run stays well typed after an item.
LEMMA NextItemType ==
    ASSUME TypeOK, NEW j \in Jobs
    PROVE  NextItem(j) \in JobSet /\ NextItem(j).pc # "apply"
BY DEF TypeOK, NextItem, IdleJob, LookJob, JobSet

\* A rollback keeps what it writes well typed and releases the transaction.
LEMMA RollbackType ==
    ASSUME TypeOK, NEW c \in Creates, NEW code \in {"400", "500"},
           pc[c] \in InFlight, Rollback(c, code)
    PROVE  /\ rows' \in [Keys -> RowSet \union {NoRow}]
           /\ tx' \in [Keys -> RowSet \union {NoRow}] \union {NoTx}
           /\ turn' \in Creates \union Jobs \union {Free}
           /\ pc' = [pc EXCEPT ![c] = "done"]
           /\ reply' \in [Creates -> {"none", "201", "400", "500", "lost"}]
BY DEF TypeOK, Rollback, CommittedRows, Goto, Answer, InFlight

\* Every step of a create call keeps the invariant.
LEMMA CreateTypeOK ==
    ASSUME TypeOK, NEW c \in Creates, Proceed(c)
    PROVE  TypeOK'
<1> USE DEF InFlight, At, Goto, Answer, AfterStatement, AfterDriver
<1>1. CASE SelectExisting(c)
  <2>1. CASE Rollback(c, "400")
    BY <1>1, <2>1, RollbackType DEF SelectExisting, TypeOK
  <2>2. CASE ~Rollback(c, "400")
    BY <1>1, <2>2 DEF SelectExisting, TypeOK
  <2> QED BY <2>1, <2>2
<1>2. CASE UpsertPending(c)
  BY <1>2 DEF UpsertPending, TypeOK, Row, RowSet, TargetSet, Status
<1>3. CASE DriverWrites(c)
  BY <1>3 DEF DriverWrites, TypeOK
<1>4. CASE DriverFails(c)
  <2>1. PICK left \in Leftovers(c) : store' = [store EXCEPT ![target[c].key] = left]
    BY <1>4 DEF DriverFails
  <2>2. Leftovers(c) \subseteq Creates \union {NoContent}
    BY <1>4 DEF DriverFails, Leftovers, TypeOK, TargetSet
  <2>3. store' \in [Keys -> Creates \union {NoContent}]
    BY <2>1, <2>2 DEF TypeOK
  <2> QED BY <1>4, <2>3, RollbackType DEF DriverFails, TypeOK
<1>5. CASE DriverIndexes(c)
  <2>1. CASE Backend = "sqlite"
    <3>1. Rollback(c, "500") /\ pc[c] \in InFlight
      BY <1>5, <2>1 DEF DriverIndexes
    <3> QED BY <1>5, <3>1, RollbackType DEF DriverIndexes, TypeOK
  <2>2. CASE Backend # "sqlite"
    <3> DEFINE k == target[c].key
               row == IF rows[k] = NoRow THEN Row(DefaultWs, "active", FALSE)
                      ELSE Row(rows[k].ws, rows[k].status, FALSE)
    <3>1. k \in Keys /\ rows[k] \in RowSet \union {NoRow}
      BY <1>5 DEF DriverIndexes, TypeOK, TargetSet
    <3>2. row \in RowSet
      BY <3>1, ConfigAssumption DEF Row, RowSet, Status
    <3>3. rows' = [rows EXCEPT ![k] = row]
      BY <1>5, <2>2 DEF DriverIndexes
    <3>4. rows' \in [Keys -> RowSet \union {NoRow}]
      BY <3>2, <3>3 DEF TypeOK
    <3> QED BY <1>5, <2>2, <3>4 DEF DriverIndexes, TypeOK
  <2> QED BY <2>1, <2>2
<1>6. CASE Activate(c)
  BY <1>6 DEF Activate, Activated, TypeOK, Row, RowSet, TargetSet, Status
<1>7. CASE Commit(c)
  BY <1>7 DEF Commit, TypeOK
<1>8. CASE StatementFails(c)
  BY <1>8, RollbackType DEF StatementFails, TypeOK
<1> QED BY <1>1, <1>2, <1>3, <1>4, <1>5, <1>6, <1>7, <1>8 DEF Proceed

\* Every step of a reconciliation run keeps the invariant.
LEMMA ReconcileTypeOK ==
    ASSUME TypeOK, NEW j \in Jobs, Reconcile(j)
    PROVE  TypeOK'
<1> USE NextItemType DEF TypeOK, AfterStatement, AfterDriver
<1>1. CASE JobReads(j)
  BY <1>1 DEF JobReads, StalePending, IdleJob, LookJob, JobSet
<1>2. CASE JobLooks(j)
  <2>1. PICK i \in job[j].todo, found \in BOOLEAN :
          job' = [job EXCEPT ![j] = [pc |-> "apply", todo |-> @.todo \ {i},
                                     item |-> i, found |-> found]]
    BY <1>2 DEF JobLooks
  <2>2. i \in ItemSet /\ job[j].todo \ {i} \in SUBSET ItemSet
    BY DEF JobSet
  <2>3. job' \in [Jobs -> JobSet]
    BY <2>1, <2>2 DEF JobSet
  <2> QED BY <1>2, <2>1, <2>2, <2>3 DEF JobLooks
<1>3. CASE JobApplies(j)
  BY <1>3 DEF JobApplies, JobSet, ItemSet, Activated, Row, RowSet, Status
<1>4. CASE JobSkips(j)
  BY <1>4, ConfigAssumption DEF JobSkips
<1> QED BY <1>1, <1>2, <1>3, <1>4 DEF Reconcile

\* Every step keeps the invariant.
LEMMA NextTypeOK == TypeOK /\ [Next]_vars => TypeOK'
<1> SUFFICES ASSUME TypeOK, [Next]_vars PROVE TypeOK'
  OBVIOUS
<1>1. ASSUME NEW c \in Creates, NEW k \in Keys, NEW ws \in Workspaces, Begin(c, k, ws)
      PROVE  TypeOK'
  BY <1>1, DistinctAssumption
  DEF Begin, TypeOK, At, Goto, Answer, AfterStatement, TargetSet, InFlight
<1>2. ASSUME NEW c \in Creates, Proceed(c) PROVE TypeOK'
  BY <1>2, CreateTypeOK
<1>3. ASSUME NEW j \in Jobs, Reconcile(j) PROVE TypeOK'
  BY <1>3, ReconcileTypeOK
<1>4. ASSUME NEW k \in Keys, RowAges(k) PROVE TypeOK'
  BY <1>4 DEF RowAges, IsPending, TypeOK, Row, RowSet, Status
<1>5. CASE Crash
  BY <1>5, ConfigAssumption
  DEF Crash, CommittedRows, TypeOK, InFlight, IdleJob, LookJob, JobSet
<1>6. CASE UNCHANGED vars
  BY <1>6 DEF vars, TypeOK
<1> QED BY <1>1, <1>2, <1>3, <1>4, <1>5, <1>6 DEF Next, AllAnswered

\* The variables keep their types on both databases and both drivers.
THEOREM TypeCorrect == Spec => []TypeOK
BY InitTypeOK, NextTypeOK, PTL DEF Spec

-----------------------------------------------------------------------------
(***************************************************************************)
(* A networked object store.  The S3 driver never takes content back, so a *)
(* row becomes active only over content that stays, on either database.    *)
(***************************************************************************)
ContentInv ==
    /\ ActiveHasContent
    /\ tx # NoTx => \A k \in Keys :
          tx[k] # NoRow /\ tx[k].status = "active" => store[k] # NoContent
    /\ \A c \in Creates :
          pc[c] \in {"index", "activate", "commit"} => store[target[c].key] # NoContent
    /\ \A j \in Jobs :
          job[j].pc = "apply" /\ job[j].found => store[job[j].item[1]] # NoContent

LEMMA InitContentInv == Init => ContentInv
BY DEF Init, ContentInv, ActiveHasContent, IsActive, IdleJob

\* A step of a create call keeps active rows over content.
LEMMA CreateContentInv ==
    ASSUME Driver = "s3", TypeOK, ContentInv, NEW c \in Creates, Proceed(c)
    PROVE  ContentInv'
<1> DEFINE k == target[c].key
<1> USE DEF ContentInv, ActiveHasContent, IsActive, At, Goto, Answer
<1>0. ASSUME pc[c] # "idle" PROVE k \in Keys
  BY <1>0 DEF TypeOK, TargetSet
<1>1. CASE SelectExisting(c)
  BY <1>1, <1>0 DEF SelectExisting, Rollback, CommittedRows, TypeOK, InFlight
<1>2. CASE UpsertPending(c)
  BY <1>2, <1>0 DEF UpsertPending, Row, TypeOK
<1>3. CASE DriverWrites(c)
  BY <1>3, <1>0, DistinctAssumption DEF DriverWrites, TypeOK
<1>4. CASE DriverFails(c)
  BY <1>4, <1>0, DistinctAssumption
  DEF DriverFails, Leftovers, Rollback, CommittedRows, TypeOK, InFlight
<1>5. CASE DriverIndexes(c)
  BY <1>5, <1>0 DEF DriverIndexes, Rollback, CommittedRows, Row, TypeOK, InFlight
<1>6. CASE Activate(c)
  BY <1>6, <1>0 DEF Activate, Activated, Row, TypeOK
<1>7. CASE Commit(c)
  BY <1>7, <1>0 DEF Commit, TypeOK
<1>8. CASE StatementFails(c)
  BY <1>8, <1>0 DEF StatementFails, Rollback, CommittedRows, TypeOK, InFlight
<1> QED BY <1>1, <1>2, <1>3, <1>4, <1>5, <1>6, <1>7, <1>8 DEF Proceed

\* A step of a reconciliation run keeps active rows over content: it promotes what
\* getPrompt found, and nothing took that away since.
LEMMA ReconcileContentInv ==
    ASSUME TypeOK, ContentInv, NEW j \in Jobs, Reconcile(j)
    PROVE  ContentInv'
<1> USE DEF ContentInv, ActiveHasContent, IsActive
<1>1. CASE JobReads(j)
  BY <1>1 DEF JobReads, LookJob, TypeOK
<1>2. CASE JobLooks(j)
  <2>1. PICK i \in job[j].todo, found \in BOOLEAN :
          /\ found => store[i[1]] # NoContent
          /\ job' = [job EXCEPT ![j] = [pc |-> "apply", todo |-> @.todo \ {i},
                                        item |-> i, found |-> found]]
    BY <1>2 DEF JobLooks
  <2>2. \A h \in Jobs : h # j => job'[h] = job[h]
    BY <2>1 DEF TypeOK
  <2>3. job'[j].found = found /\ job'[j].item = i
    BY <2>1 DEF TypeOK
  <2> QED BY <1>2, <2>1, <2>2, <2>3 DEF JobLooks
<1>3. CASE JobApplies(j)
  <2>1. job[j].item[1] \in Keys
    BY <1>3 DEF JobApplies, TypeOK, ItemSet
  <2>2. \A k \in Keys : rows'[k] # NoRow /\ rows'[k].status = "active"
                           => store[k] # NoContent
    BY <1>3, <2>1 DEF JobApplies, Activated, Row, TypeOK
  <2>3. \A i \in Jobs : job'[i].pc = "apply" => job'[i] = job[i]
    BY <1>3, NextItemType DEF JobApplies, TypeOK
  <2> QED BY <1>3, <2>2, <2>3 DEF JobApplies
<1>4. CASE JobSkips(j)
  BY <1>4, NextItemType DEF JobSkips, TypeOK
<1> QED BY <1>1, <1>2, <1>3, <1>4 DEF Reconcile

\* Every step keeps active rows over content.
LEMMA NextContentInv ==
    ASSUME Driver = "s3"
    PROVE  TypeOK /\ ContentInv /\ [Next]_vars => ContentInv'
<1> SUFFICES ASSUME TypeOK, ContentInv, [Next]_vars PROVE ContentInv'
  OBVIOUS
<1> USE DEF ContentInv, ActiveHasContent, IsActive
<1>1. ASSUME NEW c \in Creates, NEW k \in Keys, NEW ws \in Workspaces, Begin(c, k, ws)
      PROVE  ContentInv'
  BY <1>1 DEF Begin, TypeOK, At, Goto, Answer
<1>2. ASSUME NEW c \in Creates, Proceed(c) PROVE ContentInv'
  BY <1>2, CreateContentInv
<1>3. ASSUME NEW j \in Jobs, Reconcile(j) PROVE ContentInv'
  BY <1>3, ReconcileContentInv
<1>4. ASSUME NEW k \in Keys, RowAges(k) PROVE ContentInv'
  <2>1. rows' = [rows EXCEPT ![k] = Row(rows[k].ws, "pending", TRUE)]
    BY <1>4 DEF RowAges
  <2>2. Row(rows[k].ws, "pending", TRUE).status # "active"
    BY DEF Row
  <2>3. \A l \in Keys : l # k => rows'[l] = rows[l]
    BY <2>1 DEF TypeOK
  <2> QED BY <1>4, <2>1, <2>2, <2>3 DEF RowAges, TypeOK
<1>5. CASE Crash
  <2>1. PICK left \in [Keys -> Creates \union {NoContent}] :
          /\ \A k \in Keys :
                left[k] \in {store[k]} \union UNION {Leftovers(c) : c \in Writing(k)}
          /\ store' = left
    BY <1>5 DEF Crash
  <2>2. \A k \in Keys : \A c \in Writing(k) : \A x \in Leftovers(c) :
          x = store[k] \/ x # NoContent
    BY DistinctAssumption DEF Writing, Leftovers
  <2>3. \A k \in Keys : store[k] # NoContent => store'[k] # NoContent
    BY <2>1, <2>2
  <2> QED BY <1>5, <2>3 DEF Crash, CommittedRows, IdleJob, TypeOK, InFlight
<1>6. CASE UNCHANGED vars
  BY <1>6 DEF vars
<1> QED BY <1>1, <1>2, <1>3, <1>4, <1>5, <1>6 DEF Next, AllAnswered

\* With the S3 driver no active row is ever without content, on either database,
\* whatever overlapping creates, reconciliation runs, failures and crashes do.
THEOREM NetworkedActiveHasContent ==
    ASSUME Driver = "s3"
    PROVE  Spec => []ActiveHasContent
<1>1. TypeOK /\ ContentInv => ActiveHasContent
  BY DEF ContentInv
<1> QED BY <1>1, InitTypeOK, NextTypeOK, InitContentInv, NextContentInv, PTL DEF Spec

-----------------------------------------------------------------------------
(***************************************************************************)
(* The default deployment: SQLite, the filesystem driver, one workspace.   *)
(* A create call keeps the thread from BEGIN to COMMIT, and the table at   *)
(* BEGIN has no active row under the key it writes.                        *)
(***************************************************************************)
DefaultConfig ==
    /\ Backend = "sqlite" /\ Driver = "filesystem"
    /\ Workspaces = {DefaultWs}

\* The thread belongs to the call whose transaction is open.
OneChain ==
    /\ tx = NoTx => turn = Free
    /\ tx # NoTx => turn \in Creates /\ pc[turn] \in InFlight \ {"index"}
    /\ \A c \in Creates : c # turn => pc[c] \in {"idle", "done"}
    /\ \A j \in Jobs : job[j] = IdleJob

\* What that call has done so far: `before' is the row its key had at BEGIN.
Progress(c) ==
    LET k == target[c].key
        before == tx[k]
    IN  /\ \A l \in Keys : l # k => rows[l] = tx[l]
        /\ pc[c] \in {"select", "upsert"} => rows[k] = before
        /\ pc[c] # "select" => before = NoRow
        /\ pc[c] \in {"write", "activate"} => IsPending(k)
        /\ pc[c] = "commit" => IsActive(k)
        /\ pc[c] \in {"activate", "commit"} => store[k] = c

CommittedIsWhole ==
    \A k \in Keys : CommittedRows[k] # NoRow =>
        CommittedRows[k].status = "active" /\ store[k] # NoContent

AckedIsCommitted ==
    \A c \in Creates : reply[c] = "201" =>
        /\ pc[c] = "done"
        /\ CommittedRows[target[c].key] # NoRow
        /\ store[target[c].key] = c

DefaultInv ==
    /\ OneChain
    /\ tx # NoTx => Progress(turn)
    /\ CommittedIsWhole
    /\ AckedIsCommitted
    /\ FailsOnlyOnFault

LEMMA InitDefaultInv == Init => DefaultInv
BY DistinctAssumption
DEF Init, DefaultInv, OneChain, CommittedIsWhole, AckedIsCommitted, CommittedRows, FailsOnlyOnFault

\* A call that begins finds no transaction open and takes the thread.
LEMMA BeginDefaultInv ==
    ASSUME DefaultConfig, TypeOK, DefaultInv,
           NEW c \in Creates, NEW k \in Keys, NEW ws \in Workspaces, Begin(c, k, ws)
    PROVE  DefaultInv'
<1> USE DEF DefaultInv
<1>1. turn \in {Free, c} /\ pc[c] = "idle"
  BY DEF Begin, At, MayRun
<1>2. tx = NoTx
  BY <1>1, DistinctAssumption DEF OneChain, InFlight
<1>3. /\ tx' = rows /\ turn' = c /\ rows' = rows /\ tx' # NoTx
      /\ pc' = [pc EXCEPT ![c] = "select"]
      /\ target' = [target EXCEPT ![c] = [key |-> k, ws |-> ws]]
      /\ UNCHANGED <<store, reply, faulty, job>>
  BY <1>2, DistinctAssumption
  DEF Begin, DefaultConfig, Goto, AfterStatement, TypeOK
<1>4. OneChain'
  BY <1>1, <1>2, <1>3, DistinctAssumption DEF OneChain, InFlight, TypeOK
<1>5. Progress(turn)'
  BY <1>3 DEF Progress, TypeOK
<1>6. CommittedRows' = CommittedRows
  BY <1>2, <1>3 DEF CommittedRows
<1>7. CommittedIsWhole' /\ AckedIsCommitted' /\ FailsOnlyOnFault'
  BY <1>1, <1>3, <1>6 DEF CommittedIsWhole, AckedIsCommitted, FailsOnlyOnFault, TypeOK
<1> QED BY <1>4, <1>5, <1>7

\* The call that proceeds is the one whose transaction is open.
LEMMA ProceedOwnsTx ==
    ASSUME DefaultInv, NEW c \in Creates, pc[c] \notin {"idle", "done"}
    PROVE  turn = c /\ tx # NoTx /\ Progress(c) /\ pc[c] # "index"
BY DistinctAssumption DEF DefaultInv, OneChain, InFlight

\* A rollback brings the committed table back and frees the thread.
LEMMA RollbackDefaultInv ==
    ASSUME DefaultConfig, TypeOK, DefaultInv,
           NEW c \in Creates, pc[c] \notin {"idle", "done"},
           NEW code \in {"400", "500"}, Rollback(c, code),
           code = "500" => c \in faulty',
           faulty \subseteq faulty', UNCHANGED <<target, job>>,
           \A k \in Keys : store'[k] # store[k] => tx[k] = NoRow
    PROVE  DefaultInv'
<1> USE DEF DefaultInv
<1>1. turn = c /\ tx # NoTx
  BY ProceedOwnsTx
<1>2. /\ rows' = tx /\ tx' = NoTx /\ turn' = Free
      /\ pc' = [pc EXCEPT ![c] = "done"]
      /\ reply' = [reply EXCEPT ![c] = code]
  BY <1>1 DEF Rollback, CommittedRows, Goto, Answer
<1>3. OneChain'
  BY <1>1, <1>2, DistinctAssumption DEF OneChain, TypeOK
<1>4. CommittedRows' = CommittedRows /\ CommittedRows = tx
  BY <1>1, <1>2 DEF CommittedRows
<1>5. CommittedIsWhole'
  BY <1>4 DEF CommittedIsWhole
<1>6. AckedIsCommitted'
  <2> SUFFICES ASSUME NEW d \in Creates, reply'[d] = "201"
               PROVE  /\ pc'[d] = "done"
                      /\ CommittedRows'[target'[d].key] # NoRow
                      /\ store'[target'[d].key] = d
    BY DEF AckedIsCommitted
  <2>1. d # c /\ reply[d] = "201"
    BY <1>2 DEF TypeOK
  <2>2. target[d].key \in Keys
    BY <2>1 DEF AckedIsCommitted, TypeOK, TargetSet
  <2> QED BY <1>2, <1>4, <2>1, <2>2 DEF AckedIsCommitted, TypeOK
<1>7. FailsOnlyOnFault'
  BY <1>2 DEF FailsOnlyOnFault, TypeOK
<1> QED BY <1>2, <1>3, <1>5, <1>6, <1>7

\* A statement of the call changes the table it works on and nothing else: what is
\* committed stays as it is.
LEMMA StatementDefaultInv ==
    ASSUME TypeOK, DefaultInv,
           NEW c \in Creates, NEW label \in InFlight \ {"index"},
           pc[c] \notin {"idle", "done"}, Goto(c, label), turn' = c, Progress(c)',
           UNCHANGED <<tx, target, reply, faulty, job>>,
           \A k \in Keys : store'[k] # store[k] =>
               tx[k] = NoRow
    PROVE  DefaultInv'
<1> USE DEF DefaultInv
<1>1. turn = c /\ tx # NoTx
  BY ProceedOwnsTx
<1>2. OneChain'
  BY <1>1 DEF OneChain, Goto, TypeOK
<1>3. CommittedRows' = CommittedRows /\ CommittedRows = tx
  BY <1>1 DEF CommittedRows
<1>4. CommittedIsWhole'
  BY <1>3 DEF CommittedIsWhole
<1>5. AckedIsCommitted'
  <2> SUFFICES ASSUME NEW d \in Creates, reply[d] = "201"
               PROVE  /\ pc'[d] = "done"
                      /\ CommittedRows[target[d].key] # NoRow
                      /\ store'[target[d].key] = d
    BY <1>3 DEF AckedIsCommitted
  <2>1. d # c /\ target[d].key \in Keys
    BY DEF AckedIsCommitted, TypeOK, TargetSet
  <2> QED BY <1>3, <2>1 DEF AckedIsCommitted, Goto, TypeOK
<1>6. FailsOnlyOnFault'
  BY DEF FailsOnlyOnFault
<1> QED BY <1>1, <1>2, <1>4, <1>5, <1>6

\* Every step of a call keeps the invariant.
LEMMA ProceedDefaultInv ==
    ASSUME DefaultConfig, TypeOK, DefaultInv, NEW c \in Creates, Proceed(c)
    PROVE  DefaultInv'
<1> DEFINE k == target[c].key
<1> USE DEF At, InFlight
<1>1. pc[c] \notin {"idle", "done"}
  BY DEF Proceed, SelectExisting, UpsertPending, DriverWrites, DriverFails,
         DriverIndexes, Activate, Commit, StatementFails
<1>2. turn = c /\ tx # NoTx /\ Progress(c) /\ pc[c] # "index"
  BY <1>1, ProceedOwnsTx
<1>3. target[c] \in TargetSet /\ k \in Keys /\ target[c].ws = DefaultWs
  BY <1>1 DEF TypeOK, TargetSet, DefaultConfig
<1>4. \A p : AfterStatement(p) = p /\ AfterDriver(p) = p
  BY DEF DefaultConfig, AfterStatement, AfterDriver
<1>5. CASE SelectExisting(c)
  <2>1. CASE Rollback(c, "400")
    BY <1>1, <1>5, <2>1, RollbackDefaultInv DEF SelectExisting
  <2>2. CASE ~Rollback(c, "400")
    <3>1. /\ ~(IsActive(k) /\ rows[k].ws = DefaultWs)
          /\ Goto(c, "upsert") /\ turn' = c
          /\ UNCHANGED <<rows, tx, reply, store, target, faulty, job, mishaps>>
      BY <1>3, <1>4, <1>5, <2>2 DEF SelectExisting
    <3>2. tx[k] = NoRow
      BY <1>2, <1>3, <1>5, <3>1
      DEF SelectExisting, Progress, IsActive, DefaultInv, CommittedIsWhole, CommittedRows,
          TypeOK, RowSet, DefaultConfig
    <3>3. Progress(c)'
      BY <1>2, <1>5, <3>1, <3>2 DEF SelectExisting, Progress, Goto, TypeOK
    <3> QED BY <1>1, <3>1, <3>3, StatementDefaultInv
  <2> QED BY <2>1, <2>2
<1>6. CASE UpsertPending(c)
  <2>1. /\ rows' = [rows EXCEPT ![k] = Row(DefaultWs, "pending", FALSE)]
        /\ Goto(c, "write") /\ turn' = c
        /\ UNCHANGED <<store, tx, target, reply, faulty, job, mishaps>>
    BY <1>3, <1>4, <1>6 DEF UpsertPending
  <2>2. Row(DefaultWs, "pending", FALSE) # NoRow
    <3>1. Row(DefaultWs, "pending", FALSE) \in RowSet
      BY ConfigAssumption DEF Row, RowSet, Status
    <3> QED BY <3>1, DistinctAssumption
  <2>3. Progress(c)'
    BY <1>2, <1>3, <1>6, <2>1, <2>2
    DEF UpsertPending, Progress, IsPending, Row, Goto, TypeOK
  <2> QED BY <1>1, <2>1, <2>3, StatementDefaultInv
<1>7. CASE DriverWrites(c)
  <2>1. /\ store' = [store EXCEPT ![k] = c]
        /\ Goto(c, "activate") /\ turn' = c
        /\ UNCHANGED <<rows, tx, target, reply, faulty, job, mishaps>>
    BY <1>4, <1>7 DEF DriverWrites, DefaultConfig
  <2>2. Progress(c)'
    BY <1>2, <1>3, <1>7, <2>1 DEF DriverWrites, Progress, IsPending, Goto, TypeOK
  <2>3. \A l \in Keys : store'[l] # store[l] => tx[l] = NoRow
    BY <1>2, <1>7, <2>1 DEF DriverWrites, Progress, TypeOK
  <2> QED BY <1>1, <2>1, <2>2, <2>3, StatementDefaultInv
<1>8. CASE DriverFails(c)
  <2>1. \A l \in Keys : store'[l] # store[l] => tx[l] = NoRow
    BY <1>2, <1>8 DEF DriverFails, Progress, TypeOK
  <2> QED BY <1>1, <1>8, <2>1, RollbackDefaultInv DEF DriverFails
<1>9. CASE Activate(c)
  <2>1. /\ rows[k] # NoRow /\ pc[c] = "activate"
        /\ rows' = [rows EXCEPT ![k] = Activated(k)]
        /\ Goto(c, "commit") /\ turn' = c
        /\ UNCHANGED <<store, tx, target, reply, faulty, job, mishaps>>
    BY <1>2, <1>4, <1>9 DEF Activate, Progress, IsPending
  <2>2. Activated(k) \in RowSet /\ Activated(k).status = "active"
    BY <1>3, <2>1 DEF Activated, Row, RowSet, Status, TypeOK
  <2>3. Progress(c)'
    BY <1>2, <1>3, <2>1, <2>2, DistinctAssumption
    DEF Progress, IsActive, Goto, TypeOK
  <2> QED BY <1>1, <2>1, <2>3, StatementDefaultInv
<1>10. CASE StatementFails(c)
  BY <1>1, <1>10, RollbackDefaultInv DEF StatementFails
<1>11. CASE Commit(c)
  <2> USE DEF DefaultInv
  <2>1. /\ pc[c] = "commit" /\ tx' = NoTx /\ turn' = Free
        /\ pc' = [pc EXCEPT ![c] = "done"] /\ reply' = [reply EXCEPT ![c] = "201"]
        /\ UNCHANGED <<rows, store, target, faulty, job>>
    BY <1>11 DEF Commit, Goto, Answer
  <2>2. OneChain'
    BY <1>2, <2>1, DistinctAssumption DEF OneChain, TypeOK
  <2>3. CommittedRows' = rows /\ CommittedRows = tx
    BY <1>2, <2>1 DEF CommittedRows
  <2>4. CommittedIsWhole'
    BY <1>2, <2>1, <2>3, DistinctAssumption DEF CommittedIsWhole, Progress, IsActive
  <2>5. AckedIsCommitted'
    <3> SUFFICES ASSUME NEW d \in Creates, reply'[d] = "201"
                 PROVE  /\ pc'[d] = "done" /\ rows[target[d].key] # NoRow
                        /\ store[target[d].key] = d
      BY <2>1, <2>3 DEF AckedIsCommitted
    <3>1. CASE d = c
      BY <1>2, <2>1, <3>1 DEF Progress, IsActive, TypeOK
    <3>2. CASE d # c
      <4>1. reply[d] = "201"
        BY <2>1, <3>2 DEF TypeOK
      <4>2. target[d].key \in Keys
        BY <4>1 DEF AckedIsCommitted, TypeOK, TargetSet
      <4>3. target[d].key # k
        BY <1>2, <2>1, <2>3, <3>2, <4>1 DEF AckedIsCommitted, Progress
      <4> QED BY <1>2, <2>1, <2>3, <3>2, <4>1, <4>2, <4>3
              DEF AckedIsCommitted, Progress, TypeOK
    <3> QED BY <3>1, <3>2
  <2>6. FailsOnlyOnFault'
    BY <2>1 DEF FailsOnlyOnFault, TypeOK
  <2> QED BY <2>1, <2>2, <2>4, <2>5, <2>6
<1> QED BY <1>2, <1>5, <1>6, <1>7, <1>8, <1>9, <1>10, <1>11 DEF Proceed, DriverIndexes

\* Outside a call's transaction no row is pending, so the reconciliation job finds
\* nothing to do.
LEMMA NothingToReconcile ==
    ASSUME DefaultInv
    PROVE  (\A j \in Jobs : ~Reconcile(j)) /\ (\A k \in Keys : ~RowAges(k))
<1>1. ASSUME NEW p \in Jobs \union {Free}, MayRun(p)
      PROVE  \A k \in Keys : ~IsPending(k)
  <2>1. tx = NoTx
    BY <1>1, DistinctAssumption DEF DefaultInv, OneChain, MayRun
  <2> QED BY <2>1 DEF DefaultInv, CommittedIsWhole, CommittedRows, IsPending
<1>2. ASSUME NEW j \in Jobs, Reconcile(j) PROVE FALSE
  <2>1. job[j].pc = "idle"
    BY DEF DefaultInv, OneChain, IdleJob
  <2>2. JobReads(j)
    BY <1>2, <2>1 DEF Reconcile, JobLooks, JobApplies, JobSkips
  <2>3. StalePending = {}
    BY <1>1, <2>2 DEF JobReads, StalePending, ItemSet
  <2> QED BY <2>2, <2>3 DEF JobReads
<1>3. ASSUME NEW k \in Keys, RowAges(k) PROVE FALSE
  BY <1>1, <1>3 DEF RowAges, MayRun
<1> QED BY <1>2, <1>3

\* Every step keeps the invariant.
LEMMA NextDefaultInv ==
    ASSUME DefaultConfig
    PROVE  TypeOK /\ DefaultInv /\ [Next]_vars => DefaultInv'
<1> SUFFICES ASSUME TypeOK, DefaultInv, [Next]_vars PROVE DefaultInv'
  OBVIOUS
<1>1. ASSUME NEW c \in Creates, NEW k \in Keys, NEW ws \in Workspaces, Begin(c, k, ws)
      PROVE  DefaultInv'
  BY <1>1, BeginDefaultInv
<1>2. ASSUME NEW c \in Creates, Proceed(c) PROVE DefaultInv'
  BY <1>2, ProceedDefaultInv
<1>3. CASE Crash
  <2>1. /\ rows' = CommittedRows /\ tx' = NoTx /\ turn' = Free
        /\ pc' = [c \in Creates |-> IF pc[c] \in InFlight THEN "done" ELSE pc[c]]
        /\ reply' = [c \in Creates |-> IF pc[c] \in InFlight THEN "lost" ELSE reply[c]]
        /\ job' = [j \in Jobs |-> IdleJob]
        /\ UNCHANGED <<target, faulty>>
    BY <1>3 DEF Crash
  <2>2. OneChain'
    BY <2>1, DistinctAssumption DEF OneChain, TypeOK, InFlight
  <2>3. CommittedRows' = CommittedRows
    BY <2>1 DEF CommittedRows
  <2>4. ASSUME NEW k \in Keys, store'[k] # store[k] PROVE CommittedRows[k] = NoRow
    <3>1. PICK c \in Writing(k) : TRUE
      BY <1>3, <2>4 DEF Crash
    <3>2. c \in Creates /\ pc[c] = "write" /\ target[c].key = k
      BY DEF Writing
    <3>3. turn = c /\ tx # NoTx /\ Progress(c)
      BY <3>2, ProceedOwnsTx
    <3> QED BY <3>2, <3>3 DEF Progress, CommittedRows
  <2>5. CommittedIsWhole'
    BY <2>3, <2>4 DEF DefaultInv, CommittedIsWhole
  <2>6. AckedIsCommitted'
    <3> SUFFICES ASSUME NEW d \in Creates, reply'[d] = "201"
                 PROVE  /\ pc'[d] = "done" /\ CommittedRows[target[d].key] # NoRow
                        /\ store'[target[d].key] = d
      BY <2>1, <2>3 DEF AckedIsCommitted
    <3>1. reply[d] = "201"
      BY <2>1
    <3>2. target[d].key \in Keys
      BY <3>1 DEF DefaultInv, AckedIsCommitted, TypeOK, TargetSet
    <3> QED BY <2>1, <2>4, <3>1, <3>2 DEF DefaultInv, AckedIsCommitted, InFlight
  <2>7. FailsOnlyOnFault'
    BY <2>1 DEF DefaultInv, FailsOnlyOnFault
  <2> QED BY <2>1, <2>2, <2>5, <2>6, <2>7 DEF DefaultInv
<1>4. CASE UNCHANGED vars
  BY <1>4 DEF vars, DefaultInv, OneChain, Progress, CommittedIsWhole, CommittedRows,
              AckedIsCommitted, FailsOnlyOnFault, IsPending, IsActive
<1> QED BY <1>1, <1>2, <1>3, <1>4, NothingToReconcile DEF Next, AllAnswered

\* What the invariant says to a client.
LEMMA DefaultInvImplies ==
    ASSUME DefaultConfig, TypeOK, DefaultInv
    PROVE  /\ ActiveHasContent /\ PendingIsOwned /\ OneOwner
           /\ AckedIsServed /\ FailsOnlyOnFault
<1> USE DEF DefaultInv
<1>1. ASSUME NEW k \in Keys, rows[k] # CommittedRows[k]
      PROVE  /\ turn \in Creates /\ target[turn].key = k /\ Progress(turn)
             /\ pc[turn] \in {"write", "activate", "commit"}
  BY <1>1, Zenon DEF CommittedRows, OneChain, Progress, InFlight
<1>2. ActiveHasContent
  <2> SUFFICES ASSUME NEW k \in Keys, IsActive(k) PROVE store[k] # NoContent
    BY DEF ActiveHasContent
  <2>1. CASE rows[k] = CommittedRows[k]
    BY <2>1 DEF CommittedIsWhole, IsActive
  <2>2. CASE rows[k] # CommittedRows[k]
    BY <1>1, <2>2, DistinctAssumption DEF Progress, IsActive, IsPending
  <2> QED BY <2>1, <2>2
<1>3. PendingIsOwned
  <2> SUFFICES ASSUME NEW k \in Keys, IsPending(k)
               PROVE  \E c \in Creates : pc[c] \in InFlight /\ target[c].key = k
    BY DEF PendingIsOwned
  <2>1. rows[k] # CommittedRows[k]
    BY DEF CommittedIsWhole, IsPending
  <2> QED BY <1>1, <2>1 DEF InFlight
<1>4. OneOwner
  BY DEF OneOwner, Writers, OneChain
<1>5. AckedIsServed
  <2> SUFFICES ASSUME NEW c \in Creates, reply[c] = "201"
               PROVE  /\ IsActive(target[c].key) /\ store[target[c].key] = c
                      /\ rows[target[c].key].ws = target[c].ws
    BY DEF AckedIsServed
  <2> DEFINE k == target[c].key
  <2>1. k \in Keys /\ target[c].ws = DefaultWs
    BY DEF AckedIsCommitted, TypeOK, TargetSet, DefaultConfig
  <2>2. CommittedRows[k] # NoRow /\ store[k] = c
    BY DEF AckedIsCommitted
  <2>3. rows[k] = CommittedRows[k]
    BY <1>1, <2>1, <2>2 DEF Progress, CommittedRows, OneChain
  <2>4. rows[k].ws = DefaultWs
    BY <2>1, <2>2, <2>3 DEF TypeOK, RowSet, DefaultConfig
  <2> QED BY <2>1, <2>2, <2>3, <2>4 DEF CommittedIsWhole, IsActive
<1> QED BY <1>2, <1>3, <1>4, <1>5

\* In the default deployment, for any number of overlapping calls and crashes: a
\* visible version has its content, no pending row outlives its call, one call at a
\* time owns a key, what was acknowledged is served unchanged for good, and only a
\* storage or database failure answers 500.
THEOREM DefaultSafety ==
    ASSUME DefaultConfig
    PROVE  Spec => [](/\ ActiveHasContent /\ PendingIsOwned /\ OneOwner
                      /\ AckedIsServed /\ FailsOnlyOnFault)
<1>1. TypeOK /\ DefaultInv => /\ ActiveHasContent /\ PendingIsOwned /\ OneOwner
                               /\ AckedIsServed /\ FailsOnlyOnFault
  BY DefaultInvImplies
<1> QED BY <1>1, InitTypeOK, NextTypeOK, InitDefaultInv, NextDefaultInv, PTL DEF Spec

\* Two creations that overlap never make each other fail: in the default deployment a call is
\* answered 500 only when its own storage or database failed.
THEOREM OverlapFailsNobody ==
    ASSUME DefaultConfig
    PROVE  Spec => []FailsOnlyOnFault
<1>1. TypeOK /\ DefaultInv => FailsOnlyOnFault
  BY DefaultInvImplies
<1> QED BY <1>1, InitTypeOK, NextTypeOK, InitDefaultInv, NextDefaultInv, PTL DEF Spec

-----------------------------------------------------------------------------
(***************************************************************************)
(* Refinement: what clients see changes only when a create call commits,   *)
(* and then exactly one unpublished key gets that call's content.          *)
(***************************************************************************)

\* Every step but a commit leaves what clients see alone.
LEMMA OnlyCommitPublishes ==
    ASSUME DefaultConfig, TypeOK, DefaultInv, [Next]_vars,
           ~ \E c \in Creates : Commit(c)
    PROVE  UNCHANGED Published
<1> USE DEF At, InFlight
<1> SUFFICES /\ CommittedRows' = CommittedRows
             /\ \A k \in Keys : store'[k] # store[k] => CommittedRows[k] = NoRow
  BY DEF Published
<1>1. ASSUME NEW c \in Creates, NEW k \in Keys, NEW ws \in Workspaces, Begin(c, k, ws)
      PROVE  UNCHANGED <<CommittedRows, store>>
  <2>1. turn \in {Free, c} /\ pc[c] = "idle"
    BY <1>1 DEF Begin, MayRun
  <2>2. tx = NoTx
    BY <2>1, DistinctAssumption DEF DefaultInv, OneChain
  <2> QED BY <1>1, <2>2 DEF Begin, CommittedRows, DefaultConfig
<1>2. ASSUME NEW c \in Creates, Proceed(c)
      PROVE  /\ CommittedRows' = CommittedRows
             /\ \A k \in Keys : store'[k] # store[k] => CommittedRows[k] = NoRow
  <2>1. pc[c] \notin {"idle", "done"}
    BY <1>2 DEF Proceed, SelectExisting, UpsertPending, DriverWrites, DriverFails,
                DriverIndexes, Activate, Commit, StatementFails
  <2>2. turn = c /\ tx # NoTx /\ Progress(c) /\ pc[c] # "index"
    BY <2>1, ProceedOwnsTx
  <2>3. CommittedRows' = CommittedRows /\ CommittedRows = tx
    <3>1. CommittedRows = tx
      BY <2>2 DEF CommittedRows
    <3>2. tx' = tx \/ (rows' = tx /\ tx' = NoTx)
      BY <1>2, <2>2, <3>1 DEF Proceed, SelectExisting, UpsertPending, DriverWrites,
           DriverFails, DriverIndexes, Activate, StatementFails, Rollback, DefaultConfig
    <3> QED BY <2>2, <3>1, <3>2 DEF CommittedRows
  <2>4. store' = store \/ DriverWrites(c) \/ DriverFails(c)
    BY <1>2, <2>2 DEF Proceed, SelectExisting, UpsertPending, DriverIndexes, Activate,
         StatementFails
  <2>5. ASSUME NEW k \in Keys, store'[k] # store[k] PROVE k = target[c].key /\ pc[c] = "write"
    BY <2>4, <2>5 DEF DriverWrites, DriverFails, TypeOK
  <2> QED BY <2>2, <2>3, <2>5 DEF Progress
<1>3. CASE Crash
  <2>1. CommittedRows' = CommittedRows
    BY <1>3 DEF Crash, CommittedRows
  <2>2. ASSUME NEW k \in Keys, store'[k] # store[k] PROVE CommittedRows[k] = NoRow
    <3>1. PICK c \in Writing(k) : TRUE
      BY <1>3, <2>2 DEF Crash
    <3>2. c \in Creates /\ pc[c] = "write" /\ target[c].key = k
      BY DEF Writing
    <3> QED BY <3>2, ProceedOwnsTx DEF Progress, CommittedRows
  <2> QED BY <2>1, <2>2
<1>4. CASE UNCHANGED vars
  BY <1>4 DEF vars, CommittedRows
<1> QED BY <1>1, <1>2, <1>3, <1>4, NothingToReconcile DEF Next, AllAnswered

\* A commit publishes the call's content under a key that had none.
LEMMA CommitPublishes ==
    ASSUME DefaultConfig, TypeOK, DefaultInv, NEW c \in Creates, Commit(c)
    PROVE  target[c].key \in Keys /\ Abstract!Publish(c, target[c].key)
<1> DEFINE k == target[c].key
<1>1. pc[c] = "commit" /\ tx' = NoTx /\ UNCHANGED <<rows, store>>
  BY DEF Commit, At
<1>2. turn = c /\ tx # NoTx /\ Progress(c)
  BY <1>1, ProceedOwnsTx
<1>3. k \in Keys
  BY <1>1 DEF TypeOK, TargetSet
<1>4. /\ tx[k] = NoRow /\ IsActive(k) /\ store[k] = c
      /\ \A l \in Keys : l # k => rows[l] = tx[l]
  BY <1>1, <1>2 DEF Progress
<1>5. CommittedRows = tx /\ CommittedRows' = rows
  BY <1>1, <1>2 DEF CommittedRows
<1>6. Published[k] = NoContent
  BY <1>3, <1>4, <1>5 DEF Published
<1>7. Published' = [Published EXCEPT ![k] = c]
  BY <1>1, <1>3, <1>4, <1>5 DEF Published, IsActive
<1> QED BY <1>3, <1>6, <1>7 DEF Abstract!Publish

\* In the default deployment the write path implements the abstract version store:
\* every version is published at most once, whole, and never changes.
THEOREM DefaultRefinement ==
    ASSUME DefaultConfig
    PROVE  Spec => RefinesVersionStore
<1>1. Init => Abstract!Init
  BY DEF Init, Abstract!Init, Published, CommittedRows
<1>2. TypeOK /\ DefaultInv /\ [Next]_vars => [Abstract!Next]_Published
  BY OnlyCommitPublishes, CommitPublishes DEF Abstract!Next
<1> QED BY <1>1, <1>2, InitTypeOK, NextTypeOK, InitDefaultInv, NextDefaultInv, PTL
        DEF Spec, RefinesVersionStore, Abstract!Spec
=============================================================================
