------------------------ MODULE WorkerRuntimeProofs ------------------------
(***************************************************************************)
(* Safety of the worker runtime for every number of processes: types, one  *)
(* scheduler, and the durability of accepted controls.                     *)
(***************************************************************************)
EXTENDS WorkerRuntime, TLAPS

-----------------------------------------------------------------------------
(* Types.                                                                  *)

\* The part of the state that sessions change.
SessionsOK ==
    /\ row \in Row
    /\ rowLock \in Sessions \cup {NoOne}
    /\ txn \in [Sessions -> Txn]

\* The rest.
ProcessesOK ==
    /\ lockOwner \in Workers \cup {NoOne}
    /\ at \in [Workers -> Places]
    /\ started \in [Workers -> BOOLEAN]
    /\ held \in [Workers -> BOOLEAN]
    /\ healthy \in [Workers -> BOOLEAN]
    /\ good \in [Workers -> BOOLEAN]
    /\ beat \in [Workers -> {"idle", "loaded", "verifying"}]
    /\ request \in [Workers -> Request]
    /\ accepted \in [run : {"none", "pause", "resume"}, kill : BOOLEAN]

\* The three sessions of a process.
LEMMA SessionsOf ==
    ASSUME NEW w \in Workers
    PROVE  Main(w) \in Sessions /\ Beat(w) \in Sessions /\ Api(w) \in Sessions
BY DEF Main, Beat, Api, Sessions

\* An UPDATE of columns of the row gives a row.
LEMMA UpdatedType ==
    ASSUME NEW r \in Row, NEW set \in Writes
    PROVE  Updated(r, set) \in Row
<1>1. CASE set = NoColumns
  BY <1>1 DEF Updated, Row, NoColumns, Columns
<1>2. CASE set \in [status : Status]
  BY <1>2 DEF Updated, Row, Columns
<1>3. CASE set \in [error : Reasons]
  BY <1>3 DEF Updated, Row, Columns
<1>4. CASE set \in [status : Status, error : Reasons]
  BY <1>4 DEF Updated, Row, Columns
<1>5. CASE set \in [paused : BOOLEAN]
  BY <1>5 DEF Updated, Row, Columns
<1>6. CASE set \in [kill : BOOLEAN]
  BY <1>6 DEF Updated, Row, Columns
<1>7. QED BY <1>1, <1>2, <1>3, <1>4, <1>5, <1>6 DEF Writes

\* A transaction without changes is a transaction.
LEMMA NoTxnType == NoTxn \in Txn
BY DEF NoTxn, Txn, Writes

\* What a status transition assigns.
LEMMA StatusWriteType ==
    ASSUME NEW loaded, NEW status \in Status, NEW error \in Reasons
    PROVE  StatusWrite(loaded, status, error) \in Writes
BY DEF StatusWrite, Writes

\* What a recovery assigns.
LEMMA RecoveryWriteType ==
    ASSUME NEW branch, NEW verdict \in Status
    PROVE  RecoveryWrite(branch, verdict) \in Writes
<1>1. "other" \in Reasons /\ "none" \in Reasons
  BY DEF Reasons
<1>2. QED BY <1>1, StatusWriteType DEF RecoveryWrite, Writes

\* Loading the row keeps the sessions well typed.
LEMMA LoadType ==
    ASSUME NEW s \in Sessions, NEW set \in Writes, SessionsOK, Load(s, set)
    PROVE  txn' \in [Sessions -> Txn]
BY DEF SessionsOK, Load, Txn, Row

\* COMMIT of a session's UPDATE keeps rows and sessions well typed.
LEMMA CommitType ==
    ASSUME NEW s \in Sessions, SessionsOK, Commit(s)
    PROVE  SessionsOK'
<1>1. txn[s].set \in Writes
  BY DEF SessionsOK, Txn
<1>2. row' \in Row
  BY <1>1, UpdatedType DEF SessionsOK, Commit
<1>3. \A t \in Sessions : Overtaken(t) \in Txn
  BY DEF SessionsOK, Overtaken, Active, Txn
<1>4. txn' \in [Sessions -> Txn]
  BY <1>3, NoTxnType DEF Commit
<1>5. QED BY <1>2, <1>4 DEF SessionsOK, Commit

\* So does the ROLLBACK of a session.
LEMMA RollbackType ==
    ASSUME NEW s \in Sessions, SessionsOK, Rollback(s)
    PROVE  SessionsOK'
BY NoTxnType DEF SessionsOK, Rollback

\* Sessions that a foreign COMMIT makes stale are well typed.
LEMMA OvertakenType ==
    ASSUME SessionsOK
    PROVE  \A t \in Sessions : Overtaken(t) \in Txn
BY DEF SessionsOK, Overtaken, Active, Txn

\* Columns that steps assign without a transition.
LEMMA PlainWrites ==
    /\ NoColumns \in Writes
    /\ [status |-> "SHUTTING_DOWN"] \in Writes
    /\ [status |-> "STOPPED"] \in Writes
    /\ \A k \in {"pause", "resume", "kill"} : RequestColumns[k] \in Writes
BY DEF Writes, Status, RequestColumns

\* The end of a process (exit or crash) keeps everything well typed.
LEMMA GoneType ==
    ASSUME NEW w \in Workers, SessionsOK, ProcessesOK, Gone(w)
    PROVE  SessionsOK' /\ ProcessesOK'
<1>1. Idle \in Request
  BY DEF Idle, Request
<1>2. SessionsOK'
  BY NoTxnType, SessionsOf DEF SessionsOK, Gone
<1>3. ProcessesOK'
  BY <1>1 DEF ProcessesOK, Gone, Places
<1>4. QED BY <1>2, <1>3

\* Every step keeps the rows and the sessions well typed.
LEMMA SessionsStep ==
    ASSUME SessionsOK, ProcessesOK, NEW w \in Workers,
           \/ StartStep(w) \/ LoopStep(w) \/ BeatStep(w)
           \/ StopStep(w) \/ ApiStep(w)
    PROVE  SessionsOK'
<1> USE SessionsOf
<1>1. CASE StartStep(w)
  <2>1. CASE RecoverLoad(w)
    <3>1. PICK v \in StartupVerdicts :
             Load(Main(w), RecoveryWrite(txn[Main(w)].loaded, v))
      BY <2>1 DEF RecoverLoad
    <3>2. RecoveryWrite(txn[Main(w)].loaded, v) \in Writes
      BY RecoveryWriteType DEF StartupVerdicts, Status
    <3>3. QED BY <2>1, <3>1, <3>2, LoadType DEF RecoverLoad, SessionsOK
  <2>2. CASE RecoverRefused(w) \/ RecoverConflict(w)
    BY <2>2, RollbackType DEF RecoverRefused, RecoverConflict, VersionConflict
  <2>3. CASE RecoverCommit(w)
    BY <2>3, CommitType DEF RecoverCommit
  <2>4. CASE RecoverBegin(w)
    BY <2>4, LoadType, PlainWrites DEF RecoverBegin, SessionsOK
  <2>5. CASE Synced(w)
    BY <2>5, OvertakenType DEF Synced, SessionsOK
  <2>6. CASE \/ Start(w) \/ AcquireLock(w) \/ LockTimeout(w)
             \/ RecoverUpdate(w) \/ StartupFails(w)
    BY <2>6 DEF Start, AcquireLock, LockTimeout, RecoverUpdate, StartupFails,
                SessionsOK
  <2>7. QED BY <1>1, <2>1, <2>2, <2>3, <2>4, <2>5, <2>6 DEF StartStep
<1>2. CASE LoopStep(w)
  <2>1. "READY" \in Status /\ "DEGRADED" \in Status /\ Reasons = {"none",
        "heartbeat", "other"} /\ FailureReason(w) \in Reasons
    BY DEF Status, Reasons, FailureReason
  <2>2. CASE Promote(w)
    BY <2>1, <2>2, LoadType, StatusWriteType DEF Promote, SessionsOK
  <2>3. CASE Degrade(w)
    BY <2>1, <2>3, LoadType, StatusWriteType DEF Degrade, SessionsOK
  <2>4. CASE EvaluateWrite(w)
    BY <2>4, CommitType DEF EvaluateWrite
  <2>5. CASE EvaluateFails(w)
    BY <2>5, RollbackType DEF EvaluateFails
  <2>6. CASE EvaluateNothing(w) \/ ConditionsChange(w)
    BY <2>6 DEF EvaluateNothing, ConditionsChange, SessionsOK
  <2>7. QED BY <1>2, <2>2, <2>3, <2>4, <2>5, <2>6 DEF LoopStep
<1>3. CASE BeatStep(w)
  <2>1. CASE BeatLoad(w)
    BY <2>1, LoadType, PlainWrites DEF BeatLoad, SessionsOK
  <2>2. CASE BeatWrite(w)
    BY <2>2, OvertakenType DEF BeatWrite, SessionsOK
  <2>3. CASE BeatVerified(w) \/ BeatFails(w)
    BY <2>3, RollbackType DEF BeatVerified, BeatFails
  <2>4. QED BY <1>3, <2>1, <2>2, <2>3 DEF BeatStep
<1>4. CASE StopStep(w)
  <2>1. CASE Stop(w) \/ FinishLoad(w)
    BY <2>1, LoadType, PlainWrites DEF Stop, FinishLoad, SessionsOK
  <2>2. CASE StopWrite(w) \/ FinishWrite(w)
    BY <2>2, CommitType DEF StopWrite, FinishWrite
  <2>3. CASE StopFails(w)
    BY <2>3, RollbackType DEF StopFails
  <2>4. CASE ProcessExit(w) \/ Crash(w)
    BY <2>4, GoneType DEF ProcessExit, Crash
  <2>5. CASE StopInvalid(w) \/ Release(w) \/ FinishSkipped(w)
                \/ LockConnectionLost(w)
    BY <2>5 DEF StopInvalid, Release, FinishSkipped, LockConnectionLost,
                SessionsOK
  <2>6. QED BY <1>4, <2>1, <2>2, <2>3, <2>4, <2>5 DEF StopStep
<1>5. CASE ApiStep(w)
  <2>1. CASE RequestBegin(w)
    <3>1. PICK k \in Kinds \ {"recover"} : Load(Api(w), RequestColumns[k])
      BY <2>1 DEF RequestBegin
    <3>2. RequestColumns[k] \in Writes
      BY PlainWrites, WorkerAssumption
    <3>3. QED BY <2>1, <3>1, <3>2, LoadType DEF RequestBegin, SessionsOK
  <2>2. CASE RequestWrite(w)
    BY <2>2, CommitType, RollbackType DEF RequestWrite
  <2>3. CASE RequestConflict(w) \/ RecoverRequestEnds(w)
    BY <2>3, RollbackType
       DEF RequestConflict, RecoverRequestEnds, VersionConflict
  <2>4. CASE RecoverRequest(w) \/ RecoverRequestLocks(w)
    BY <2>4, LoadType, PlainWrites
       DEF RecoverRequest, RecoverRequestLocks, RecoverRequested, SessionsOK
  <2>5. CASE RecoverRequestLoad(w)
    <3>1. PICK v \in RequestVerdicts :
             Load(Api(w), RecoveryWrite(txn[Api(w)].loaded, v))
      BY <2>5 DEF RecoverRequestLoad
    <3>2. RecoveryWrite(txn[Api(w)].loaded, v) \in Writes
      BY RecoveryWriteType DEF RequestVerdicts, Status
    <3>3. QED BY <2>5, <3>1, <3>2, LoadType DEF RecoverRequestLoad, SessionsOK
  <2>6. CASE RecoverRequestUpdate(w)
    BY <2>6 DEF RecoverRequestUpdate, SessionsOK
  <2>7. CASE RecoverRequestCommit(w)
    BY <2>7, CommitType DEF RecoverRequestCommit
  <2>8. QED BY <1>5, <2>1, <2>2, <2>3, <2>4, <2>5, <2>6, <2>7 DEF ApiStep
<1>6. QED BY <1>1, <1>2, <1>3, <1>4, <1>5

\* Every step keeps the processes well typed.
LEMMA ProcessesStep ==
    ASSUME SessionsOK, ProcessesOK, NEW w \in Workers,
           \/ StartStep(w) \/ LoopStep(w) \/ BeatStep(w)
           \/ StopStep(w) \/ ApiStep(w)
    PROVE  ProcessesOK'
<1>1. CASE StartStep(w)
  <2>1. CASE \/ Start(w) \/ AcquireLock(w) \/ LockTimeout(w)
             \/ RecoverBegin(w) \/ RecoverLoad(w) \/ RecoverRefused(w)
    BY <2>1 DEF Start, AcquireLock, LockTimeout, RecoverBegin, RecoverLoad,
                RecoverRefused, Goes, Places, ProcessesOK
  <2>2. CASE \/ RecoverConflict(w) \/ RecoverUpdate(w) \/ RecoverCommit(w)
             \/ StartupFails(w) \/ Synced(w)
    BY <2>2 DEF RecoverConflict, RecoverUpdate, RecoverCommit, StartupFails,
                Synced, Goes, Places, ProcessesOK
  <2>3. QED BY <1>1, <2>1, <2>2 DEF StartStep
<1>2. CASE LoopStep(w)
  BY <1>2 DEF LoopStep, Promote, Degrade, EvaluateNothing, EvaluateWrite,
              EvaluateFails, ConditionsChange, Goes, Places, ProcessesOK
<1>3. CASE BeatStep(w)
  BY <1>3 DEF BeatStep, BeatLoad, BeatWrite, BeatVerified, BeatFails,
              ProcessesOK
<1>4. CASE StopStep(w)
  <2>1. CASE ProcessExit(w) \/ Crash(w)
    BY <2>1, GoneType DEF ProcessExit, Crash
  <2>2. CASE \/ Stop(w) \/ StopInvalid(w) \/ StopWrite(w) \/ StopFails(w)
             \/ Release(w)
    BY <2>2 DEF Stop, StopInvalid, StopWrite, StopFails, Release, Goes,
                Places, ProcessesOK
  <2>3. CASE \/ FinishLoad(w) \/ FinishSkipped(w) \/ FinishWrite(w)
             \/ LockConnectionLost(w)
    BY <2>3 DEF FinishLoad, FinishSkipped, FinishWrite, LockConnectionLost,
                Goes, Places, ProcessesOK
  <2>4. QED BY <1>4, <2>1, <2>2, <2>3 DEF StopStep
<1>5. CASE ApiStep(w)
  <2>1. Idle \in Request
    BY DEF Idle, Request
  <2>2. CASE RequestBegin(w)
    <3>1. PICK k \in Kinds : request' = [request EXCEPT ![w] =
                               [kind |-> k, at |-> "loaded", own |-> FALSE]]
      BY <2>2 DEF RequestBegin
    <3>2. [kind |-> k, at |-> "loaded", own |-> FALSE] \in Request
      BY DEF Request
    <3>3. QED BY <2>2, <3>1, <3>2 DEF RequestBegin, ProcessesOK
  <2>7. CASE RecoverRequest(w) \/ RecoverRequestLocks(w)
    <3>1. PICK own \in BOOLEAN : RecoverRequested(w, own)
      BY <2>7 DEF RecoverRequest, RecoverRequestLocks
    <3>2. [kind |-> "recover", at |-> "checking", own |-> own] \in Request
      BY <3>1 DEF RecoverRequested, Request
    <3>3. request' \in [Workers -> Request]
      BY <3>1, <3>2 DEF RecoverRequested, ProcessesOK
    <3>4. lockOwner' \in Workers \cup {NoOne} /\ held' \in [Workers -> BOOLEAN]
      BY <2>7 DEF RecoverRequest, RecoverRequestLocks, ProcessesOK
    <3>5. QED BY <3>1, <3>3, <3>4 DEF RecoverRequested, ProcessesOK
  <2>3. CASE RequestWrite(w)
    <3>1. request[w].kind \in {"none", "pause", "resume", "kill", "recover"}
      BY WorkerAssumption DEF ProcessesOK, Request
    <3>2. QED BY <2>1, <2>3, <3>1 DEF RequestWrite, ProcessesOK
  <2>4. CASE RequestConflict(w) \/ RecoverRequestEnds(w)
                \/ RecoverRequestCommit(w)
    BY <2>1, <2>4 DEF RequestConflict, RecoverRequestEnds,
                      RecoverRequestCommit, RequestEnds, ProcessesOK
  <2>5. CASE RecoverRequestLoad(w) \/ RecoverRequestUpdate(w)
    <3>1. \A a \in {"loaded", "locked"} :
             [request[w] EXCEPT !.at = a] \in Request
      BY DEF Request, ProcessesOK
    <3>2. QED BY <2>5, <3>1
                 DEF RecoverRequestLoad, RecoverRequestUpdate, ProcessesOK
  <2>6. QED BY <1>5, <2>2, <2>3, <2>4, <2>5, <2>7 DEF ApiStep
<1>6. QED BY <1>1, <1>2, <1>3, <1>4, <1>5

\* The initial state is well typed.
LEMMA InitTypes ==
    ASSUME Init
    PROVE  SessionsOK /\ ProcessesOK
<1>1. SessionsOK
  BY NoTxnType DEF Init, SessionsOK, Row, Status, Reasons
<1>2. ProcessesOK
  BY DEF Init, ProcessesOK, Places, Request, Idle
<1>3. QED BY <1>1, <1>2

\* Type correctness of the runtime_state row, the sessions and the processes,
\* whatever the processes and requests do.
THEOREM TypeCorrect == Spec => []TypeOK
<1>1. Init => TypeOK
  BY InitTypes DEF SessionsOK, ProcessesOK, TypeOK
<1>2. TypeOK /\ [Next]_vars => TypeOK'
  <2> SUFFICES ASSUME TypeOK, [Next]_vars PROVE TypeOK'
    OBVIOUS
  <2>1. SessionsOK /\ ProcessesOK
    BY DEF SessionsOK, ProcessesOK, TypeOK
  <2>2. CASE UNCHANGED vars
    BY <2>2 DEF vars, TypeOK
  <2>3. CASE Next
    BY <2>1, <2>3, SessionsStep, ProcessesStep
       DEF Next, TypeOK, SessionsOK, ProcessesOK
  <2>4. QED BY <2>2, <2>3
<1>3. QED BY <1>1, <1>2, PTL DEF Spec

-----------------------------------------------------------------------------
(* One scheduler, while the database keeps the lock's connection.          *)

\* The places of a process that has acquired the lock and runs.
LockPlaces ==
    {"acquired", "checking", "recovering", "locked", "syncing", "running",
     "evaluated", "stopping", "draining"}

\* The process that runs is the database's owner of the lock; so is one whose
\* recovery request has taken the lock after stop() had released it.
OwnerInv ==
    /\ at \in [Workers -> Places]
    /\ request \in [Workers -> Request]
    /\ \A w \in Workers : at[w] \in LockPlaces => lockOwner = w
    /\ \A w \in Workers : request[w].own => lockOwner = w /\ at[w] \notin LockPlaces

\* A step of process w that leaves the lock alone and enters no place of
\* LockPlaces from outside.
WithinLock(w) ==
    /\ lockOwner' = lockOwner
    /\ \/ request' = request
       \/ \E q \in Request : /\ request' = [request EXCEPT ![w] = q]
                             /\ q.own => request[w].own
    /\ \/ at' = at
       \/ \E p \in Places :
             /\ at' = [at EXCEPT ![w] = p]
             /\ p \in LockPlaces => at[w] \in LockPlaces

\* The end of a process frees the lock only if it was its own.
LEMMA GoneOwner ==
    ASSUME NEW w \in Workers, OwnerInv, Gone(w)
    PROVE  OwnerInv'
<1>1. Idle \in Request /\ ~Idle.own
  BY DEF Idle, Request
<1>2. QED BY <1>1 DEF OwnerInv, LockPlaces, Places, Gone

\* Every step preserves the ownership.
LEMMA OwnerStep ==
    ASSUME ~ConnectionsDrop, OwnerInv, [Next]_vars
    PROVE  OwnerInv'
<1>1. CASE UNCHANGED vars
  BY <1>1 DEF OwnerInv, vars
<1>2. CASE Next
  <2>1. PICK w \in Workers : StartStep(w) \/ LoopStep(w) \/ BeatStep(w)
                                \/ StopStep(w) \/ ApiStep(w)
    BY <1>2 DEF Next
  <2>2. ASSUME WithinLock(w)
        PROVE  OwnerInv'
    BY <2>2 DEF OwnerInv, WithinLock
  <2>3. CASE StartStep(w)
    <3>1. CASE AcquireLock(w)
      BY <3>1, WorkerAssumption
         DEF AcquireLock, TryAcquire, Goes, OwnerInv, LockPlaces, Places
    <3>2. CASE \/ Start(w) \/ LockTimeout(w) \/ RecoverBegin(w)
               \/ RecoverLoad(w) \/ RecoverRefused(w) \/ RecoverConflict(w)
      <4>1. WithinLock(w)
        BY <3>2 DEF WithinLock, LockPlaces, Places, Goes, Start, LockTimeout,
                    RecoverBegin, RecoverLoad, RecoverRefused, RecoverConflict
      <4>2. QED BY <4>1, <2>2
    <3>3. CASE \/ RecoverUpdate(w) \/ RecoverCommit(w) \/ StartupFails(w)
               \/ Synced(w)
      <4>1. WithinLock(w)
        BY <3>3 DEF WithinLock, LockPlaces, Places, Goes, RecoverUpdate,
                    RecoverCommit, StartupFails, Synced
      <4>2. QED BY <4>1, <2>2
    <3>4. QED BY <2>3, <3>1, <3>2, <3>3 DEF StartStep
  <2>4. CASE LoopStep(w)
    <3>1. WithinLock(w)
      BY <2>4 DEF LoopStep, WithinLock, LockPlaces, Places, Goes, Promote,
                  Degrade, EvaluateNothing, EvaluateWrite, EvaluateFails,
                  ConditionsChange
    <3>2. QED BY <3>1, <2>2
  <2>5. CASE BeatStep(w)
    <3>1. WithinLock(w)
      BY <2>5 DEF BeatStep, WithinLock, BeatLoad, BeatWrite, BeatVerified,
                  BeatFails
    <3>2. QED BY <3>1, <2>2
  <2>6. CASE StopStep(w)
    <3>1. CASE Release(w)
      BY <3>1, WorkerAssumption DEF Release, OwnerInv, LockPlaces, Places
    <3>2. CASE ProcessExit(w) \/ Crash(w)
      BY <3>2, GoneOwner DEF ProcessExit, Crash
    <3>3. CASE \/ Stop(w) \/ StopInvalid(w) \/ StopWrite(w) \/ StopFails(w)
               \/ FinishLoad(w) \/ FinishSkipped(w) \/ FinishWrite(w)
      <4>1. WithinLock(w)
        BY <3>3 DEF WithinLock, LockPlaces, Places, Goes, Stop, StopInvalid,
                    StopWrite, StopFails, FinishLoad, FinishSkipped,
                    FinishWrite
      <4>2. QED BY <4>1, <2>2
    <3>4. CASE LockConnectionLost(w)
      BY <3>4 DEF LockConnectionLost
    <3>5. QED BY <2>6, <3>1, <3>2, <3>3, <3>4 DEF StopStep
  <2>7. CASE ApiStep(w)
    <3>1. Idle \in Request /\ ~Idle.own
      BY DEF Idle, Request
    <3>2. request[w] \in Request
      BY DEF OwnerInv
    <3>3. CASE RequestBegin(w)
      <4>1. PICK k \in Kinds : request' = [request EXCEPT ![w] =
                                 [kind |-> k, at |-> "loaded", own |-> FALSE]]
        BY <3>3 DEF RequestBegin
      <4>2. [kind |-> k, at |-> "loaded", own |-> FALSE] \in Request
        BY DEF Request
      <4>3. WithinLock(w)
        BY <3>3, <4>1, <4>2 DEF WithinLock, RequestBegin
      <4>4. QED BY <4>3, <2>2
    <3>4. CASE RequestWrite(w)
      <4>1. WithinLock(w)
        BY <3>1, <3>4 DEF WithinLock, RequestWrite
      <4>2. QED BY <4>1, <2>2
    <3>5. CASE RecoverRequest(w)
      <4>1. [kind |-> "recover", at |-> "checking", own |-> FALSE] \in Request
        BY <3>5 DEF RecoverRequest, RecoverRequested, Request
      <4>2. WithinLock(w)
        BY <3>5, <4>1 DEF WithinLock, RecoverRequest, RecoverRequested
      <4>3. QED BY <4>2, <2>2
    <3>6. CASE RecoverRequestLoad(w) \/ RecoverRequestUpdate(w)
      <4>1. \A a \in {"loaded", "locked"} :
               /\ [request[w] EXCEPT !.at = a] \in Request
               /\ [request[w] EXCEPT !.at = a].own = request[w].own
        BY <3>2 DEF Request
      <4>2. WithinLock(w)
        BY <3>6, <4>1 DEF WithinLock, RecoverRequestLoad, RecoverRequestUpdate
      <4>3. QED BY <4>2, <2>2
    <3>7. CASE RequestConflict(w) \/ RecoverRequestEnds(w)
                  \/ RecoverRequestCommit(w)
      <4>1. RequestEnds(w) /\ at' = at
        BY <3>7 DEF RequestConflict, RecoverRequestEnds, RecoverRequestCommit
      <4>2. CASE request[w].own /\ lockOwner = w
        BY <3>1, <4>1, <4>2, WorkerAssumption DEF RequestEnds, OwnerInv
      <4>3. CASE ~(request[w].own /\ lockOwner = w)
        <5>1. WithinLock(w)
          BY <3>1, <4>1, <4>3 DEF WithinLock, RequestEnds
        <5>2. QED BY <5>1, <2>2
      <4>4. QED BY <4>2, <4>3
    <3>8. CASE RecoverRequestLocks(w)
      <4>1. [kind |-> "recover", at |-> "checking", own |-> TRUE] \in Request
        BY <3>8 DEF RecoverRequestLocks, RecoverRequested, Request
      <4>2. QED BY <3>8, <4>1, WorkerAssumption
                   DEF RecoverRequestLocks, RecoverRequested, TryAcquire,
                       OwnerInv, LockPlaces
    <3>9. QED BY <2>7, <3>3, <3>4, <3>5, <3>6, <3>7, <3>8 DEF ApiStep
  <2>8. QED BY <2>1, <2>3, <2>4, <2>5, <2>6, <2>7
<1>3. QED BY <1>1, <1>2

\* While the lock's connection is not lost, two processes never both process
\* market events, however many processes there are and whatever requests they
\* serve (lock.py, start(), stop()).
THEOREM SingleWorker ==
    ASSUME ~ConnectionsDrop
    PROVE  Spec => []OneScheduler
<1>1. Init => OwnerInv
  BY DEF Init, OwnerInv, Places, LockPlaces, Idle, Request
<1>2. OwnerInv /\ [Next]_vars => OwnerInv'
  BY OwnerStep
<1>3. OwnerInv => OneScheduler
  BY DEF OwnerInv, OneScheduler, Trades, TasksRun, LockPlaces
<1>4. QED
  BY <1>1, <1>2, <1>3, PTL DEF Spec

-----------------------------------------------------------------------------
(* What the sessions have to write after a step.                           *)

\* Only session s has loaded anew, and is about to write the columns set.
SetsAfter(s, set) ==
    \A t \in Sessions :
        /\ txn'[t].set = IF t = s THEN set ELSE txn[t].set
        /\ t # s => txn'[t].loaded = txn[t].loaded

\* Nobody has.
SetsKept ==
    \A t \in Sessions :
        txn'[t].set = txn[t].set /\ txn'[t].loaded = txn[t].loaded

\* A load changes only its own session, which has seen the row's status.
LEMMA LoadSets ==
    ASSUME SessionsOK, NEW s \in Sessions, NEW set, Load(s, set)
    PROVE  SetsAfter(s, set) /\ txn'[s].loaded = row.status
BY DEF SessionsOK, Load, SetsAfter

\* A foreign commit makes the others stale and no more.
LEMMA OvertakenSets ==
    ASSUME SessionsOK, NEW t \in Sessions
    PROVE  /\ Overtaken(t).set = txn[t].set
           /\ Overtaken(t).loaded = txn[t].loaded
BY DEF SessionsOK, Overtaken, Txn

\* A COMMIT empties its own session and no other.
LEMMA CommitSets ==
    ASSUME SessionsOK, NEW s \in Sessions, Commit(s)
    PROVE  SetsAfter(s, NoColumns)
BY OvertakenSets DEF Commit, SetsAfter, NoTxn

\* So does a ROLLBACK.
LEMMA RollbackSets ==
    ASSUME SessionsOK, NEW s \in Sessions, Rollback(s)
    PROVE  SetsAfter(s, NoColumns)
BY DEF SessionsOK, Rollback, SetsAfter, NoTxn

\* The end of a process clears its sessions.
LEMMA GoneSets ==
    ASSUME SessionsOK, NEW w \in Workers, Gone(w)
    PROVE  \A v \in Workers :
              /\ v = w => /\ txn'[Main(v)].set = NoColumns
                          /\ txn'[Beat(v)].set = NoColumns
                          /\ txn'[Api(v)].set = NoColumns
              /\ v # w => /\ txn'[Main(v)] = txn[Main(v)]
                          /\ txn'[Beat(v)] = txn[Beat(v)]
                          /\ txn'[Api(v)] = txn[Api(v)]
BY DEF SessionsOK, Gone, NoTxn, Sessions, Main, Beat, Api

\* The sessions of two processes are different.
LEMMA SessionsDiffer ==
    ASSUME NEW v \in Workers, NEW w \in Workers
    PROVE  /\ Main(v) # Beat(w) /\ Main(v) # Api(w) /\ Beat(v) # Api(w)
           /\ v # w => /\ Main(v) # Main(w)
                       /\ Beat(v) # Beat(w)
                       /\ Api(v) # Api(w)
BY DEF Main, Beat, Api

-----------------------------------------------------------------------------
(* Accepted controls.                                                      *)

\* An UPDATE that leaves the operator's columns alone.
NoControls(set) == "paused" \notin DOMAIN set /\ "kill" \notin DOMAIN set

\* Only the request that carries a control writes its column.
WritersInv ==
    \A w \in Workers :
        /\ NoControls(txn[Main(w)].set)
        /\ NoControls(txn[Beat(w)].set)
        /\ request[w].kind = "pause" => txn[Api(w)].set = [paused |-> TRUE]
        /\ request[w].kind = "kill" => txn[Api(w)].set = [kill |-> TRUE]
        /\ request[w].kind = "recover" => NoControls(txn[Api(w)].set)
        /\ request[w].at \in {"checking", "locked"}
              => request[w].kind = "recover"
        /\ request[w].kind = "none" => request[w].at = "idle"

\* The inductive invariant.
ControlInv ==
    SessionsOK /\ ProcessesOK /\ WritersInv /\ AcceptedControlsInForce

\* A COMMIT without the operator's columns leaves them as they are.
LEMMA CommitNoControls ==
    ASSUME SessionsOK, NEW s \in Sessions, Commit(s), NoControls(txn[s].set)
    PROVE  row'.paused = row.paused /\ row'.kill = row.kill
BY DEF SessionsOK, Commit, Updated, Columns, Row, NoControls

\* A status transition writes no control.
LEMMA StatusWriteNoControls ==
    ASSUME NEW loaded, NEW status, NEW error
    PROVE  NoControls(StatusWrite(loaded, status, error))
BY DEF StatusWrite, NoControls

\* Neither does a recovery.
LEMMA RecoveryWriteNoControls ==
    ASSUME NEW branch, NEW verdict
    PROVE  NoControls(RecoveryWrite(branch, verdict))
BY StatusWriteNoControls DEF RecoveryWrite, NoControls

\* No columns, no controls; nor those of a shutdown.
LEMMA PlainNoControls ==
    /\ NoControls(NoColumns)
    /\ NoControls([status |-> "SHUTTING_DOWN"])
    /\ NoControls([status |-> "STOPPED"])
BY DEF NoControls, NoColumns

\* A step of the loop or of the heartbeat keeps the writers to their columns.
LEMMA WorkerSessionWriters ==
    ASSUME WritersInv, NEW w \in Workers, request' = request,
           \/ SetsKept
           \/ \E set : /\ NoControls(set)
                       /\ SetsAfter(Main(w), set) \/ SetsAfter(Beat(w), set)
    PROVE  WritersInv'
BY SessionsOf, SessionsDiffer DEF WritersInv, SetsKept, SetsAfter

\* So does a step of a request.
LEMMA RequestSessionWriters ==
    ASSUME WritersInv, NEW w \in Workers, NEW set, NEW r,
           ProcessesOK, request' = [request EXCEPT ![w] = r],
           SetsAfter(Api(w), set),
           \/ r = Idle
           \/ r.kind = "pause" /\ r.at = "loaded" /\ set = [paused |-> TRUE]
           \/ r.kind = "resume" /\ r.at = "loaded"
           \/ r.kind = "kill" /\ r.at = "loaded" /\ set = [kill |-> TRUE]
           \/ r.kind = "recover" /\ NoControls(set)
    PROVE  WritersInv'
<1> SUFFICES ASSUME NEW v \in Workers
             PROVE  WritersInv!(v)'
  BY DEF WritersInv
<1>1. CASE v # w
  BY <1>1, SessionsOf, SessionsDiffer DEF WritersInv, SetsAfter, ProcessesOK
<1>2. CASE v = w
  <2>1. request'[w] = r /\ txn'[Api(w)].set = set
    BY SessionsOf DEF ProcessesOK, SetsAfter
  <2>2. NoControls(txn'[Main(w)].set) /\ NoControls(txn'[Beat(w)].set)
    BY SessionsOf, SessionsDiffer DEF WritersInv, SetsAfter
  <2>3. QED BY <1>2, <2>1, <2>2 DEF Idle
<1>3. QED BY <1>1, <1>2

\* A step that leaves the operator's columns and the answers alone.
ControlsKept ==
    row'.paused = row.paused /\ row'.kill = row.kill /\ accepted' = accepted

\* A step that does so keeps accepted controls in force.
LEMMA KeptInForce ==
    ASSUME AcceptedControlsInForce, ControlsKept
    PROVE  AcceptedControlsInForce'
BY DEF AcceptedControlsInForce, ControlsKept

\* start(), the event loop and the heartbeat never touch the operator's
\* columns.
LEMMA WorkerControls ==
    ASSUME ControlInv, NEW w \in Workers,
           StartStep(w) \/ LoopStep(w) \/ BeatStep(w)
    PROVE  WritersInv' /\ ControlsKept
<1> USE SessionsOf DEF ControlInv
<1>1. NoControls(txn[Main(w)].set)
  BY DEF WritersInv
<1>2. CASE StartStep(w)
  <2>1. CASE \/ Start(w) \/ AcquireLock(w) \/ LockTimeout(w)
             \/ RecoverUpdate(w) \/ StartupFails(w)
    <3>1. SetsKept /\ request' = request /\ ControlsKept
      BY <2>1 DEF Start, AcquireLock, LockTimeout, RecoverUpdate, StartupFails,
                  SetsKept, ControlsKept
    <3>2. QED BY <3>1, WorkerSessionWriters
  <2>2. CASE RecoverBegin(w)
    <3>1. SetsAfter(Main(w), NoColumns) /\ request' = request /\ ControlsKept
      BY <2>2, LoadSets DEF RecoverBegin, ControlsKept
    <3>2. QED BY <3>1, PlainNoControls, WorkerSessionWriters
  <2>3. CASE RecoverLoad(w)
    <3>1. PICK v \in StartupVerdicts :
             Load(Main(w), RecoveryWrite(txn[Main(w)].loaded, v))
      BY <2>3 DEF RecoverLoad
    <3>2. SetsAfter(Main(w), RecoveryWrite(txn[Main(w)].loaded, v))
      BY <3>1, LoadSets
    <3>3. request' = request /\ ControlsKept
      BY <2>3 DEF RecoverLoad, ControlsKept
    <3>4. QED BY <3>2, <3>3, RecoveryWriteNoControls, WorkerSessionWriters
  <2>4. CASE RecoverRefused(w) \/ RecoverConflict(w)
    <3>1. Rollback(Main(w)) /\ request' = request /\ accepted' = accepted
      BY <2>4 DEF RecoverRefused, RecoverConflict, VersionConflict
    <3>2. SetsAfter(Main(w), NoColumns) /\ ControlsKept
      BY <3>1, RollbackSets DEF Rollback, ControlsKept
    <3>3. QED BY <3>1, <3>2, PlainNoControls, WorkerSessionWriters
  <2>5. CASE RecoverCommit(w)
    <3>1. Commit(Main(w)) /\ request' = request /\ accepted' = accepted
      BY <2>5 DEF RecoverCommit
    <3>2. SetsAfter(Main(w), NoColumns) /\ ControlsKept
      BY <1>1, <3>1, CommitSets, CommitNoControls DEF ControlsKept
    <3>3. QED BY <3>1, <3>2, PlainNoControls, WorkerSessionWriters
  <2>6. CASE Synced(w)
    <3>1. SetsKept /\ request' = request /\ ControlsKept
      BY <2>6, OvertakenSets DEF Synced, SetsKept, ControlsKept
    <3>2. QED BY <3>1, WorkerSessionWriters
  <2>7. QED BY <1>2, <2>1, <2>2, <2>3, <2>4, <2>5, <2>6 DEF StartStep
<1>3. CASE LoopStep(w)
  <2>1. CASE Promote(w) \/ Degrade(w)
    <3>1. \E status, error :
             Load(Main(w), StatusWrite(row.status, status, error))
      BY <2>1 DEF Promote, Degrade
    <3>2. \E set : NoControls(set) /\ SetsAfter(Main(w), set)
      BY <3>1, LoadSets, StatusWriteNoControls
    <3>3. request' = request /\ ControlsKept
      BY <2>1 DEF Promote, Degrade, ControlsKept
    <3>4. QED BY <3>2, <3>3, WorkerSessionWriters
  <2>2. CASE EvaluateNothing(w) \/ ConditionsChange(w)
    <3>1. SetsKept /\ request' = request /\ ControlsKept
      BY <2>2 DEF EvaluateNothing, ConditionsChange, SetsKept, ControlsKept
    <3>2. QED BY <3>1, WorkerSessionWriters
  <2>3. CASE EvaluateWrite(w)
    <3>1. Commit(Main(w)) /\ request' = request /\ accepted' = accepted
      BY <2>3 DEF EvaluateWrite
    <3>2. SetsAfter(Main(w), NoColumns) /\ ControlsKept
      BY <1>1, <3>1, CommitSets, CommitNoControls DEF ControlsKept
    <3>3. QED BY <3>1, <3>2, PlainNoControls, WorkerSessionWriters
  <2>4. CASE EvaluateFails(w)
    <3>1. Rollback(Main(w)) /\ request' = request /\ accepted' = accepted
      BY <2>4 DEF EvaluateFails
    <3>2. SetsAfter(Main(w), NoColumns) /\ ControlsKept
      BY <3>1, RollbackSets DEF Rollback, ControlsKept
    <3>3. QED BY <3>1, <3>2, PlainNoControls, WorkerSessionWriters
  <2>5. QED BY <1>3, <2>1, <2>2, <2>3, <2>4 DEF LoopStep
<1>4. CASE BeatStep(w)
  <2>1. CASE BeatLoad(w)
    <3>1. SetsAfter(Beat(w), NoColumns) /\ request' = request /\ ControlsKept
      BY <2>1, LoadSets DEF BeatLoad, ControlsKept
    <3>2. QED BY <3>1, PlainNoControls, WorkerSessionWriters
  <2>2. CASE BeatWrite(w)
    <3>1. SetsKept /\ request' = request /\ ControlsKept
      BY <2>2, OvertakenSets DEF BeatWrite, SetsKept, ControlsKept
    <3>2. QED BY <3>1, WorkerSessionWriters
  <2>3. CASE BeatVerified(w) \/ BeatFails(w)
    <3>1. Rollback(Beat(w)) /\ request' = request /\ accepted' = accepted
      BY <2>3 DEF BeatVerified, BeatFails
    <3>2. SetsAfter(Beat(w), NoColumns) /\ ControlsKept
      BY <3>1, RollbackSets DEF Rollback, ControlsKept
    <3>3. QED BY <3>1, <3>2, PlainNoControls, WorkerSessionWriters
  <2>4. QED BY <1>4, <2>1, <2>2, <2>3 DEF BeatStep
<1>5. QED BY <1>2, <1>3, <1>4

\* Neither do stop(), the end of a process and the loss of a connection.
LEMMA StopControls ==
    ASSUME ControlInv, NEW w \in Workers, StopStep(w)
    PROVE  WritersInv' /\ ControlsKept
<1> USE SessionsOf DEF ControlInv
<1>1. NoControls(txn[Main(w)].set)
  BY DEF WritersInv
<1>2. CASE Stop(w) \/ FinishLoad(w)
  <2>1. \E set : NoControls(set) /\ SetsAfter(Main(w), set)
    BY <1>2, LoadSets, PlainNoControls DEF Stop, FinishLoad
  <2>2. request' = request /\ ControlsKept
    BY <1>2 DEF Stop, FinishLoad, ControlsKept
  <2>3. QED BY <2>1, <2>2, WorkerSessionWriters
<1>3. CASE StopWrite(w) \/ FinishWrite(w)
  <2>1. Commit(Main(w)) /\ request' = request /\ accepted' = accepted
    BY <1>3 DEF StopWrite, FinishWrite
  <2>2. SetsAfter(Main(w), NoColumns) /\ ControlsKept
    BY <1>1, <2>1, CommitSets, CommitNoControls DEF ControlsKept
  <2>3. QED BY <2>1, <2>2, PlainNoControls, WorkerSessionWriters
<1>4. CASE StopFails(w)
  <2>1. SetsAfter(Main(w), NoColumns) /\ ControlsKept
    BY <1>4, RollbackSets DEF StopFails, Rollback, ControlsKept
  <2>2. request' = request
    BY <1>4 DEF StopFails
  <2>3. QED BY <2>1, <2>2, PlainNoControls, WorkerSessionWriters
<1>5. CASE StopInvalid(w) \/ Release(w) \/ FinishSkipped(w)
              \/ LockConnectionLost(w)
  <2>1. SetsKept /\ request' = request /\ ControlsKept
    BY <1>5 DEF StopInvalid, Release, FinishSkipped, LockConnectionLost,
                SetsKept, ControlsKept
  <2>2. QED BY <2>1, WorkerSessionWriters
<1>6. CASE ProcessExit(w) \/ Crash(w)
  <2>1. Gone(w)
    BY <1>6 DEF ProcessExit, Crash
  <2>2. ControlsKept
    BY <2>1 DEF Gone, ControlsKept
  <2>3. request' = [request EXCEPT ![w] = Idle]
    BY <2>1 DEF Gone
  <2>4. SUFFICES ASSUME NEW v \in Workers
                 PROVE  WritersInv!(v)'
    BY <2>2 DEF WritersInv
  <2>5. CASE v # w
    BY <2>1, <2>3, <2>5, GoneSets DEF WritersInv, ProcessesOK
  <2>6. CASE v = w
    BY <2>1, <2>3, <2>6, GoneSets, PlainNoControls DEF Idle, ProcessesOK
  <2>7. QED BY <2>5, <2>6
<1>7. QED BY <1>2, <1>3, <1>4, <1>5, <1>6 DEF StopStep, ControlInv

\* Requests: each writes its own column, commits it before it answers, and
\* resume commits nothing.
LEMMA RequestControls ==
    ASSUME ControlInv, NEW w \in Workers, ApiStep(w)
    PROVE  WritersInv' /\ AcceptedControlsInForce'
<1> USE SessionsOf DEF ControlInv
<1>1. CASE RequestBegin(w)
  <2>1. PICK k \in Kinds \ {"recover"} :
           /\ request' = [request EXCEPT ![w] = [kind |-> k, at |-> "loaded",
                                                 own |-> FALSE]]
           /\ Load(Api(w), RequestColumns[k])
    BY <1>1 DEF RequestBegin
  <2>2. SetsAfter(Api(w), RequestColumns[k])
    BY <2>1, LoadSets
  <2>3. k \in {"pause", "resume", "kill"}
    BY WorkerAssumption
  <2>4. /\ RequestColumns["pause"] = [paused |-> TRUE]
        /\ RequestColumns["kill"] = [kill |-> TRUE]
    BY DEF RequestColumns
  <2>5. WritersInv'
    BY <2>1, <2>2, <2>3, <2>4, RequestSessionWriters
  <2>6. ControlsKept
    BY <1>1 DEF RequestBegin, ControlsKept
  <2>7. QED BY <2>5, <2>6, KeptInForce
<1>2. CASE RequestWrite(w)
  <2>1. SetsAfter(Api(w), NoColumns)
    BY <1>2, CommitSets, RollbackSets DEF RequestWrite
  <2>2. WritersInv'
    BY <1>2, <2>1, RequestSessionWriters DEF RequestWrite
  <2>3. request[w].kind \in {"pause", "resume", "kill"}
    BY <1>2, WorkerAssumption DEF RequestWrite, WritersInv, ProcessesOK, Request
  <2>4. accepted \in [run : {"none", "pause", "resume"}, kill : BOOLEAN]
    BY DEF ProcessesOK
  <2>5. CASE request[w].kind = "pause"
    <3>1. Commit(Api(w)) /\ txn[Api(w)].set = [paused |-> TRUE]
      BY <1>2, <2>5 DEF RequestWrite, OwnTransaction, WritersInv
    <3>2. row'.paused = TRUE /\ row'.kill = row.kill
      BY <3>1 DEF Commit, Updated, Columns, SessionsOK, Row
    <3>3. accepted'.kill = accepted.kill
      BY <1>2, <2>4, <2>5 DEF RequestWrite
    <3>4. QED BY <2>2, <3>2, <3>3 DEF AcceptedControlsInForce
  <2>6. CASE request[w].kind = "kill"
    <3>1. Commit(Api(w)) /\ txn[Api(w)].set = [kill |-> TRUE]
      BY <1>2, <2>6 DEF RequestWrite, OwnTransaction, WritersInv
    <3>2. row'.kill = TRUE /\ row'.paused = row.paused
      BY <3>1 DEF Commit, Updated, Columns, SessionsOK, Row
    <3>3. accepted'.run = accepted.run
      BY <1>2, <2>4, <2>6 DEF RequestWrite
    <3>4. QED BY <2>2, <3>2, <3>3 DEF AcceptedControlsInForce
  <2>7. CASE request[w].kind = "resume"
    <3>1. row' = row
      BY <1>2, <2>7 DEF RequestWrite, OwnTransaction, Rollback
    <3>2. accepted'.kill = accepted.kill /\ accepted'.run = "resume"
      BY <1>2, <2>4, <2>7 DEF RequestWrite
    <3>3. QED BY <2>2, <3>1, <3>2 DEF AcceptedControlsInForce
  <2>8. QED BY <2>3, <2>5, <2>6, <2>7
<1>3. CASE RequestConflict(w) \/ RecoverRequestEnds(w)
  <2>1. Rollback(Api(w)) /\ request' = [request EXCEPT ![w] = Idle]
           /\ accepted' = accepted
    BY <1>3 DEF RequestConflict, RecoverRequestEnds, VersionConflict, RequestEnds
  <2>2. SetsAfter(Api(w), NoColumns) /\ ControlsKept
    BY <2>1, RollbackSets DEF Rollback, ControlsKept
  <2>3. QED BY <2>1, <2>2, RequestSessionWriters, KeptInForce
<1>4. CASE RecoverRequest(w) \/ RecoverRequestLocks(w)
  <2>1. PICK own : RecoverRequested(w, own)
    BY <1>4 DEF RecoverRequest, RecoverRequestLocks
  <2>2. SetsAfter(Api(w), NoColumns) /\ ControlsKept
    BY <2>1, LoadSets DEF RecoverRequested, ControlsKept
  <2>3. WritersInv'
    BY <2>1, <2>2, PlainNoControls, RequestSessionWriters DEF RecoverRequested
  <2>4. QED BY <2>2, <2>3, KeptInForce
<1>5. CASE RecoverRequestLoad(w)
  <2>1. PICK v \in RequestVerdicts :
           Load(Api(w), RecoveryWrite(txn[Api(w)].loaded, v))
    BY <1>5 DEF RecoverRequestLoad
  <2>2. SetsAfter(Api(w), RecoveryWrite(txn[Api(w)].loaded, v))
    BY <2>1, LoadSets
  <2>3. request[w].kind = "recover"
    BY <1>5 DEF RecoverRequestLoad, WritersInv
  <2>4. /\ request' = [request EXCEPT ![w] = [request[w] EXCEPT !.at = "loaded"]]
        /\ [request[w] EXCEPT !.at = "loaded"].kind = "recover"
    BY <1>5, <2>3 DEF RecoverRequestLoad, ProcessesOK, Request
  <2>5. WritersInv'
    BY <2>2, <2>4, RecoveryWriteNoControls, RequestSessionWriters
  <2>6. ControlsKept
    BY <1>5 DEF RecoverRequestLoad, ControlsKept
  <2>7. QED BY <2>5, <2>6, KeptInForce
<1>6. CASE RecoverRequestUpdate(w)
  <2>1. /\ request' = [request EXCEPT ![w] = [request[w] EXCEPT !.at = "locked"]]
        /\ [request[w] EXCEPT !.at = "locked"].kind = "recover"
        /\ [request[w] EXCEPT !.at = "locked"].at = "locked"
    BY <1>6 DEF RecoverRequestUpdate, ProcessesOK, Request
  <2>2. SetsAfter(Api(w), txn[Api(w)].set) /\ ControlsKept
    BY <1>6 DEF RecoverRequestUpdate, SetsAfter, ControlsKept
  <2>3. NoControls(txn[Api(w)].set)
    BY <1>6 DEF RecoverRequestUpdate, WritersInv
  <2>4. WritersInv'
    BY <2>1, <2>2, <2>3, RequestSessionWriters
  <2>5. QED BY <2>2, <2>4, KeptInForce
<1>7. CASE RecoverRequestCommit(w)
  <2>1. NoControls(txn[Api(w)].set)
    BY <1>7 DEF RecoverRequestCommit, WritersInv
  <2>2. SetsAfter(Api(w), NoColumns) /\ ControlsKept
    BY <1>7, <2>1, CommitSets, CommitNoControls
       DEF RecoverRequestCommit, ControlsKept
  <2>3. WritersInv'
    BY <1>7, <2>2, RequestSessionWriters DEF RecoverRequestCommit, RequestEnds
  <2>4. QED BY <2>2, <2>3, KeptInForce
<1>8. QED BY <1>1, <1>2, <1>3, <1>4, <1>5, <1>6, <1>7 DEF ApiStep

\* The invariant holds initially.
LEMMA ControlInit ==
    ASSUME Init
    PROVE  ControlInv
<1>1. SessionsOK /\ ProcessesOK
  BY InitTypes
<1>2. WritersInv
  BY SessionsOf, PlainNoControls DEF Init, WritersInv, NoTxn, Idle
<1>3. QED BY <1>1, <1>2 DEF Init, ControlInv, AcceptedControlsInForce

\* Every step preserves the invariant.
LEMMA ControlStep ==
    ASSUME ControlInv, [Next]_vars
    PROVE  ControlInv'
<1>1. CASE UNCHANGED vars
  BY <1>1 DEF vars, ControlInv, SessionsOK, ProcessesOK, WritersInv,
              AcceptedControlsInForce
<1>2. CASE Next
  <2>1. PICK w \in Workers : StartStep(w) \/ LoopStep(w) \/ BeatStep(w)
                                \/ StopStep(w) \/ ApiStep(w)
    BY <1>2 DEF Next
  <2>2. SessionsOK' /\ ProcessesOK'
    BY <2>1, SessionsStep, ProcessesStep DEF ControlInv
  <2>3. WritersInv' /\ AcceptedControlsInForce'
    BY <2>1, WorkerControls, StopControls, RequestControls, KeptInForce
       DEF ControlInv
  <2>4. QED BY <2>2, <2>3 DEF ControlInv
<1>3. QED BY <1>1, <1>2

\* A pause or a kill switch that was answered "accepted" stays in force, for
\* every number of processes, with every kind of request, and also when the
\* lock's connection is lost (control_pause, control_kill).
THEOREM ControlsDurable == Spec => []AcceptedControlsInForce
<1>1. Init => ControlInv
  BY ControlInit
<1>2. ControlInv /\ [Next]_vars => ControlInv'
  BY ControlStep
<1>3. ControlInv => AcceptedControlsInForce
  BY DEF ControlInv
<1>4. QED BY <1>1, <1>2, <1>3, PTL DEF Spec

-----------------------------------------------------------------------------
(* Who may change the status of the row while one worker hands over to the *)
(* next.  The lock does not answer this: stop() writes STOPPED after it    *)
(* has released it.                                                        *)


\* The places of a process from the start of its recovery to its last write.
WriterPlaces ==
    {"recovering", "locked", "syncing", "running", "evaluated", "stopping",
     "draining", "released", "finishing"}

\* A process that has released the lock and not yet written STOPPED finds its
\* SHUTTING_DOWN in the row, and nobody else gets past recovery.
LateStopAlone(w) ==
    at[w] \in {"released", "finishing"} =>
        /\ row.status = "SHUTTING_DOWN"
        /\ \A v \in Workers : at[v] \in WriterPlaces => v = w

\* READY, read at the start of recovery, is still in the row at its second
\* read.
ReadyBranch(w) ==
    at[w] = "checking" /\ txn[Main(w)].loaded = "READY" => row.status = "READY"

\* Between the two writes of stop() the row is SHUTTING_DOWN.
Draining(w) == at[w] = "draining" => row.status = "SHUTTING_DOWN"

\* What stop() and the readiness evaluation are about to write.
PendingStatus(w) ==
    /\ at[w] = "stopping" => txn[Main(w)].set = [status |-> "SHUTTING_DOWN"]
    /\ at[w] = "evaluated" /\ "status" \in DOMAIN txn[Main(w)].set
          => txn[Main(w)].set.status # "FAILED"

\* Nobody runs or stops on a FAILED row.
NotFailed(w) == at[w] \in WriterPlaces => row.status # "FAILED"

Handover(w) ==
    /\ LateStopAlone(w) /\ ReadyBranch(w) /\ Draining(w)
    /\ PendingStatus(w) /\ NotFailed(w)

\* The inductive invariant.
HandoverInv ==
    ControlInv /\ OwnerInv /\ \A w \in Workers : Handover(w)

\* The other processes' worker sessions are as they were.
OthersKept(w) ==
    \A v \in Workers : v # w =>
        /\ txn'[Main(v)].set = txn[Main(v)].set
        /\ txn'[Main(v)].loaded = txn[Main(v)].loaded

\* A step of w to place q that does not write the status.
Moves(w, q) ==
    /\ row'.status = row.status
    /\ at' = [at EXCEPT ![w] = q]
    /\ OthersKept(w)
    /\ q \in WriterPlaces =>
          \/ at[w] \in WriterPlaces
          \/ row.status \notin {"FAILED", "SHUTTING_DOWN"}
    /\ q \in {"released", "finishing"} =>
          at[w] \in {"draining", "released", "finishing"}
    /\ q = "draining" => at[w] = "draining"
    /\ ReadyBranch(w)'
    /\ PendingStatus(w)'

\* Such a step preserves the invariant.
LEMMA MovesHandover ==
    ASSUME HandoverInv, NEW w \in Workers, NEW q, Moves(w, q)
    PROVE  \A v \in Workers : Handover(v)'
<1> USE DEF HandoverInv
<1>1. at \in [Workers -> Places]
  BY DEF OwnerInv
<1>2. at'[w] = q /\ \A v \in Workers : v # w => at'[v] = at[v]
  BY <1>1 DEF Moves
<1>3. row'.status = row.status
  BY DEF Moves
<1>4. at[w] = "draining" =>
         \A v \in Workers : at[v] \in WriterPlaces => v = w
  BY DEF OwnerInv, Handover, LateStopAlone, LockPlaces, WriterPlaces
<1>5. Handover(w)'
  <2>1. LateStopAlone(w)'
    <3> SUFFICES ASSUME q \in {"released", "finishing"}
                 PROVE  /\ row'.status = "SHUTTING_DOWN"
                        /\ \A v \in Workers : at'[v] \in WriterPlaces => v = w
      BY <1>2 DEF LateStopAlone
    <3>1. at[w] \in {"draining", "released", "finishing"}
      BY DEF Moves
    <3>2. row.status = "SHUTTING_DOWN"
      BY <3>1 DEF Handover, Draining, LateStopAlone
    <3>3. \A v \in Workers : at[v] \in WriterPlaces => v = w
      BY <1>4, <3>1 DEF Handover, LateStopAlone
    <3>4. QED BY <1>2, <1>3, <3>2, <3>3
  <2>2. Draining(w)'
    BY <1>2, <1>3 DEF Moves, Draining, Handover
  <2>3. NotFailed(w)'
    BY <1>2, <1>3 DEF Moves, NotFailed, Handover
  <2>4. QED BY <2>1, <2>2, <2>3 DEF Handover, Moves
<1>6. ASSUME NEW v \in Workers, v # w
      PROVE  Handover(v)'
  <2>1. /\ at'[v] = at[v]
        /\ txn'[Main(v)].set = txn[Main(v)].set
        /\ txn'[Main(v)].loaded = txn[Main(v)].loaded
    BY <1>2, <1>6 DEF Moves, OthersKept
  <2>2. LateStopAlone(v)'
    <3> SUFFICES ASSUME at[v] \in {"released", "finishing"}
                 PROVE  /\ row'.status = "SHUTTING_DOWN"
                        /\ \A u \in Workers : at'[u] \in WriterPlaces => u = v
      BY <2>1 DEF LateStopAlone
    <3>1. /\ row.status = "SHUTTING_DOWN"
          /\ \A u \in Workers : at[u] \in WriterPlaces => u = v
      BY DEF Handover, LateStopAlone
    <3>2. q \notin WriterPlaces
      BY <1>6, <3>1 DEF Moves
    <3>3. QED BY <1>2, <1>3, <3>1, <3>2
  <2>3. ReadyBranch(v)' /\ Draining(v)' /\ PendingStatus(v)' /\ NotFailed(v)'
    BY <1>3, <2>1 DEF Handover, ReadyBranch, Draining, PendingStatus, NotFailed
  <2>4. QED BY <2>2, <2>3 DEF Handover
<1>7. QED BY <1>5, <1>6

\* The places from which a process commits a status.
CommitPlaces == {"locked", "evaluated", "stopping", "finishing"}

\* A COMMIT of a status by process w, which then goes on to q.
Commits(w, q) ==
    /\ at[w] \in CommitPlaces
    /\ at' = [at EXCEPT ![w] = q]
    /\ OthersKept(w)
    /\ q \in {"syncing", "running", "draining", "exiting"}
    /\ q \in {"syncing", "running"} => row'.status # "FAILED"
    /\ q = "draining" => row'.status = "SHUTTING_DOWN"

\* While w is about to commit, nobody else depends on the status.
LEMMA CommitsAlone ==
    ASSUME HandoverInv, NEW w \in Workers, at[w] \in CommitPlaces,
           NEW v \in Workers, v # w
    PROVE  /\ at[v] \notin WriterPlaces
           /\ ~(at[v] = "checking" /\ txn[Main(v)].loaded = "READY")
<1> USE DEF HandoverInv
<1>1. CASE at[w] = "finishing"
  BY <1>1 DEF Handover, LateStopAlone, ReadyBranch
<1>2. CASE at[w] # "finishing"
  BY <1>2 DEF OwnerInv, LockPlaces, CommitPlaces, WriterPlaces, Handover,
              LateStopAlone
<1>3. QED BY <1>1, <1>2

\* Such a step preserves the invariant.
LEMMA CommitsHandover ==
    ASSUME HandoverInv, NEW w \in Workers, NEW q, Commits(w, q)
    PROVE  \A v \in Workers : Handover(v)'
<1>1. at \in [Workers -> Places]
  BY DEF OwnerInv, HandoverInv
<1>2. at'[w] = q /\ \A v \in Workers : v # w => at'[v] = at[v]
  BY <1>1 DEF Commits
<1>3. Handover(w)'
  BY <1>2 DEF Commits, Handover, LateStopAlone, ReadyBranch, Draining,
              PendingStatus, NotFailed, WriterPlaces
<1>4. ASSUME NEW v \in Workers, v # w
      PROVE  Handover(v)'
  <2>1. /\ at'[v] = at[v]
        /\ txn'[Main(v)].loaded = txn[Main(v)].loaded
    BY <1>2, <1>4 DEF Commits, OthersKept
  <2>2. /\ at[v] \notin WriterPlaces
        /\ ~(at[v] = "checking" /\ txn[Main(v)].loaded = "READY")
    BY <1>4, CommitsAlone DEF Commits
  <2>3. QED BY <2>1, <2>2 DEF Handover, LateStopAlone, ReadyBranch, Draining,
                              PendingStatus, NotFailed, WriterPlaces
<1>5. QED BY <1>3, <1>4

\* A step that touches neither the places, nor the status, nor the worker
\* sessions.
LEMMA QuietMoves ==
    ASSUME HandoverInv, NEW w \in Workers,
           row'.status = row.status, at' = at,
           \A v \in Workers : /\ txn'[Main(v)].set = txn[Main(v)].set
                              /\ txn'[Main(v)].loaded = txn[Main(v)].loaded
    PROVE  Moves(w, at[w])
BY DEF HandoverInv, OwnerInv, Moves, OthersKept, Handover, ReadyBranch,
       PendingStatus

\* A step to a place where nothing is pending.
LEMMA PlainMoves ==
    ASSUME HandoverInv, NEW w \in Workers, NEW q,
           row'.status = row.status, at' = [at EXCEPT ![w] = q],
           OthersKept(w),
           q \notin {"checking", "evaluated", "stopping", "draining",
                     "released", "finishing"},
           q \in WriterPlaces => at[w] \in WriterPlaces
    PROVE  Moves(w, q)
BY DEF HandoverInv, OwnerInv, Moves, ReadyBranch, PendingStatus

\* A session of w leaves the others' alone.
LEMMA OthersAfter ==
    ASSUME NEW w \in Workers, NEW s \in {Main(w), Beat(w), Api(w)}, NEW set,
           SetsAfter(s, set)
    PROVE  OthersKept(w)
BY SessionsOf, SessionsDiffer DEF SetsAfter, OthersKept

\* The heartbeat and the requests leave all worker sessions alone.
LEMMA MainsAfter ==
    ASSUME NEW w \in Workers, NEW s \in {Beat(w), Api(w)}, NEW set,
           SetsAfter(s, set)
    PROVE  \A v \in Workers : /\ txn'[Main(v)].set = txn[Main(v)].set
                              /\ txn'[Main(v)].loaded = txn[Main(v)].loaded
BY SessionsOf, SessionsDiffer DEF SetsAfter

\* A step of w either moves it or commits a status.
MovesOrCommits(w) == \E q : Moves(w, q) \/ Commits(w, q)

\* Every step of start() moves the process, or is the COMMIT of recovery.
LEMMA StartHandover ==
    ASSUME HandoverInv, NEW w \in Workers, StartStep(w)
    PROVE  MovesOrCommits(w)
<1> USE SessionsOf DEF HandoverInv, ControlInv
<1>1. CASE \/ Start(w) \/ AcquireLock(w) \/ LockTimeout(w)
           \/ RecoverUpdate(w) \/ StartupFails(w)
  <2>1. /\ row' = row
        /\ OthersKept(w)
    BY <1>1 DEF Start, AcquireLock, LockTimeout, RecoverUpdate, StartupFails,
                OthersKept
  <2>2. \E q \in {"waiting", "acquired", "exiting", "locked"} :
           /\ at' = [at EXCEPT ![w] = q]
           /\ q = "locked" => at[w] = "recovering"
    BY <1>1 DEF Start, AcquireLock, LockTimeout, RecoverUpdate, StartupFails,
                Goes
  <2>3. QED BY <2>1, <2>2, PlainMoves DEF WriterPlaces, MovesOrCommits
<1>2. CASE RecoverBegin(w)
  <2>1. SetsAfter(Main(w), NoColumns) /\ txn'[Main(w)].loaded = row.status
    BY <1>2, LoadSets DEF RecoverBegin
  <2>2. /\ row' = row
        /\ at' = [at EXCEPT ![w] = "checking"]
        /\ at'[w] = "checking"
    BY <1>2 DEF RecoverBegin, Goes, OwnerInv
  <2>3. Moves(w, "checking")
    BY <2>1, <2>2, OthersAfter
       DEF Moves, ReadyBranch, PendingStatus, WriterPlaces
  <2>4. QED BY <2>3 DEF MovesOrCommits
<1>3. CASE RecoverLoad(w)
  <2>1. PICK v \in StartupVerdicts :
           /\ RecoveryEntry(txn[Main(w)].loaded, v)
           /\ Load(Main(w), RecoveryWrite(txn[Main(w)].loaded, v))
    BY <1>3 DEF RecoverLoad
  <2>2. /\ row' = row
        /\ at[w] = "checking"
        /\ at' = [at EXCEPT ![w] = "recovering"]
        /\ at'[w] = "recovering"
    BY <1>3 DEF RecoverLoad, Goes, OwnerInv
  <2>3. OthersKept(w)
    BY <2>1, LoadSets, OthersAfter
  <2>4. row.status \notin {"FAILED", "SHUTTING_DOWN"}
    <3>1. CASE txn[Main(w)].loaded = "READY"
      BY <2>2, <3>1 DEF Handover, ReadyBranch
    <3>2. CASE txn[Main(w)].loaded # "READY"
      BY <2>1, <3>2 DEF RecoveryEntry, ValidTransition, Successors
    <3>3. QED BY <3>1, <3>2
  <2>5. Moves(w, "recovering")
    BY <2>2, <2>3, <2>4 DEF Moves, ReadyBranch, PendingStatus
  <2>6. QED BY <2>5 DEF MovesOrCommits
<1>4. CASE RecoverRefused(w) \/ RecoverConflict(w)
  <2>1. Rollback(Main(w))
    BY <1>4 DEF RecoverRefused, RecoverConflict, VersionConflict
  <2>2. row' = row /\ OthersKept(w)
    BY <2>1, RollbackSets, OthersAfter DEF Rollback
  <2>3. \E q \in {"refused", "exiting"} : at' = [at EXCEPT ![w] = q]
    BY <1>4 DEF RecoverRefused, RecoverConflict, Goes
  <2>4. QED BY <2>2, <2>3, PlainMoves DEF WriterPlaces, MovesOrCommits
<1>5. CASE RecoverCommit(w)
  <2>1. OthersKept(w)
    BY <1>5, CommitSets, OthersAfter DEF RecoverCommit
  <2>2. \E q \in {"syncing", "exiting"} :
           /\ at' = [at EXCEPT ![w] = q]
           /\ q = "syncing" => row'.status # "FAILED"
    BY <1>5 DEF RecoverCommit
  <2>3. at[w] \in CommitPlaces
    BY <1>5 DEF RecoverCommit, CommitPlaces
  <2>4. QED BY <2>1, <2>2, <2>3 DEF Commits, MovesOrCommits
<1>6. CASE Synced(w)
  <2>1. OthersKept(w)
    BY <1>6, OvertakenSets DEF Synced, OthersKept
  <2>2. row' = row /\ at[w] = "syncing" /\ at' = [at EXCEPT ![w] = "running"]
    BY <1>6 DEF Synced, Goes
  <2>3. QED BY <2>1, <2>2, PlainMoves DEF WriterPlaces, MovesOrCommits
<1>7. QED BY <1>1, <1>2, <1>3, <1>4, <1>5, <1>6 DEF StartStep

\* Every step of the readiness evaluation moves the process or commits its
\* status.
LEMMA LoopHandover ==
    ASSUME HandoverInv, NEW w \in Workers, LoopStep(w)
    PROVE  MovesOrCommits(w)
<1> USE SessionsOf DEF HandoverInv, ControlInv
<1>1. CASE Promote(w) \/ Degrade(w)
  <2>1. \E status \in {"READY", "DEGRADED"}, error \in Reasons :
           Load(Main(w), StatusWrite(row.status, status, error))
    BY <1>1 DEF Promote, Degrade, FailureReason, Reasons
  <2>2. PICK set : /\ SetsAfter(Main(w), set)
                   /\ "status" \in DOMAIN set => set.status # "FAILED"
    BY <2>1, LoadSets DEF StatusWrite
  <2>3. /\ row' = row
        /\ at[w] = "running"
        /\ at' = [at EXCEPT ![w] = "evaluated"]
        /\ at'[w] = "evaluated"
    BY <1>1 DEF Promote, Degrade, Goes, OwnerInv
  <2>4. PendingStatus(w)' /\ ReadyBranch(w)'
    BY <2>2, <2>3 DEF SetsAfter, PendingStatus, ReadyBranch
  <2>5. Moves(w, "evaluated")
    BY <2>2, <2>3, <2>4, OthersAfter DEF Moves, WriterPlaces
  <2>6. QED BY <2>5 DEF MovesOrCommits
<1>2. CASE EvaluateNothing(w) \/ ConditionsChange(w)
  <2>1. row' = row /\ at' = at /\ txn' = txn
    BY <1>2 DEF EvaluateNothing, ConditionsChange
  <2>2. QED BY <2>1, QuietMoves DEF MovesOrCommits
<1>3. CASE EvaluateWrite(w)
  <2>1. /\ Commit(Main(w))
        /\ at[w] = "evaluated"
        /\ at' = [at EXCEPT ![w] = "running"]
    BY <1>3 DEF EvaluateWrite, Goes
  <2>2. OthersKept(w)
    BY <2>1, CommitSets, OthersAfter
  <2>3. row.status # "FAILED" /\ PendingStatus(w)
    BY <2>1 DEF Handover, NotFailed, WriterPlaces
  <2>4. row'.status # "FAILED"
    BY <2>1, <2>3
       DEF PendingStatus, Commit, Updated, Columns, SessionsOK, Row
  <2>5. Commits(w, "running")
    BY <2>1, <2>2, <2>4 DEF Commits, CommitPlaces
  <2>6. QED BY <2>5 DEF MovesOrCommits
<1>4. CASE EvaluateFails(w)
  <2>1. row' = row /\ OthersKept(w)
    BY <1>4, RollbackSets, OthersAfter DEF EvaluateFails, Rollback
  <2>2. /\ at[w] = "evaluated"
        /\ \E q \in {"running", "exiting"} : at' = [at EXCEPT ![w] = q]
    BY <1>4 DEF EvaluateFails
  <2>3. QED BY <2>1, <2>2, PlainMoves DEF WriterPlaces, MovesOrCommits
<1>5. QED BY <1>1, <1>2, <1>3, <1>4 DEF LoopStep

\* The heartbeat only writes its own columns.
LEMMA BeatHandover ==
    ASSUME HandoverInv, NEW w \in Workers, BeatStep(w)
    PROVE  MovesOrCommits(w)
<1> USE SessionsOf DEF HandoverInv, ControlInv
<1>1. row' = row /\ at' = at
  BY DEF BeatStep, BeatLoad, BeatWrite, BeatVerified, BeatFails, Rollback
<1>2. \A v \in Workers : /\ txn'[Main(v)].set = txn[Main(v)].set
                         /\ txn'[Main(v)].loaded = txn[Main(v)].loaded
  <2>1. CASE BeatLoad(w)
    BY <2>1, LoadSets, MainsAfter DEF BeatLoad
  <2>2. CASE BeatWrite(w)
    BY <2>2, OvertakenSets DEF BeatWrite
  <2>3. CASE BeatVerified(w) \/ BeatFails(w)
    BY <2>3, RollbackSets, MainsAfter DEF BeatVerified, BeatFails
  <2>4. QED BY <2>1, <2>2, <2>3 DEF BeatStep
<1>3. QED BY <1>1, <1>2, QuietMoves DEF MovesOrCommits

\* Every step of stop() and the end of a process move it, or commit
\* SHUTTING_DOWN or STOPPED.
LEMMA StopHandover ==
    ASSUME ~ConnectionsDrop, HandoverInv, NEW w \in Workers, StopStep(w)
    PROVE  MovesOrCommits(w)
<1> USE SessionsOf DEF HandoverInv, ControlInv
<1>1. CASE Stop(w)
  <2>1. SetsAfter(Main(w), [status |-> "SHUTTING_DOWN"])
    BY <1>1, LoadSets DEF Stop
  <2>2. /\ row' = row
        /\ at[w] = "running"
        /\ at' = [at EXCEPT ![w] = "stopping"]
        /\ at'[w] = "stopping"
    BY <1>1 DEF Stop, Goes, OwnerInv
  <2>3. PendingStatus(w)' /\ ReadyBranch(w)'
    BY <2>1, <2>2 DEF SetsAfter, PendingStatus, ReadyBranch
  <2>4. Moves(w, "stopping")
    BY <2>1, <2>2, <2>3, OthersAfter DEF Moves, WriterPlaces
  <2>5. QED BY <2>4 DEF MovesOrCommits
<1>2. CASE StopWrite(w)
  <2>1. /\ Commit(Main(w))
        /\ at[w] = "stopping"
        /\ at' = [at EXCEPT ![w] = "draining"]
    BY <1>2 DEF StopWrite, Goes
  <2>2. OthersKept(w)
    BY <2>1, CommitSets, OthersAfter
  <2>3. txn[Main(w)].set = [status |-> "SHUTTING_DOWN"]
    BY <2>1 DEF Handover, PendingStatus
  <2>4. row'.status = "SHUTTING_DOWN"
    BY <2>1, <2>3 DEF Commit, Updated, Columns
  <2>5. Commits(w, "draining")
    BY <2>1, <2>2, <2>4 DEF Commits, CommitPlaces
  <2>6. QED BY <2>5 DEF MovesOrCommits
<1>3. CASE StopFails(w)
  <2>1. row' = row /\ OthersKept(w)
    BY <1>3, RollbackSets, OthersAfter DEF StopFails, Rollback
  <2>2. at' = [at EXCEPT ![w] = "exiting"]
    BY <1>3 DEF StopFails, Goes
  <2>3. QED BY <2>1, <2>2, PlainMoves DEF WriterPlaces, MovesOrCommits
<1>4. CASE Release(w)
  <2>1. row' = row /\ OthersKept(w) /\ at[w] = "draining"
    BY <1>4 DEF Release, OthersKept
  <2>2. PICK q \in {"released", "exiting"} : at' = [at EXCEPT ![w] = q]
    BY <1>4 DEF Release
  <2>3. at'[w] = q
    BY <2>2 DEF OwnerInv
  <2>4. Moves(w, q)
    BY <2>1, <2>2, <2>3 DEF Moves, ReadyBranch, PendingStatus, WriterPlaces
  <2>5. QED BY <2>4 DEF MovesOrCommits
<1>5. CASE FinishLoad(w)
  <2>1. OthersKept(w)
    BY <1>5, LoadSets, OthersAfter DEF FinishLoad
  <2>2. /\ row' = row
        /\ at[w] = "released"
        /\ at' = [at EXCEPT ![w] = "finishing"]
        /\ at'[w] = "finishing"
    BY <1>5 DEF FinishLoad, Goes, OwnerInv
  <2>3. Moves(w, "finishing")
    BY <2>1, <2>2 DEF Moves, ReadyBranch, PendingStatus, WriterPlaces
  <2>4. QED BY <2>3 DEF MovesOrCommits
<1>6. CASE FinishWrite(w)
  <2>1. /\ Commit(Main(w))
        /\ at[w] = "finishing"
        /\ at' = [at EXCEPT ![w] = "exiting"]
    BY <1>6 DEF FinishWrite, Goes
  <2>2. OthersKept(w)
    BY <2>1, CommitSets, OthersAfter
  <2>3. Commits(w, "exiting")
    BY <2>1, <2>2 DEF Commits, CommitPlaces
  <2>4. QED BY <2>3 DEF MovesOrCommits
<1>7. CASE StopInvalid(w) \/ FinishSkipped(w)
  <2>1. row' = row /\ OthersKept(w) /\ at' = [at EXCEPT ![w] = "exiting"]
    BY <1>7 DEF StopInvalid, FinishSkipped, Goes, OthersKept
  <2>2. QED BY <2>1, PlainMoves DEF WriterPlaces, MovesOrCommits
<1>8. CASE ProcessExit(w) \/ Crash(w)
  <2>1. Gone(w)
    BY <1>8 DEF ProcessExit, Crash
  <2>2. row' = row /\ OthersKept(w) /\ at' = [at EXCEPT ![w] = "off"]
    BY <2>1, GoneSets DEF Gone, OthersKept
  <2>3. QED BY <2>2, PlainMoves DEF WriterPlaces, MovesOrCommits
<1>9. CASE LockConnectionLost(w)
  BY <1>9 DEF LockConnectionLost
<1>10. QED BY <1>1, <1>2, <1>3, <1>4, <1>5, <1>6, <1>7, <1>8, <1>9
           DEF StopStep

\* Requests other than recover write no status.
LEMMA RequestHandover ==
    ASSUME "recover" \notin Kinds, HandoverInv, NEW w \in Workers, ApiStep(w)
    PROVE  MovesOrCommits(w)
<1> USE SessionsOf DEF HandoverInv, ControlInv
<1>1. request[w].kind # "recover"
  BY DEF ProcessesOK, Request
<1>2. request[w].at \notin {"checking", "locked"}
  BY <1>1 DEF WritersInv
<1>3. at' = at
  BY DEF ApiStep, RequestBegin, RequestWrite, RequestConflict, RecoverRequest,
         RecoverRequestLocks, RecoverRequested, RecoverRequestLoad,
         RecoverRequestEnds, RecoverRequestUpdate, RecoverRequestCommit
<1>4. CASE RequestBegin(w)
  <2>1. \E set : Load(Api(w), set)
    BY <1>4 DEF RequestBegin
  <2>2. \E set : SetsAfter(Api(w), set)
    BY <2>1, LoadSets
  <2>3. row' = row
    BY <1>4 DEF RequestBegin
  <2>4. QED BY <1>3, <2>2, <2>3, MainsAfter, QuietMoves DEF MovesOrCommits
<1>5. CASE RequestWrite(w)
  <2>1. SetsAfter(Api(w), NoColumns)
    BY <1>5, CommitSets, RollbackSets DEF RequestWrite
  <2>2. row'.status = row.status
    <3>1. CASE Rollback(Api(w))
      BY <3>1 DEF Rollback
    <3>2. CASE Commit(Api(w)) /\ request[w].kind # "resume"
      <4>1. request[w].kind \in {"pause", "kill"}
        BY <1>1, <1>5, <3>2, WorkerAssumption
           DEF RequestWrite, WritersInv, ProcessesOK, Request
      <4>2. "status" \notin DOMAIN txn[Api(w)].set
        BY <4>1 DEF WritersInv
      <4>3. QED BY <3>2, <4>2 DEF Commit, Updated, Columns
    <3>3. QED BY <1>5, <3>1, <3>2 DEF RequestWrite, OwnTransaction
  <2>3. QED BY <1>3, <2>1, <2>2, MainsAfter, QuietMoves DEF MovesOrCommits
<1>6. CASE RequestConflict(w)
  <2>1. row' = row /\ SetsAfter(Api(w), NoColumns)
    BY <1>6, RollbackSets DEF RequestConflict, VersionConflict, Rollback
  <2>2. QED BY <1>3, <2>1, MainsAfter, QuietMoves DEF MovesOrCommits
<1>7. QED BY <1>1, <1>2, <1>4, <1>5, <1>6
          DEF ApiStep, RecoverRequest, RecoverRequestLocks, RecoverRequested,
              RecoverRequestLoad, RecoverRequestEnds, RecoverRequestUpdate,
              RecoverRequestCommit

\* Every step of a process moves it or commits a status.
LEMMA StepHandover ==
    ASSUME ~ConnectionsDrop, "recover" \notin Kinds, HandoverInv,
           NEW w \in Workers,
           \/ StartStep(w) \/ LoopStep(w) \/ BeatStep(w)
           \/ StopStep(w) \/ ApiStep(w)
    PROVE  MovesOrCommits(w)
BY StartHandover, LoopHandover, BeatHandover, StopHandover, RequestHandover

\* The status changes only in a COMMIT of a process that nobody else
\* depends on, and never from FAILED.
LEMMA StatusWriter ==
    ASSUME HandoverInv, NEW w \in Workers, MovesOrCommits(w)
    PROVE  \/ row'.status = row.status
           \/ /\ at'[w] # at[w]
              /\ row.status # "FAILED"
              /\ \A v \in Workers : v # w => at[v] \notin WriterPlaces
<1>1. PICK q : Moves(w, q) \/ Commits(w, q)
  BY DEF MovesOrCommits
<1>2. CASE Moves(w, q)
  BY <1>2 DEF Moves
<1>3. CASE Commits(w, q)
  <2>1. at'[w] # at[w]
    BY <1>3 DEF Commits, CommitPlaces, HandoverInv, OwnerInv
  <2>2. row.status # "FAILED"
    BY <1>3 DEF Commits, CommitPlaces, WriterPlaces, HandoverInv, Handover,
                NotFailed
  <2>3. \A v \in Workers : v # w => at[v] \notin WriterPlaces
    BY <1>3, CommitsAlone DEF Commits
  <2>4. QED BY <2>1, <2>2, <2>3
<1>4. QED BY <1>1, <1>2, <1>3

\* The hand-over's invariant holds while the lock's connection is not lost
\* and no recovery is requested.
LEMMA HandoverInvariance ==
    ASSUME ~ConnectionsDrop, "recover" \notin Kinds
    PROVE  Spec => []HandoverInv
<1>1. Init => HandoverInv
  <2> SUFFICES ASSUME Init PROVE HandoverInv
    OBVIOUS
  <2>1. ControlInv
    BY ControlInit
  <2>2. OwnerInv
    BY DEF Init, OwnerInv, Places, LockPlaces, Idle, Request
  <2>3. \A w \in Workers : Handover(w)
    BY DEF Init, Handover, LateStopAlone, ReadyBranch, Draining,
           PendingStatus, NotFailed, WriterPlaces
  <2>4. QED BY <2>1, <2>2, <2>3 DEF HandoverInv
<1>2. HandoverInv /\ [Next]_vars => HandoverInv'
  <2> SUFFICES ASSUME HandoverInv, [Next]_vars PROVE HandoverInv'
    OBVIOUS
  <2>1. ControlInv' /\ OwnerInv'
    BY ControlStep, OwnerStep DEF HandoverInv
  <2>2. \A w \in Workers : Handover(w)'
    <3>1. CASE UNCHANGED vars
      BY <3>1 DEF vars, HandoverInv, Handover, LateStopAlone, ReadyBranch,
                  Draining, PendingStatus, NotFailed
    <3>2. CASE Next
      BY <3>2, StepHandover, MovesHandover, CommitsHandover
         DEF Next, MovesOrCommits
    <3>3. QED BY <3>1, <3>2
  <2>3. QED BY <2>1, <2>2 DEF HandoverInv
<1>3. QED BY <1>1, <1>2, PTL DEF Spec

\* While the lock's connection is not lost and no recovery is requested,
\* nobody but the process that has recovered changes the status, until it has
\* released the lock (stop()).
THEOREM StatusOwned ==
    ASSUME ~ConnectionsDrop, "recover" \notin Kinds
    PROVE  Spec => SuccessorNotClobbered
<1>1. HandoverInv /\ [Next]_vars =>
         [\A w \in Workers :
             Established(w) /\ UNCHANGED <<at[w], request[w]>>
                => row'.status = row.status]_vars
  <2> SUFFICES ASSUME HandoverInv, Next, NEW w \in Workers, Established(w),
                      UNCHANGED <<at[w], request[w]>>
               PROVE  row'.status = row.status
    OBVIOUS
  <2>1. at[w] \in WriterPlaces
    BY DEF Established, WriterPlaces
  <2>2. QED BY <2>1, StepHandover, StatusWriter DEF Next
<1>2. QED BY <1>1, HandoverInvariance, PTL DEF Spec, SuccessorNotClobbered

-----------------------------------------------------------------------------
(* FAILED is lost only to a stale write, for every set of requests and with *)
(* or without lost connections.                                             *)

\* A session that is not stale has seen the status of the row, and who has
\* seen FAILED writes no other status.
Fresh(s) ==
    /\ Active(s) /\ ~txn[s].stale => txn[s].loaded = row.status
    /\ ~Active(s) => txn[s].set = NoColumns
    /\ txn[s].loaded = "FAILED" /\ "status" \in DOMAIN txn[s].set
          => txn[s].set.status = "FAILED"

\* The inductive invariant.
FreshInv == SessionsOK /\ ProcessesOK /\ \A s \in Sessions : Fresh(s)

\* Columns that may be written after the row was read.
HeedsFailed(set) ==
    row.status = "FAILED" /\ "status" \in DOMAIN set => set.status = "FAILED"

\* A step that loads the row, one that commits, and one that does neither.
Loads == row' = row /\ \E s \in Sessions, set \in Writes : Load(s, set) /\ HeedsFailed(set)
CommitsOne == \E s \in Sessions : Commit(s)
Keeps ==
    /\ row' = row
    /\ txn' \in [Sessions -> Txn]
    /\ \A t \in Sessions : txn'[t] \in {txn[t], NoTxn, Overtaken(t)}

\* What recovery asks for heeds FAILED: from FAILED no transition leads on.
LEMMA RecoveryHeeds ==
    ASSUME NEW branch, NEW v \in Status, RecoveryEntry(branch, v)
    PROVE  HeedsFailed(RecoveryWrite(branch, v))
<1>1. SUFFICES ASSUME row.status = "FAILED"
               PROVE  "status" \notin DOMAIN RecoveryWrite(branch, v)
  BY DEF HeedsFailed
<1>2. Successors("FAILED") = {}
  BY DEF Successors
<1>3. branch = "READY" /\ v = "FAILED"
  BY <1>1, <1>2 DEF RecoveryEntry, ValidTransition
<1>4. QED BY <1>1, <1>3 DEF RecoveryWrite, StatusWrite

\* A ROLLBACK is a step that neither loads nor commits.
LEMMA RollbackKeeps ==
    ASSUME SessionsOK, NEW s \in Sessions, Rollback(s)
    PROVE  Keeps
BY NoTxnType DEF SessionsOK, Rollback, Keeps

\* Every step is one of the three.
LEMMA StepIsOneOf ==
    ASSUME SessionsOK, ProcessesOK, NEW w \in Workers,
           \/ StartStep(w) \/ LoopStep(w) \/ BeatStep(w)
           \/ StopStep(w) \/ ApiStep(w)
    PROVE  Loads \/ CommitsOne \/ Keeps
<1> USE SessionsOf
<1>1. ASSUME row' = row, txn' = txn PROVE Keeps
  BY <1>1 DEF Keeps, SessionsOK
<1>2. ASSUME row' = row, NEW t \in Sessions, Load(t, NoColumns) PROVE Loads
  <2>1. NoColumns \in Writes /\ HeedsFailed(NoColumns)
    BY PlainWrites DEF HeedsFailed, NoColumns
  <2>2. QED BY <1>2, <2>1 DEF Loads
<1>3. CASE StartStep(w)
  <2>1. CASE \/ Start(w) \/ AcquireLock(w) \/ LockTimeout(w) \/ RecoverUpdate(w)
             \/ StartupFails(w)
    BY <2>1, <1>1 DEF Start, AcquireLock, LockTimeout, RecoverUpdate, StartupFails
  <2>2. CASE RecoverBegin(w)
    BY <2>2, <1>2 DEF RecoverBegin
  <2>3. CASE RecoverLoad(w)
    <3>1. PICK v \in StartupVerdicts :
             /\ RecoveryEntry(txn[Main(w)].loaded, v)
             /\ Load(Main(w), RecoveryWrite(txn[Main(w)].loaded, v))
      BY <2>3 DEF RecoverLoad
    <3>2. v \in Status
      BY DEF StartupVerdicts, Status
    <3>3. QED BY <2>3, <3>1, <3>2, RecoveryHeeds, RecoveryWriteType
                 DEF Loads, RecoverLoad
  <2>4. CASE RecoverRefused(w) \/ RecoverConflict(w)
    BY <2>4, RollbackKeeps DEF RecoverRefused, RecoverConflict, VersionConflict
  <2>5. CASE RecoverCommit(w)
    BY <2>5 DEF RecoverCommit, CommitsOne
  <2>6. CASE Synced(w)
    BY <2>6, OvertakenType DEF Synced, Keeps
  <2>7. QED BY <1>3, <2>1, <2>2, <2>3, <2>4, <2>5, <2>6 DEF StartStep
<1>4. CASE LoopStep(w)
  <2>1. CASE Promote(w)
    <3>1. StatusWrite(row.status, "READY", "none") \in Writes
      BY StatusWriteType DEF Status, Reasons
    <3>2. HeedsFailed(StatusWrite(row.status, "READY", "none"))
      BY <2>1 DEF Promote, PromotableStatuses, HeedsFailed
    <3>3. QED BY <2>1, <3>1, <3>2 DEF Promote, Loads
  <2>2. CASE Degrade(w)
    <3>1. row.status # "FAILED"
      BY <2>2 DEF Degrade, Lapsed, Relabelled
    <3>2. PICK e \in Reasons : Load(Main(w), StatusWrite(row.status, "DEGRADED", e))
      BY <2>2 DEF Degrade, FailureReason, Reasons
    <3>3. StatusWrite(row.status, "DEGRADED", e) \in Writes
      BY StatusWriteType DEF Status
    <3>4. QED BY <2>2, <3>1, <3>2, <3>3 DEF Degrade, Loads, HeedsFailed
  <2>3. CASE EvaluateNothing(w) \/ ConditionsChange(w)
    BY <2>3, <1>1 DEF EvaluateNothing, ConditionsChange
  <2>4. CASE EvaluateWrite(w)
    BY <2>4 DEF EvaluateWrite, CommitsOne
  <2>5. CASE EvaluateFails(w)
    BY <2>5, RollbackKeeps DEF EvaluateFails
  <2>6. QED BY <1>4, <2>1, <2>2, <2>3, <2>4, <2>5 DEF LoopStep
<1>5. CASE BeatStep(w)
  <2>1. CASE BeatLoad(w)
    BY <2>1, <1>2 DEF BeatLoad
  <2>2. CASE BeatWrite(w)
    BY <2>2, OvertakenType DEF BeatWrite, Keeps, SessionsOK
  <2>3. CASE BeatVerified(w) \/ BeatFails(w)
    BY <2>3, RollbackKeeps DEF BeatVerified, BeatFails
  <2>4. QED BY <1>5, <2>1, <2>2, <2>3 DEF BeatStep
<1>6. CASE StopStep(w)
  <2>1. CASE Stop(w)
    <3>1. row.status # "FAILED"
      BY <2>1 DEF Stop, ValidTransition, Successors
    <3>2. QED BY <2>1, <3>1, PlainWrites DEF Stop, Loads, HeedsFailed
  <2>2. CASE \/ StopInvalid(w) \/ Release(w) \/ FinishSkipped(w)
             \/ LockConnectionLost(w)
    BY <2>2, <1>1 DEF StopInvalid, Release, FinishSkipped, LockConnectionLost
  <2>3. CASE StopWrite(w) \/ FinishWrite(w)
    BY <2>3 DEF StopWrite, FinishWrite, CommitsOne
  <2>4. CASE StopFails(w)
    BY <2>4, RollbackKeeps DEF StopFails
  <2>5. CASE FinishLoad(w)
    BY <2>5, PlainWrites DEF FinishLoad, Loads, HeedsFailed
  <2>6. CASE ProcessExit(w) \/ Crash(w)
    <3>1. Gone(w)
      BY <2>6 DEF ProcessExit, Crash
    <3>2. QED BY <3>1, NoTxnType DEF Gone, Keeps, SessionsOK
  <2>7. QED BY <1>6, <2>1, <2>2, <2>3, <2>4, <2>5, <2>6 DEF StopStep
<1>7. CASE ApiStep(w)
  <2>1. CASE RequestBegin(w)
    <3>1. PICK k \in Kinds \ {"recover"} : Load(Api(w), RequestColumns[k])
      BY <2>1 DEF RequestBegin
    <3>2. k \in {"pause", "resume", "kill"}
      BY WorkerAssumption
    <3>3. RequestColumns[k] \in Writes
      BY <3>2, PlainWrites
    <3>4. "status" \notin DOMAIN RequestColumns[k]
      BY <3>2 DEF RequestColumns
    <3>5. QED BY <2>1, <3>1, <3>3, <3>4 DEF RequestBegin, Loads, HeedsFailed
  <2>2. CASE RequestWrite(w)
    BY <2>2, RollbackKeeps DEF RequestWrite, CommitsOne
  <2>3. CASE RequestConflict(w) \/ RecoverRequestEnds(w)
    BY <2>3, RollbackKeeps DEF RequestConflict, RecoverRequestEnds, VersionConflict
  <2>4. CASE RecoverRequest(w) \/ RecoverRequestLocks(w)
    BY <2>4, <1>2 DEF RecoverRequest, RecoverRequestLocks, RecoverRequested
  <2>5. CASE RecoverRequestLoad(w)
    <3>1. PICK v \in RequestVerdicts :
             /\ RecoveryEntry(txn[Api(w)].loaded, v)
             /\ Load(Api(w), RecoveryWrite(txn[Api(w)].loaded, v))
      BY <2>5 DEF RecoverRequestLoad
    <3>2. v \in Status
      BY DEF RequestVerdicts, Status
    <3>3. QED BY <2>5, <3>1, <3>2, RecoveryHeeds, RecoveryWriteType
                 DEF Loads, RecoverRequestLoad
  <2>6. CASE RecoverRequestUpdate(w)
    BY <2>6, <1>1 DEF RecoverRequestUpdate
  <2>7. CASE RecoverRequestCommit(w)
    BY <2>7 DEF RecoverRequestCommit, CommitsOne
  <2>8. QED BY <1>7, <2>1, <2>2, <2>3, <2>4, <2>5, <2>6, <2>7 DEF ApiStep
<1>8. QED BY <1>3, <1>4, <1>5, <1>6, <1>7

\* An empty session is fresh, and a foreign commit keeps one fresh.
LEMMA FreshKept ==
    ASSUME SessionsOK, NEW t \in Sessions, Fresh(t),
           \/ txn'[t] = NoTxn
           \/ txn'[t] = Overtaken(t)
           \/ txn'[t] = txn[t] /\ row'.status = row.status
    PROVE  Fresh(t)'
<1>1. txn[t] \in Txn
  BY DEF SessionsOK
<1>2. CASE txn'[t] = NoTxn
  BY <1>2 DEF Fresh, Active, NoTxn, NoColumns
<1>3. CASE txn'[t] = Overtaken(t)
  <2>1. /\ txn'[t].set = txn[t].set /\ txn'[t].loaded = txn[t].loaded
        /\ txn'[t].stale = Active(t)
    BY <1>1, <1>3 DEF Overtaken, Txn
  <2>2. QED BY <2>1 DEF Fresh, Active
<1>4. CASE txn'[t] = txn[t] /\ row'.status = row.status
  BY <1>4 DEF Fresh, Active
<1>5. QED BY <1>2, <1>3, <1>4

\* Every step keeps the sessions fresh.
LEMMA FreshStep ==
    ASSUME SessionsOK, \A s \in Sessions : Fresh(s), Loads \/ CommitsOne \/ Keeps,
           NEW t \in Sessions
    PROVE  Fresh(t)'
<1>1. CASE Keeps
  BY <1>1, FreshKept DEF Keeps
<1>2. CASE CommitsOne
  BY <1>2, FreshKept DEF CommitsOne, Commit
<1>3. CASE Loads
  <2>1. PICK s \in Sessions, set \in Writes : Load(s, set) /\ HeedsFailed(set)
    BY <1>3 DEF Loads
  <2>2. CASE t = s
    <3>1. txn'[t] = [set |-> set, loaded |-> row.status, stale |-> FALSE]
      BY <2>1, <2>2 DEF Load, SessionsOK
    <3>2. row.status # "none"
      BY DEF SessionsOK, Row, Status
    <3>3. row' = row
      BY <1>3 DEF Loads
    <3>4. QED BY <2>1, <3>1, <3>2, <3>3 DEF Fresh, Active, HeedsFailed
  <2>3. CASE t # s
    <3>1. txn'[t] = txn[t] /\ row' = row
      BY <1>3, <2>1, <2>3 DEF Load, SessionsOK, Loads
    <3>2. QED BY <3>1, FreshKept
  <2>4. QED BY <2>2, <2>3
<1>4. QED BY <1>1, <1>2, <1>3

\* For every set of processes and requests, with or without lost connections,
\* a FAILED status is replaced only by the COMMIT of a session that had read the
\* row before FAILED was committed (_evaluate_runtime_readiness,
\* recover_on_startup, stop(), update_runtime_state).
THEOREM FailedHeeded == Spec => FailedOnlyOverwritten
<1>1. Init => FreshInv
  <2> SUFFICES ASSUME Init PROVE FreshInv
    OBVIOUS
  <2>1. \A s \in Sessions : txn[s] = NoTxn
    BY DEF Init
  <2>2. \A s \in Sessions : Fresh(s)
    BY <2>1 DEF Fresh, Active, NoTxn, NoColumns
  <2>3. QED BY <2>2, InitTypes DEF FreshInv
<1>2. FreshInv /\ [Next]_vars => FreshInv'
  <2> SUFFICES ASSUME FreshInv, [Next]_vars PROVE FreshInv'
    OBVIOUS
  <2>1. CASE UNCHANGED vars
    BY <2>1 DEF vars, FreshInv, SessionsOK, ProcessesOK, Fresh, Active
  <2>2. CASE Next
    <3>1. SessionsOK' /\ ProcessesOK'
      BY <2>2, SessionsStep, ProcessesStep DEF Next, FreshInv
    <3>2. \A t \in Sessions : Fresh(t)'
      BY <2>2, StepIsOneOf, FreshStep DEF Next, FreshInv
    <3>3. QED BY <3>1, <3>2 DEF FreshInv
  <2>3. QED BY <2>1, <2>2
<1>3. FreshInv /\ [Next]_vars =>
         [row.status = "FAILED" /\ row'.status # "FAILED"
             => \E s \in Sessions :
                   /\ txn[s].stale /\ txn'[s] = NoTxn
                   /\ "status" \in DOMAIN txn[s].set]_vars
  <2> SUFFICES ASSUME FreshInv, Next, row.status = "FAILED", row'.status # "FAILED"
               PROVE  \E s \in Sessions :
                         /\ txn[s].stale /\ txn'[s] = NoTxn
                         /\ "status" \in DOMAIN txn[s].set
    OBVIOUS
  <2>1. PICK s \in Sessions : Commit(s)
    BY StepIsOneOf DEF Next, FreshInv, Loads, CommitsOne, Keeps
  <2>2. "status" \in DOMAIN txn[s].set /\ txn[s].set.status # "FAILED"
    BY <2>1 DEF Commit, Updated, Columns
  <2>3. txn'[s] = NoTxn
    BY <2>1 DEF Commit
  <2>4. txn[s] \in Txn /\ Fresh(s)
    BY DEF FreshInv, SessionsOK
  <2>5. Active(s)
    BY <2>2, <2>4 DEF Fresh, NoColumns
  <2>6. txn[s].stale
    BY <2>2, <2>4, <2>5 DEF Fresh, Txn
  <2>7. QED BY <2>2, <2>3, <2>6
<1>4. QED BY <1>1, <1>2, <1>3, PTL DEF Spec, FailedOnlyOverwritten
=============================================================================
