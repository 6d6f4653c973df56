--------------------------- MODULE ResearchJobsProofs ---------------------------
(***************************************************************************)
(* The research job store, for any number of processes, crashes and child  *)
(* runs, when one process receives the create and start requests: a job is *)
(* claimed once, what is reported is backed by whole files, and every step *)
(* is a step of the contract.                                              *)
(***************************************************************************)
EXTENDS ResearchJobs, SequenceTheorems, TLAPS

\* start does not hold the file lock, so requests must come through one process.
OneRequester == \A p, q \in RequestProcs: p = q

--------------------------------------------------------------------------------
(* The inductive invariant. *)

ThreadRec == [proc: Procs, pc: ThreadPcs, lease: 0 .. MaxThreads, beating: BOOLEAN,
              at: 1 .. NChildren, outcome: {"none", "complete", "failed"}]
OpRec == [kind: OpKinds \cup {"none"}, job: Job, by: 0 .. MaxThreads]
RegistryLine == [run: RunIds, status: {"complete", "invalidated"}]

Requested == {"absent", "created"}

\* At most one process is between a read and a write under the file lock.
LockExclusive ==
    \A p, q \in Procs: op[p].kind \in FileLocked /\ op[q].kind \in FileLocked => p = q

\* A job is claimed once, and not before it is queued; so leases and seals are 1.
ClaimedOnce ==
    /\ claims \in {0, 1} /\ manifest \in {0, 1}
    /\ file.status \in Requested \cup {"queued"} => claims = 0

\* What an operation in flight may rely on when it writes.
OpOK(p) ==
    /\ op[p].kind \in {"create", "start"} => p \in RequestProcs /\ file.status \in Requested
    /\ op[p].kind \notin {"none", "create", "start"} => file.status \notin Requested
    /\ op[p].kind = "claim" => claims = 0 /\ op[p].by \in DOMAIN thread
    /\ op[p].kind \in {"renew", "finish", "sealed"} =>
          op[p].by \in DOMAIN thread /\ thread[op[p].by].lease # 0
    /\ op[p].kind = "renew" => op[p].job.status = "running"
    /\ op[p].kind = "sealed" =>
          kind = "experiment" /\ artifacts[1] = "complete" /\ Reported(1) # "unknown"

\* Only the thread that claimed works; between the existence check and the end of
\* the move the directory is its own; a suite that completed has its manifest.
ThreadOK(t) ==
    /\ thread[t].lease # 0 => thread[t].lease = 1 /\ claims = 1
    /\ thread[t].pc \notin {"dispatched", "done"} => thread[t].lease # 0
    /\ thread[t].pc = "moving" => artifacts[thread[t].at] = "absent"
    /\ thread[t].pc = "moved" => artifacts[thread[t].at] = "partial"
    /\ thread[t].outcome = "complete" /\ kind # "experiment" => manifest = 1

\* An invalidated run was registered over complete artifacts.
SidecarIsBacked == \A r \in sidecar: artifacts[r] = "complete"

JobInv ==
    /\ TypeOK /\ Len(thread) <= MaxThreads
    /\ LockExclusive /\ ClaimedOnce
    /\ \A p \in Procs: OpOK(p)
    /\ \A t \in DOMAIN thread: ThreadOK(t)
    /\ AtMostOneRunner
    /\ SidecarIsBacked /\ RegistryIsBacked /\ CompletedIsBacked

--------------------------------------------------------------------------------
(* Threads. *)

\* The threads are a sequence: what one more thread, or a change of one, leaves.
LEMMA ThreadDomain ==
    ASSUME JobInv
    PROVE  /\ thread \in Seq(ThreadRec) /\ Len(thread) \in 0 .. MaxThreads
           /\ DOMAIN thread = 1 .. Len(thread) /\ DOMAIN thread \subseteq 1 .. MaxThreads
           /\ \A t \in DOMAIN thread: thread[t] \in ThreadRec
<1>1. thread \in Seq(ThreadRec) /\ Len(thread) <= MaxThreads
  BY DEF JobInv, TypeOK, ThreadRec
<1>2. /\ Len(thread) \in Nat /\ DOMAIN thread = 1 .. Len(thread)
      /\ thread \in [1 .. Len(thread) -> ThreadRec]
  BY <1>1, LenProperties
<1>. QED
  BY <1>1, <1>2, JobAssumptions

\* The sequence of threads when one of them changes.
LEMMA ThreadChanged ==
    ASSUME JobInv, NEW t \in DOMAIN thread, NEW r \in ThreadRec,
           thread' = [thread EXCEPT ![t] = r]
    PROVE  /\ thread' \in Seq(ThreadRec) /\ Len(thread') = Len(thread)
           /\ DOMAIN thread' = DOMAIN thread /\ thread'[t] = r
           /\ \A u \in DOMAIN thread: u # t => thread'[u] = thread[u]
<1>1. thread \in Seq(ThreadRec) /\ t \in 1 .. Len(thread) /\ DOMAIN thread = 1 .. Len(thread)
  BY ThreadDomain
<1>2. thread' \in Seq(ThreadRec) /\ Len(thread') = Len(thread)
  BY <1>1, ExceptSeq
<1>3. DOMAIN thread' = DOMAIN thread
  OBVIOUS
<1>. QED
  BY <1>2, <1>3

\* The sequence of threads after a dispatch.
LEMMA ThreadAdded ==
    ASSUME JobInv, NEW p \in Procs, Dispatch(p)
    PROVE  /\ thread' \in Seq(ThreadRec) /\ Len(thread') \in 1 .. MaxThreads
           /\ DOMAIN thread' = DOMAIN thread \cup {Len(thread) + 1}
           /\ thread'[Len(thread) + 1] = NewThread(p)
           /\ \A u \in DOMAIN thread: thread'[u] = thread[u]
           /\ active' \in [Procs -> 0 .. MaxThreads]
<1>1. thread \in Seq(ThreadRec) /\ Len(thread) \in Nat /\ DOMAIN thread = 1 .. Len(thread)
  BY ThreadDomain
<1>2. NewThread(p) \in ThreadRec
  BY JobAssumptions DEF NewThread, ThreadRec, ThreadPcs
<1>3. /\ thread' \in Seq(ThreadRec) /\ Len(thread') = Len(thread) + 1
      /\ \A u \in 1 .. Len(thread): thread'[u] = thread[u]
      /\ thread'[Len(thread) + 1] = NewThread(p)
  BY <1>1, <1>2, AppendProperties DEF Dispatch
<1>4. DOMAIN thread' = 1 .. Len(thread')
  BY <1>3, LenProperties
<1>5. Len(thread) < MaxThreads /\ MaxThreads \in Nat
  BY JobAssumptions DEF Dispatch
<1>6. active' \in [Procs -> 0 .. MaxThreads]
  BY <1>1, <1>5 DEF Dispatch, JobInv, TypeOK
<1>. QED
  BY <1>1, <1>3, <1>4, <1>5, <1>6

\* No thread forgets its lease.
LeasesStay ==
    \A t \in DOMAIN thread: t \in DOMAIN thread' /\ thread'[t].lease = thread[t].lease

--------------------------------------------------------------------------------
(* Frames: what a part of the invariant does not notice. *)

\* The runs reported and the artifacts that back them only grow.
RunsGrow ==
    /\ kind' = kind
    /\ \A r \in RunIds: artifacts[r] = "complete" => artifacts'[r] = "complete"
    /\ \A r \in RunIds: Reported(r) # "unknown" => Reported(r)' # "unknown"

\* The first run is a run.
LEMMA OneIsRun == 1 \in RunIds
BY JobAssumptions DEF RunIds

\* An operation in flight whose process does nothing.
LEMMA OpKept ==
    ASSUME JobInv, RunsGrow, LeasesStay, claims' = claims,
           file.status \in Requested <=> file'.status \in Requested,
           NEW q \in Procs, op'[q] = op[q]
    PROVE  OpOK(q)'
<1>1. OpOK(q)
  BY DEF JobInv
<1>2. op[q].kind = "sealed" => artifacts'[1] = "complete" /\ Reported(1)' # "unknown"
  BY <1>1, OneIsRun DEF OpOK, RunsGrow
<1>. QED
  BY <1>1, <1>2 DEF OpOK, RunsGrow, LeasesStay

\* A process between two operations.
LEMMA NoOpOK ==
    ASSUME NEW q \in Procs, op'[q] = NoOp
    PROVE  OpOK(q)'
BY DEF OpOK, NoOp

\* A thread that does nothing, while the directory it moves is left alone.
LEMMA ThreadKept ==
    ASSUME JobInv, kind' = kind, claims' = claims \/ (claims = 0 /\ claims' = 1),
           manifest' \in {manifest, 1}, NEW t \in DOMAIN thread, thread'[t] = thread[t],
           thread[t].pc \in {"moving", "moved"} =>
               artifacts'[thread[t].at] = artifacts[thread[t].at]
    PROVE  ThreadOK(t)'
<1>1. ThreadOK(t)
  BY DEF JobInv
<1>. QED
  BY <1>1 DEF ThreadOK

\* Lines, sidecars and a completed job stay backed.
LEMMA BackedKept ==
    ASSUME JobInv, RunsGrow, manifest' \in {manifest, 1},
           file' = file \/ file'.status # "completed",
           registry' = registry, sidecar' = sidecar
    PROVE  /\ SidecarIsBacked' /\ RegistryIsBacked' /\ CompletedIsBacked'
<1>1. SidecarIsBacked'
  BY DEF JobInv, TypeOK, SidecarIsBacked, RunsGrow
<1>2. RegistryIsBacked'
  <2>1. registry \in Seq(RegistryLine)
    BY DEF JobInv, TypeOK, RegistryLine
  <2>2. \A i \in 1 .. Len(registry): registry[i] \in RegistryLine
    BY <2>1, ElementOfSeq
  <2>3. \A i \in 1 .. Len(registry): registry[i].run \in RunIds
    BY <2>2 DEF RegistryLine
  <2>. QED
    BY <2>3 DEF JobInv, RegistryIsBacked, RunsGrow
<1>3. CompletedIsBacked'
  <2>1. CASE file'.status # "completed"
    BY <2>1 DEF CompletedIsBacked
  <2>2. CASE file' = file /\ file.status = "completed"
    <3>1. CompletedIsBacked /\ manifest \in {0, 1}
      BY DEF JobInv, ClaimedOnce
    <3>. QED
      BY <2>2, <3>1, OneIsRun DEF CompletedIsBacked, RunsGrow
  <2>. QED
    BY <2>1, <2>2
<1>. QED
  BY <1>1, <1>2, <1>3

--------------------------------------------------------------------------------
(* Store operations. *)

RestUnchanged == UNCHANGED <<kind, claims, RunState, crashes>>

\* A step that leaves the runs alone.
LEMMA RunsStay ==
    ASSUME UNCHANGED <<kind, RunState>>
    PROVE  RunsGrow
BY DEF RunsGrow, RunState, Reported

\* A step that leaves the threads alone.
LEMMA ThreadsStay ==
    ASSUME JobInv, UNCHANGED <<thread, kind, claims, RunState>>
    PROVE  /\ LeasesStay /\ AtMostOneRunner' /\ Len(thread') <= MaxThreads
           /\ \A t \in DOMAIN thread': ThreadOK(t)'
<1>1. ASSUME NEW t \in DOMAIN thread PROVE ThreadOK(t)'
  BY <1>1, ThreadKept DEF RunState
<1>. QED
  BY <1>1 DEF LeasesStay, JobInv, AtMostOneRunner

\* The read of an operation: the file as it is, under the locks it needs.
LEMMA EnterStep ==
    ASSUME JobInv, NEW p \in Procs, NEW k \in OpKinds, NEW t \in 0 .. MaxThreads,
           Enter(p, k, t), RestUnchanged, UNCHANGED <<file, dead, thread, active>>,
           up' \in [Procs -> BOOLEAN], k \in FileLocked => LockFree, OpOK(p)'
    PROVE  JobInv'
<1>1. op \in [Procs -> OpRec] /\ file \in Job
  BY DEF JobInv, TypeOK, OpRec
<1>2. /\ op' \in [Procs -> OpRec] /\ op'[p].kind = k
      /\ \A q \in Procs: q # p => op'[q] = op[q]
  BY <1>1 DEF Enter, OpRec
<1>3. TypeOK'
  BY <1>2 DEF JobInv, TypeOK, OpRec, RestUnchanged, RunState
<1>4. LockExclusive'
  BY <1>2 DEF JobInv, LockExclusive, LockFree
<1>5. ClaimedOnce'
  BY DEF JobInv, ClaimedOnce, RestUnchanged, RunState
<1>6. /\ LeasesStay /\ AtMostOneRunner' /\ Len(thread') <= MaxThreads
      /\ \A u \in DOMAIN thread': ThreadOK(u)'
  BY ThreadsStay DEF RestUnchanged
<1>7. RunsGrow
  BY RunsStay DEF RestUnchanged
<1>8. \A q \in Procs: OpOK(q)'
  BY <1>2, <1>6, <1>7, OpKept DEF RestUnchanged
<1>9. SidecarIsBacked' /\ RegistryIsBacked' /\ CompletedIsBacked'
  BY <1>7, BackedKept DEF RestUnchanged, RunState
<1>. QED
  BY <1>3, <1>4, <1>5, <1>6, <1>8, <1>9 DEF JobInv

\* CreateRead and StartRead keep the invariant.
LEMMA CreateReadKeeps ==
    ASSUME JobInv, NEW p \in Procs, CreateRead(p) \/ StartRead(p)
    PROVE  JobInv'
<1> DEFINE k == IF CreateRead(p) THEN "create" ELSE "start"
<1>1. /\ Enter(p, k, 0) /\ p \in RequestProcs /\ file.status \in Requested
      /\ RestUnchanged /\ UNCHANGED <<file, dead, thread, active, up>>
  BY DEF CreateRead, StartRead, Requested, RestUnchanged
<1>2. k \in {"create", "start"} /\ k \in OpKinds /\ k \notin FileLocked
  BY DEF OpKinds, FileLocked
<1> HIDE DEF k
<1>3. op'[p].kind = k
  BY <1>1 DEF Enter, JobInv, TypeOK
<1>4. OpOK(p)'
  BY <1>1, <1>2, <1>3 DEF OpOK
<1>5. 0 \in 0 .. MaxThreads /\ up' \in [Procs -> BOOLEAN]
  BY <1>1, JobAssumptions DEF JobInv, TypeOK
<1>. QED
  BY <1>1, <1>2, <1>4, <1>5, EnterStep

\* An operation that starts without a thread on a queued or running job.
LEMMA EnterForeign ==
    ASSUME JobInv, NEW p \in Procs, NEW k \in {"stale", "unrunnable", "recover"},
           Enter(p, k, 0), RestUnchanged, UNCHANGED <<file, dead, thread, active>>,
           up' \in [Procs -> BOOLEAN], file.status \in {"queued", "running"},
           k = "recover" => LockFree
    PROVE  JobInv'
<1>1. op'[p].kind = k
  BY DEF Enter, JobInv, TypeOK
<1>2. OpOK(p)'
  BY <1>1 DEF OpOK, Requested
<1>3. k \in OpKinds /\ (k \in FileLocked => LockFree) /\ 0 \in 0 .. MaxThreads
  BY JobAssumptions DEF OpKinds, FileLocked
<1>. QED
  BY <1>2, <1>3, EnterStep

\* StaleRead keeps the invariant.
LEMMA StaleReadKeeps ==
    ASSUME JobInv, NEW p \in Procs, StaleRead(p)
    PROVE  JobInv'
<1>1. /\ Enter(p, "stale", 0) /\ file.status \in {"queued", "running"} /\ RestUnchanged
      /\ UNCHANGED <<file, dead, thread, active, up>> /\ up' \in [Procs -> BOOLEAN]
  BY DEF StaleRead, IsStale, RestUnchanged, JobInv, TypeOK
<1>. QED
  BY <1>1, EnterForeign

\* The write of an operation that leaves the claims and the threads alone.
LEMMA WriteStep ==
    ASSUME JobInv, NEW p \in Procs, Leave(p), RestUnchanged, UNCHANGED <<thread, active, up>>,
           file' \in Job, dead' \subseteq dead, file'.status # "completed",
           file.status \in Requested <=> file'.status \in Requested,
           file'.status # "queued"
    PROVE  JobInv'
<1>1. op \in [Procs -> OpRec] /\ NoOp \in OpRec
  BY JobAssumptions DEF JobInv, TypeOK, OpRec, NoOp, NoJob, Job
<1>2. /\ op' \in [Procs -> OpRec] /\ op'[p] = NoOp
      /\ \A q \in Procs: q # p => op'[q] = op[q]
  BY <1>1 DEF Leave
<1>3. TypeOK'
  BY <1>2 DEF JobInv, TypeOK, OpRec, RestUnchanged, RunState
<1>4. LockExclusive'
  BY <1>2 DEF JobInv, LockExclusive, NoOp, FileLocked
<1>5. ClaimedOnce'
  BY DEF JobInv, ClaimedOnce, RestUnchanged, RunState
<1>6. /\ LeasesStay /\ AtMostOneRunner' /\ Len(thread') <= MaxThreads
      /\ \A u \in DOMAIN thread': ThreadOK(u)'
  BY ThreadsStay DEF RestUnchanged
<1>7. RunsGrow
  BY RunsStay DEF RestUnchanged
<1>8. \A q \in Procs: OpOK(q)'
  BY <1>2, <1>6, <1>7, OpKept, NoOpOK DEF RestUnchanged
<1>9. SidecarIsBacked' /\ RegistryIsBacked' /\ CompletedIsBacked'
  BY <1>7, BackedKept DEF RestUnchanged, RunState
<1>. QED
  BY <1>3, <1>4, <1>5, <1>6, <1>8, <1>9 DEF JobInv

\* CreateWrite keeps the invariant.
LEMMA CreateWriteKeeps ==
    ASSUME JobInv, NEW p \in Procs, CreateWrite(p)
    PROVE  JobInv'
<1>1. file.status \in Requested
  BY DEF JobInv, OpOK, CreateWrite
<1>2. file' \in Job /\ file'.status = "created"
  <2>1. NoJob \in Job
    BY JobAssumptions DEF NoJob, Job
  <2>2. file' = [NoJob EXCEPT !.status = "created"]
    BY DEF CreateWrite
  <2>. QED
    BY <2>1, <2>2 DEF Job
<1>. QED
  BY <1>1, <1>2, WriteStep DEF CreateWrite, RestUnchanged, Requested

\* A failed job is typed.
LEMMA FailedTyped ==
    ASSUME NEW j \in Job
    PROVE  Failed(j) \in Job /\ Failed(j).status = "failed"
BY DEF Failed, Job, Terminal

\* StaleWrite and RecoverWrite keep the invariant.
LEMMA FailingWriteKeeps ==
    ASSUME JobInv, NEW p \in Procs, StaleWrite(p) \/ RecoverWrite(p)
    PROVE  JobInv'
<1>1. file.status \notin Requested
  BY DEF JobInv, OpOK, StaleWrite, RecoverWrite
<1>2. op[p].job \in Job
  BY DEF JobInv, TypeOK
<1>3. file' \in Job /\ file'.status = "failed"
  BY <1>2, FailedTyped DEF StaleWrite, RecoverWrite
<1>. QED
  BY <1>1, <1>3, WriteStep DEF StaleWrite, RecoverWrite, RestUnchanged, Requested

\* RenewWrite keeps the invariant.
LEMMA RenewWriteKeeps ==
    ASSUME JobInv, NEW p \in Procs, RenewWrite(p)
    PROVE  JobInv'
<1>1. file.status \notin Requested /\ op[p].job.status = "running"
  BY DEF JobInv, OpOK, RenewWrite
<1>2. op[p].job \in Job
  BY DEF JobInv, TypeOK
<1>. QED
  BY <1>1, <1>2, WriteStep DEF RenewWrite, RestUnchanged, Requested

--------------------------------------------------------------------------------
(* Dispatch and start. *)

\* What a dispatch leaves of the leases and the threads.
LEMMA DispatchThreads ==
    ASSUME JobInv, NEW p \in Procs, Dispatch(p), UNCHANGED <<kind, claims, RunState>>
    PROVE  /\ LeasesStay /\ AtMostOneRunner' /\ Len(thread') <= MaxThreads
           /\ \A t \in DOMAIN thread': ThreadOK(t)'
           /\ thread' \in Seq(ThreadRec) /\ active' \in [Procs -> 0 .. MaxThreads]
<1>0. PICK n: n = Len(thread) + 1
  OBVIOUS
<1>1. /\ thread' \in Seq(ThreadRec) /\ Len(thread') \in 1 .. MaxThreads
      /\ DOMAIN thread' = DOMAIN thread \cup {n} /\ thread'[n] = NewThread(p)
      /\ \A u \in DOMAIN thread: thread'[u] = thread[u]
      /\ active' \in [Procs -> 0 .. MaxThreads]
  BY <1>0, ThreadAdded
<1>2. LeasesStay
  BY <1>1 DEF LeasesStay
<1>3. NewThread(p).lease = 0 /\ NewThread(p).pc = "dispatched" /\ NewThread(p).outcome = "none"
  BY DEF NewThread
<1>4. AtMostOneRunner'
  BY <1>1, <1>3 DEF JobInv, AtMostOneRunner
<1>5. ThreadOK(n)'
  BY <1>1, <1>3 DEF ThreadOK
<1>6. ASSUME NEW t \in DOMAIN thread PROVE ThreadOK(t)'
  BY <1>1, <1>6, ThreadKept DEF RunState
<1>7. Len(thread') <= MaxThreads
  BY <1>1, JobAssumptions
<1>. QED
  BY <1>1, <1>2, <1>4, <1>5, <1>6, <1>7

\* start: compare_and_set to queued, which nobody else may be doing.
LEMMA StartWriteKeeps ==
    ASSUME OneRequester, JobInv, NEW p \in Procs, StartWrite(p)
    PROVE  JobInv'
<1>1. p \in RequestProcs /\ file.status \in Requested
  BY DEF JobInv, OpOK, StartWrite
<1>2. \A q \in Procs: q # p => op[q].kind = "none"
  <2> SUFFICES ASSUME NEW q \in Procs, q # p, op[q].kind # "none" PROVE FALSE
    OBVIOUS
  <2>1. OpOK(q)
    BY DEF JobInv
  <2>. QED
    BY <1>1, <2>1 DEF OpOK, OneRequester
<1>3. op \in [Procs -> OpRec] /\ NoOp \in OpRec /\ op[p].job \in Job
  BY JobAssumptions DEF JobInv, TypeOK, OpRec, NoOp, NoJob, Job
<1>4. /\ op' \in [Procs -> OpRec] /\ op'[p] = NoOp
      /\ \A q \in Procs: q # p => op'[q] = op[q]
  BY <1>3 DEF StartWrite, Leave
<1>5. \A q \in Procs: op'[q].kind = "none"
  BY <1>2, <1>4 DEF NoOp
<1>6. UNCHANGED <<kind, claims, RunState>> /\ Dispatch(p)
  BY DEF StartWrite
<1>7. /\ LeasesStay /\ AtMostOneRunner' /\ Len(thread') <= MaxThreads
      /\ \A t \in DOMAIN thread': ThreadOK(t)'
      /\ thread' \in Seq(ThreadRec) /\ active' \in [Procs -> 0 .. MaxThreads]
  BY <1>6, DispatchThreads
<1>8. file' \in Job /\ file'.status = "queued"
  BY <1>3 DEF StartWrite, Job
<1>9. TypeOK'
  BY <1>4, <1>7, <1>8 DEF StartWrite, JobInv, TypeOK, OpRec, ThreadRec, RunState
<1>10. LockExclusive' /\ \A q \in Procs: OpOK(q)'
  BY <1>5 DEF LockExclusive, FileLocked, OpOK
<1>11. ClaimedOnce'
  BY <1>1, <1>6, <1>8 DEF JobInv, ClaimedOnce, RunState
<1>12. RunsGrow
  BY <1>6, RunsStay
<1>13. SidecarIsBacked' /\ RegistryIsBacked' /\ CompletedIsBacked'
  BY <1>6, <1>8, <1>12, BackedKept DEF RunState
<1>. QED
  BY <1>7, <1>9, <1>10, <1>11, <1>13 DEF JobInv

--------------------------------------------------------------------------------
(* One thread moves. *)

\* A change of one thread that keeps its lease.
LEMMA ThreadMoves ==
    ASSUME JobInv, NEW t \in DOMAIN thread, NEW r \in ThreadRec,
           thread' = [thread EXCEPT ![t] = r], r.lease = thread[t].lease,
           UNCHANGED <<kind, claims>>, manifest' \in {manifest, 1},
           artifacts' = artifacts \/ thread[t].lease # 0, ThreadOK(t)'
    PROVE  /\ LeasesStay /\ AtMostOneRunner' /\ Len(thread') <= MaxThreads
           /\ \A u \in DOMAIN thread': ThreadOK(u)'
           /\ thread' \in Seq(ThreadRec)
<1>1. /\ thread' \in Seq(ThreadRec) /\ Len(thread') = Len(thread)
      /\ DOMAIN thread' = DOMAIN thread /\ thread'[t] = r
      /\ \A u \in DOMAIN thread: u # t => thread'[u] = thread[u]
  BY ThreadChanged
<1>2. LeasesStay
  BY <1>1 DEF LeasesStay
<1>3. AtMostOneRunner'
  BY <1>1 DEF JobInv, AtMostOneRunner
<1>4. ASSUME NEW u \in DOMAIN thread, u # t PROVE ThreadOK(u)'
  <2>1. thread[u].pc \in {"moving", "moved"} => thread[u].lease # 0
    BY DEF JobInv, ThreadOK
  <2>2. thread[u].pc \in {"moving", "moved"} => artifacts' = artifacts
    BY <2>1, <1>4 DEF JobInv, AtMostOneRunner
  <2>. QED
    BY <1>1, <1>4, <2>2, ThreadKept
<1>5. Len(thread') <= MaxThreads
  BY <1>1 DEF JobInv
<1>. QED
  BY <1>1, <1>2, <1>3, <1>4, <1>5

\* A step of a thread that leaves the job file and the operations alone.
LEMMA WorkStep ==
    ASSUME JobInv, NEW t \in DOMAIN thread, NEW r \in ThreadRec,
           thread' = [thread EXCEPT ![t] = r], r.lease = thread[t].lease,
           UNCHANGED <<kind, file, dead, claims, up, op, base, crashes, sidecar>>,
           active' \in [Procs -> 0 .. MaxThreads], manifest' \in {manifest, 1},
           artifacts' \in [RunIds -> {"absent", "partial", "complete", "polluted"}],
           artifacts' = artifacts \/ thread[t].lease # 0, ThreadOK(t)', RunsGrow,
           registry' = registry \/ (registry' \in Seq(RegistryLine) /\ RegistryIsBacked')
    PROVE  JobInv'
<1>1. /\ LeasesStay /\ AtMostOneRunner' /\ Len(thread') <= MaxThreads
      /\ \A u \in DOMAIN thread': ThreadOK(u)'
      /\ thread' \in Seq(ThreadRec)
  BY ThreadMoves
<1>2. manifest' \in {0, 1} /\ manifest' \in 0 .. MaxThreads
  <2>1. manifest \in {0, 1} /\ manifest \in 0 .. MaxThreads
    BY DEF JobInv, ClaimedOnce, TypeOK
  <2>2. 1 \in 0 .. MaxThreads
    BY ThreadDomain, JobAssumptions
  <2>. QED
    BY <2>1, <2>2
<1>3. TypeOK'
  BY <1>1, <1>2 DEF JobInv, TypeOK, ThreadRec, RegistryLine
<1>4. LockExclusive'
  BY DEF JobInv, LockExclusive
<1>5. ClaimedOnce'
  BY <1>2 DEF JobInv, ClaimedOnce
<1>6. \A q \in Procs: OpOK(q)'
  BY <1>1, OpKept
<1>7. SidecarIsBacked'
  BY DEF JobInv, TypeOK, SidecarIsBacked, RunsGrow
<1>8. RegistryIsBacked'
  <2>1. registry \in Seq(RegistryLine)
    BY DEF JobInv, TypeOK, RegistryLine
  <2>2. \A i \in 1 .. Len(registry): registry[i] \in RegistryLine
    BY <2>1, ElementOfSeq
  <2>3. \A i \in 1 .. Len(registry): registry[i].run \in RunIds
    BY <2>2 DEF RegistryLine
  <2>. QED
    BY <2>3 DEF JobInv, RegistryIsBacked, RunsGrow
<1>9. CompletedIsBacked'
  <2>1. CompletedIsBacked /\ manifest \in {0, 1}
    BY DEF JobInv, ClaimedOnce
  <2>. QED
    BY <2>1, OneIsRun DEF CompletedIsBacked, RunsGrow
<1>. QED
  BY <1>1, <1>3, <1>4, <1>5, <1>6, <1>7, <1>8, <1>9 DEF JobInv

--------------------------------------------------------------------------------
(* The worker's steps. *)

\* Thread t becomes r, with its lease and whatever place, child and outcome.
Becomes(t, r) ==
    /\ r \in ThreadRec /\ thread' = [thread EXCEPT ![t] = r] /\ thread'[t] = r
    /\ r.lease = thread[t].lease

\* What Step makes of the thread.
LEMMA StepBecomes ==
    ASSUME JobInv, NEW t \in DOMAIN thread, NEW pc \in ThreadPcs, Step(t, pc)
    PROVE  \E r: /\ Becomes(t, r) /\ r.pc = pc
                 /\ r.at = thread[t].at /\ r.outcome = thread[t].outcome
<1> DEFINE r == [thread[t] EXCEPT !.pc = pc]
<1>1. thread[t] \in ThreadRec
  BY ThreadDomain
<1>2. r \in ThreadRec /\ r.pc = pc /\ r.lease = thread[t].lease
      /\ r.at = thread[t].at /\ r.outcome = thread[t].outcome
  BY <1>1 DEF ThreadRec
<1>3. thread' = [thread EXCEPT ![t] = r]
  BY DEF Step
<1>4. thread'[t] = r
  BY <1>3
<1>. QED
  BY <1>2, <1>3, <1>4 DEF Becomes

\* What Outcome makes of the thread.
LEMMA OutcomeBecomes ==
    ASSUME JobInv, NEW t \in DOMAIN thread, NEW o \in {"complete", "failed"}, Outcome(t, o)
    PROVE  \E r: Becomes(t, r) /\ r.pc = "finishing" /\ r.outcome = o
<1> DEFINE r == [thread[t] EXCEPT !.pc = "finishing", !.outcome = o]
<1>1. thread[t] \in ThreadRec
  BY ThreadDomain
<1>2. r \in ThreadRec /\ r.pc = "finishing" /\ r.lease = thread[t].lease /\ r.outcome = o
  BY <1>1 DEF ThreadRec, ThreadPcs
<1>3. thread' = [thread EXCEPT ![t] = r]
  BY <1>1 DEF Outcome, ThreadRec
<1>4. thread'[t] = r
  BY <1>3
<1>. QED
  BY <1>2, <1>3, <1>4 DEF Becomes

\* What Ends makes of the thread.
LEMMA EndsBecomes ==
    ASSUME JobInv, NEW t \in DOMAIN thread, Ends(t)
    PROVE  /\ \E r: Becomes(t, r) /\ r.pc = "done" /\ r.outcome = thread[t].outcome
           /\ active' \in [Procs -> 0 .. MaxThreads]
<1> DEFINE r == [thread[t] EXCEPT !.pc = "done", !.beating = FALSE]
<1>1. thread[t] \in ThreadRec
  BY ThreadDomain
<1>2. r \in ThreadRec /\ r.pc = "done" /\ r.lease = thread[t].lease
      /\ r.outcome = thread[t].outcome
  BY <1>1 DEF ThreadRec, ThreadPcs
<1>3. thread' = [thread EXCEPT ![t] = r]
  BY <1>1 DEF Ends, ThreadRec
<1>4. thread'[t] = r
  BY <1>3
<1>5. active' \in [Procs -> 0 .. MaxThreads]
  <2>1. active \in [Procs -> 0 .. MaxThreads] /\ 0 \in 0 .. MaxThreads
    BY JobAssumptions DEF JobInv, TypeOK
  <2>. QED
    BY <2>1 DEF Ends
<1>. QED
  BY <1>2, <1>3, <1>4, <1>5 DEF Becomes

\* A thread whose heartbeat ends stays where it is.
LEMMA StopsBeating ==
    ASSUME JobInv, NEW t \in DOMAIN thread,
           thread' = [thread EXCEPT ![t].beating = FALSE]
    PROVE  \E r: /\ Becomes(t, r) /\ r.pc = thread[t].pc
                 /\ r.at = thread[t].at /\ r.outcome = thread[t].outcome
<1> DEFINE r == [thread[t] EXCEPT !.beating = FALSE]
<1>1. thread[t] \in ThreadRec
  BY ThreadDomain
<1>2. r \in ThreadRec /\ r.pc = thread[t].pc /\ r.lease = thread[t].lease
      /\ r.at = thread[t].at /\ r.outcome = thread[t].outcome
  BY <1>1 DEF ThreadRec
<1>3. thread' = [thread EXCEPT ![t] = r] /\ thread'[t] = r
  OBVIOUS
<1>. QED
  BY <1>2, <1>3 DEF Becomes

\* The next child of a suite.
LEMMA NextChildBecomes ==
    ASSUME JobInv, NEW t \in DOMAIN thread, thread[t].at < RunCount[kind],
           thread' = [thread EXCEPT ![t].pc = "run", ![t].at = @ + 1]
    PROVE  \E r: Becomes(t, r) /\ r.pc = "run" /\ r.outcome = thread[t].outcome
<1> DEFINE r == [thread[t] EXCEPT !.pc = "run", !.at = @ + 1]
<1>1. thread[t] \in ThreadRec /\ kind \in {"experiment", "suite", "bootstrap"}
  BY ThreadDomain, JobAssumptions DEF JobInv, TypeOK
<1>2. RunCount[kind] <= NChildren /\ thread[t].at \in 1 .. NChildren
      /\ NChildren \in Nat /\ RunCount[kind] \in Nat
  BY <1>1, JobAssumptions DEF RunCount, ThreadRec
<1>3. thread[t].at + 1 \in 1 .. NChildren
  BY <1>2
<1>4. r \in ThreadRec /\ r.pc = "run" /\ r.lease = thread[t].lease
      /\ r.outcome = thread[t].outcome
  BY <1>1, <1>3 DEF ThreadRec, ThreadPcs
<1>5. thread' = [thread EXCEPT ![t] = r]
  BY <1>1 DEF ThreadRec
<1>6. thread'[t] = r
  BY <1>5
<1>. QED
  BY <1>4, <1>5, <1>6 DEF Becomes

\* A step of the thread alone.
LEMMA LocalStep ==
    ASSUME JobInv, NEW t \in DOMAIN thread, NEW r, Becomes(t, r),
           UNCHANGED <<kind, file, dead, claims, up, op, base, crashes, sidecar,
                       artifacts, registry>>,
           active' \in [Procs -> 0 .. MaxThreads], manifest' \in {manifest, 1},
           ThreadOK(t)'
    PROVE  JobInv'
<1>1. RunsGrow
  BY DEF RunsGrow, Reported
<1>2. artifacts' \in [RunIds -> {"absent", "partial", "complete", "polluted"}]
  BY DEF JobInv, TypeOK
<1>. QED
  BY <1>1, <1>2, WorkStep DEF Becomes

\* A thread that works has claimed the job, whether or not it still owns it.
LEMMA WorkerHasLease ==
    ASSUME JobInv, NEW t \in DOMAIN thread, thread[t].pc \notin {"dispatched", "done"}
    PROVE  thread[t].lease = 1 /\ claims = 1
BY DEF JobInv, ThreadOK

\* After its run the thread goes on to a sound state.
LEMMA AfterRunKeeps ==
    ASSUME JobInv, NEW t \in DOMAIN thread, NEW o \in {"complete", "failed"},
           thread[t].pc \notin {"dispatched", "done"}, AfterRun(t, o), UNCHANGED <<kind, claims>>
    PROVE  /\ manifest' \in {manifest, 1}
           /\ \E r: Becomes(t, r) /\ ThreadOK(t)'
<1>1. thread[t].lease = 1 /\ claims = 1 /\ ThreadOK(t)
  BY WorkerHasLease DEF JobInv
<1>2. CASE kind = "experiment"
  <2>1. PICK r: Becomes(t, r) /\ r.pc = "finishing" /\ r.outcome = o
    BY <1>2, OutcomeBecomes DEF AfterRun
  <2>2. ThreadOK(t)'
    BY <1>1, <1>2, <2>1 DEF ThreadOK, Becomes
  <2>. QED
    BY <1>2, <2>1, <2>2 DEF AfterRun
<1>3. CASE kind # "experiment" /\ thread[t].at < RunCount[kind]
  <2>1. PICK r: Becomes(t, r) /\ r.pc = "run" /\ r.outcome = thread[t].outcome
    BY <1>3, NextChildBecomes DEF AfterRun
  <2>2. manifest' = manifest
    BY <1>3 DEF AfterRun
  <2>3. ThreadOK(t)'
    BY <1>1, <2>1, <2>2 DEF ThreadOK, Becomes
  <2>. QED
    BY <2>1, <2>2, <2>3
<1>4. CASE kind # "experiment" /\ ~(thread[t].at < RunCount[kind])
  <2>1. PICK r: Becomes(t, r) /\ r.pc = "finishing" /\ r.outcome = "complete"
    BY <1>4, OutcomeBecomes DEF AfterRun
  <2>2. manifest' = 1
    BY <1>1, <1>4 DEF AfterRun
  <2>3. ThreadOK(t)'
    BY <1>1, <2>1, <2>2 DEF ThreadOK, Becomes
  <2>. QED
    BY <2>1, <2>2, <2>3
<1>. QED
  BY <1>2, <1>3, <1>4

\* Prepare keeps the invariant.
LEMMA PrepareKeeps ==
    ASSUME JobInv, NEW t \in DOMAIN thread, Prepare(t)
    PROVE  JobInv'
<1>1. thread[t].lease = 1 /\ claims = 1 /\ ThreadOK(t)
  BY WorkerHasLease DEF JobInv, Prepare, At
<1>2. /\ UNCHANGED <<kind, file, dead, claims, up, op, base, crashes, sidecar,
                     artifacts, registry>>
      /\ active' \in [Procs -> 0 .. MaxThreads]
  BY DEF Prepare, JobInv, TypeOK
<1>3. CASE Outcome(t, "failed") /\ UNCHANGED manifest
  <2>1. PICK r: Becomes(t, r) /\ r.pc = "finishing" /\ r.outcome = "failed"
    BY <1>3, OutcomeBecomes
  <2>2. ThreadOK(t)'
    BY <1>1, <1>2, <2>1 DEF ThreadOK, Becomes
  <2>. QED
    BY <1>2, <1>3, <2>1, <2>2, LocalStep
<1>4. CASE Step(t, "run") /\ UNCHANGED manifest
  <2>1. PICK r: /\ Becomes(t, r) /\ r.pc = "run" /\ r.outcome = thread[t].outcome
    BY <1>4, StepBecomes DEF ThreadPcs
  <2>2. ThreadOK(t)'
    BY <1>1, <1>2, <1>4, <2>1 DEF ThreadOK, Becomes
  <2>. QED
    BY <1>2, <1>4, <2>1, <2>2, LocalStep
<1>5. CASE Outcome(t, "complete") /\ manifest' = thread[t].lease
  <2>1. PICK r: Becomes(t, r) /\ r.pc = "finishing" /\ r.outcome = "complete"
    BY <1>5, OutcomeBecomes
  <2>2. ThreadOK(t)'
    BY <1>1, <1>2, <1>5, <2>1 DEF ThreadOK, Becomes
  <2>. QED
    BY <1>1, <1>2, <1>5, <2>1, <2>2, LocalStep
<1>. QED
  BY <1>3, <1>4, <1>5 DEF Prepare

\* RunStarts and FinalizeChecks keep the invariant.
LEMMA RunStartsKeeps ==
    ASSUME JobInv, NEW t \in DOMAIN thread, RunStarts(t) \/ FinalizeChecks(t)
    PROVE  JobInv'
<1> DEFINE pc == IF RunStarts(t) THEN "writing" ELSE "moving"
<1>1. /\ Step(t, pc) /\ pc \in ThreadPcs /\ pc \in {"writing", "moving"}
      /\ artifacts[thread[t].at] = "absent" /\ thread[t].pc \notin {"dispatched", "done"}
  BY DEF RunStarts, FinalizeChecks, ThreadPcs, At
<1>2. /\ UNCHANGED <<kind, file, dead, claims, up, op, base, crashes, sidecar,
                     artifacts, registry, manifest>>
      /\ active' \in [Procs -> 0 .. MaxThreads]
  BY DEF RunStarts, FinalizeChecks, RunState, JobInv, TypeOK
<1> HIDE DEF pc
<1>3. PICK r: /\ Becomes(t, r) /\ r.pc = pc
              /\ r.at = thread[t].at /\ r.outcome = thread[t].outcome
  BY <1>1, StepBecomes
<1>4. thread[t].lease = 1 /\ claims = 1 /\ ThreadOK(t)
  BY <1>1, WorkerHasLease DEF JobInv
<1>5. ThreadOK(t)'
  BY <1>1, <1>2, <1>3, <1>4 DEF ThreadOK, Becomes
<1>. QED
  BY <1>2, <1>3, <1>5, LocalStep

\* RunFails keeps the invariant.
LEMMA RunFailsKeeps ==
    ASSUME JobInv, NEW t \in DOMAIN thread, RunFails(t)
    PROVE  JobInv'
<1>1. /\ AfterRun(t, "failed") /\ thread[t].pc \notin {"dispatched", "done"}
  BY DEF RunFails, At
<1>2. /\ UNCHANGED <<kind, file, dead, claims, up, op, base, crashes, sidecar,
                     artifacts, registry>>
      /\ active' \in [Procs -> 0 .. MaxThreads]
  BY DEF RunFails, JobInv, TypeOK
<1>3. manifest' \in {manifest, 1} /\ \E r: Becomes(t, r) /\ ThreadOK(t)'
  BY <1>1, <1>2, AfterRunKeeps
<1>. QED
  BY <1>2, <1>3, LocalStep

\* The move: the directory is the thread's own from its existence check on.
LEMMA MoveKeeps ==
    ASSUME JobInv, NEW t \in DOMAIN thread, MoveBegins(t) \/ MoveEnds(t)
    PROVE  JobInv'
<1> DEFINE a == thread[t].at
<1>1. thread[t] \in ThreadRec /\ ThreadOK(t) /\ a \in RunIds
      /\ artifacts \in [RunIds -> {"absent", "partial", "complete", "polluted"}]
  BY ThreadDomain DEF JobInv, TypeOK, ThreadRec, RunIds
<1>2. thread[t].lease = 1 /\ claims = 1 /\ thread[t].lease # 0
  BY WorkerHasLease DEF MoveBegins, MoveEnds, At
<1>3. /\ UNCHANGED <<kind, file, dead, claims, up, op, base, crashes, sidecar,
                     registry, manifest>>
      /\ active' \in [Procs -> 0 .. MaxThreads] /\ manifest' \in {manifest, 1}
  BY DEF MoveBegins, MoveEnds, JobInv, TypeOK
<1>4. CASE MoveBegins(t)
  <2>1. artifacts[a] = "absent" /\ artifacts' = [artifacts EXCEPT ![a] = "partial"]
    BY <1>1, <1>4 DEF MoveBegins, At, ThreadOK
  <2>2. PICK r: /\ Becomes(t, r) /\ r.pc = "moved"
                /\ r.at = thread[t].at /\ r.outcome = thread[t].outcome
    BY <1>4, StepBecomes DEF MoveBegins, ThreadPcs
  <2>3. artifacts' \in [RunIds -> {"absent", "partial", "complete", "polluted"}]
        /\ artifacts'[a] = "partial"
    BY <1>1, <2>1
  <2>4. RunsGrow
    BY <1>1, <1>3, <2>1 DEF RunsGrow, Reported
  <2>5. ThreadOK(t)'
    BY <1>1, <1>2, <1>3, <2>2, <2>3 DEF ThreadOK, Becomes
  <2>. QED
    BY <1>2, <1>3, <2>2, <2>3, <2>4, <2>5, WorkStep DEF Becomes
<1>5. CASE MoveEnds(t)
  <2>1. artifacts[a] = "partial" /\ artifacts' = [artifacts EXCEPT ![a] = "complete"]
    BY <1>1, <1>5 DEF MoveEnds, At, ThreadOK
  <2>2. PICK r: /\ Becomes(t, r) /\ r.pc \in {"finishing", "register"}
                /\ kind = "experiment" \/ r.outcome = thread[t].outcome
    BY <1>5, StepBecomes, OutcomeBecomes DEF MoveEnds, ThreadPcs
  <2>3. artifacts' \in [RunIds -> {"absent", "partial", "complete", "polluted"}]
    BY <1>1, <2>1
  <2>4. RunsGrow
    BY <1>1, <1>3, <2>1 DEF RunsGrow, Reported
  <2>5. ThreadOK(t)'
    BY <1>1, <1>2, <1>3, <2>2 DEF ThreadOK, Becomes
  <2>. QED
    BY <1>2, <1>3, <2>2, <2>3, <2>4, <2>5, WorkStep DEF Becomes
<1>. QED
  BY <1>4, <1>5

\* register_complete: one more line, over artifacts that verify.
LEMMA LineAppended ==
    ASSUME JobInv, NEW r \in RunIds, NEW s \in {"complete", "invalidated"},
           artifacts[r] = "complete", registry' = Appended(r, s),
           UNCHANGED <<artifacts, sidecar, kind>>
    PROVE  /\ registry' \in Seq(RegistryLine) /\ RegistryIsBacked' /\ RunsGrow
           /\ s = "complete" => Reported(r)' # "unknown"
<1> DEFINE line == [run |-> r, status |-> s]
<1>1. registry \in Seq(RegistryLine) /\ line \in RegistryLine
  BY DEF JobInv, TypeOK, RegistryLine
<1>2. /\ registry' \in Seq(RegistryLine) /\ Len(registry') = Len(registry) + 1
      /\ \A i \in 1 .. Len(registry): registry'[i] = registry[i]
      /\ registry'[Len(registry) + 1] = line
  BY <1>1, AppendProperties DEF Appended
<1>3. Len(registry) \in Nat
  BY <1>1, LenProperties
<1>4. \A i \in 1 .. Len(registry):
          i \in 1 .. Len(registry') /\ registry'[i] = registry[i]
  BY <1>2, <1>3
<1>5. \A i \in 1 .. Len(registry'):
          (i \in 1 .. Len(registry) /\ registry'[i] = registry[i]) \/ registry'[i] = line
  BY <1>2, <1>3
<1>6. RegistryIsBacked'
  BY <1>5 DEF RegistryIsBacked, JobInv
<1>7. RunsGrow
  <2>1. ASSUME NEW u \in RunIds, Reported(u) # "unknown" PROVE Reported(u)' # "unknown"
    BY <1>4, <2>1 DEF Reported
  <2>. QED
    BY <2>1 DEF RunsGrow
<1>8. s = "complete" => Reported(r)' # "unknown"
  <2>1. Len(registry) + 1 \in 1 .. Len(registry')
    BY <1>2, <1>3
  <2>. QED
    BY <1>2, <2>1 DEF Reported
<1>. QED
  BY <1>2, <1>6, <1>7, <1>8

\* RegisterChild keeps the invariant.
LEMMA RegisterChildKeeps ==
    ASSUME JobInv, NEW t \in DOMAIN thread, RegisterChild(t)
    PROVE  JobInv'
<1>1. /\ AfterRun(t, "complete") /\ thread[t].pc \notin {"dispatched", "done"}
  BY DEF RegisterChild, At
<1>2. /\ UNCHANGED <<kind, file, dead, claims, up, op, base, crashes, sidecar, artifacts>>
      /\ active' \in [Procs -> 0 .. MaxThreads]
      /\ artifacts' \in [RunIds -> {"absent", "partial", "complete", "polluted"}]
  BY DEF RegisterChild, JobInv, TypeOK
<1>3. manifest' \in {manifest, 1} /\ \E r: Becomes(t, r) /\ ThreadOK(t)'
  BY <1>1, <1>2, AfterRunKeeps
<1>4. thread[t].at \in RunIds
  BY ThreadDomain DEF ThreadRec, RunIds
<1>5. CASE Registrable(thread[t].at)
  <2>1. registry' \in Seq(RegistryLine) /\ RegistryIsBacked' /\ RunsGrow
    BY <1>2, <1>4, <1>5, LineAppended DEF RegisterChild, Registrable, Verified
  <2>. QED
    BY <1>2, <1>3, <2>1, WorkStep DEF Becomes
<1>6. CASE ~Registrable(thread[t].at)
  BY <1>2, <1>3, <1>6, LocalStep DEF RegisterChild
<1>. QED
  BY <1>5, <1>6

--------------------------------------------------------------------------------
(* Claim, renew and finish: under the file lock. *)

\* The process of a thread is a process.
LEMMA HomeTyped ==
    ASSUME JobInv, NEW t \in DOMAIN thread
    PROVE  Home(t) \in Procs /\ t \in 0 .. MaxThreads
<1>1. thread[t] \in ThreadRec /\ t \in 1 .. MaxThreads
  BY ThreadDomain
<1>2. Home(t) \in Procs
  BY <1>1 DEF Home, ThreadRec
<1>. QED
  BY <1>1, <1>2, JobAssumptions

\* The read of an operation that a thread begins under the file lock.
LEMMA EntersLocked ==
    ASSUME JobInv, NEW t \in DOMAIN thread, NEW k \in {"claim", "renew", "finish"},
           Enter(Home(t), k, t), RestUnchanged, UNCHANGED <<file, dead, thread, active, up>>,
           LockFree, file.status \notin Requested,
           k = "claim" => claims = 0,
           k \in {"renew", "finish"} => thread[t].lease # 0,
           k = "renew" => file.status = "running"
    PROVE  JobInv'
<1> DEFINE p == Home(t)
<1>1. p \in Procs /\ t \in 0 .. MaxThreads
  BY HomeTyped
<1>2. op \in [Procs -> OpRec]
  BY DEF JobInv, TypeOK, OpRec
<1> HIDE DEF p
<1>3. op'[p] = [kind |-> k, job |-> file, by |-> t]
  BY <1>1, <1>2 DEF Enter, p
<1>4. op'[p].kind = k /\ op'[p].job = file /\ op'[p].by = t
  BY <1>3
<1>5. \A q \in Procs: q = p => OpOK(q)'
  BY <1>4 DEF OpOK, RestUnchanged
<1>6. PICK q \in Procs: q = p
  BY <1>1
<1>7. OpOK(q)' /\ Enter(q, k, t)
  BY <1>5, <1>6 DEF p
<1>8. k \in OpKinds /\ up' \in [Procs -> BOOLEAN]
  BY DEF OpKinds, FileLocked, JobInv, TypeOK
<1>. QED
  BY <1>1, <1>7, <1>8, EnterStep

\* ClaimRead keeps the invariant.
LEMMA ClaimReadKeeps ==
    ASSUME JobInv, NEW t \in DOMAIN thread, ClaimRead(t)
    PROVE  JobInv'
<1>1. /\ RestUnchanged /\ UNCHANGED <<file, dead, active, up>> /\ LockFree
      /\ active' \in [Procs -> 0 .. MaxThreads]
  BY DEF ClaimRead, RestUnchanged, JobInv, TypeOK
<1>2. CASE file.status = "queued" /\ Enter(Home(t), "claim", t) /\ UNCHANGED thread
  <2>1. claims = 0 /\ file.status \notin Requested
    BY <1>2 DEF JobInv, ClaimedOnce, Requested
  <2>. QED
    BY <1>1, <1>2, <2>1, EntersLocked
<1>3. CASE Step(t, "done") /\ UNCHANGED op
  <2>1. PICK r: Becomes(t, r) /\ r.pc = "done" /\ r.outcome = thread[t].outcome
    BY <1>3, StepBecomes DEF ThreadPcs
  <2>2. ThreadOK(t)
    BY DEF JobInv
  <2>3. ThreadOK(t)'
    BY <1>1, <2>1, <2>2 DEF ThreadOK, Becomes, RestUnchanged, RunState
  <2>. QED
    BY <1>1, <1>3, <2>1, <2>3, LocalStep DEF RestUnchanged, RunState
<1>. QED
  BY <1>2, <1>3 DEF ClaimRead

\* The owner of the lease is the thread that claimed it.
LEMMA OwnsLease ==
    ASSUME JobInv, NEW t \in DOMAIN thread, Owns(t, file)
    PROVE  thread[t].lease # 0 /\ claims = 1 /\ file.status \notin Requested
BY DEF JobInv, Owns, LeaseLive, ThreadOK, ClaimedOnce

\* RenewRead keeps the invariant.
LEMMA RenewReadKeeps ==
    ASSUME JobInv, NEW t \in DOMAIN thread, RenewRead(t)
    PROVE  JobInv'
<1>1. /\ RestUnchanged /\ UNCHANGED <<file, dead, active, up>> /\ LockFree
      /\ active' \in [Procs -> 0 .. MaxThreads]
  BY DEF RenewRead, RestUnchanged, JobInv, TypeOK
<1>2. CASE /\ file.status = "running" /\ Owns(t, file)
           /\ Enter(Home(t), "renew", t) /\ UNCHANGED thread
  BY <1>1, <1>2, OwnsLease, EntersLocked
<1>3. CASE thread' = [thread EXCEPT ![t].beating = FALSE] /\ UNCHANGED op
  <2>1. PICK r: /\ Becomes(t, r) /\ r.pc = thread[t].pc
                /\ r.at = thread[t].at /\ r.outcome = thread[t].outcome
    BY <1>3, StopsBeating
  <2>2. ThreadOK(t)
    BY DEF JobInv
  <2>3. ThreadOK(t)'
    BY <1>1, <2>1, <2>2 DEF ThreadOK, Becomes, RestUnchanged, RunState
  <2>. QED
    BY <1>1, <1>3, <2>1, <2>3, LocalStep DEF RestUnchanged, RunState
<1>. QED
  BY <1>2, <1>3 DEF RenewRead

\* FinishRead keeps the invariant.
LEMMA FinishReadKeeps ==
    ASSUME JobInv, NEW t \in DOMAIN thread, FinishRead(t)
    PROVE  JobInv'
<1>1. RestUnchanged /\ UNCHANGED <<file, dead, up>> /\ LockFree
  BY DEF FinishRead, RestUnchanged
<1>2. CASE /\ Owns(t, file)
           /\ Enter(Home(t), "finish", t) /\ UNCHANGED <<thread, active>>
  BY <1>1, <1>2, OwnsLease, EntersLocked
<1>3. CASE Ends(t) /\ UNCHANGED op
  <2>1. PICK r: Becomes(t, r) /\ r.pc = "done" /\ r.outcome = thread[t].outcome
    BY <1>3, EndsBecomes
  <2>2. ThreadOK(t) /\ active' \in [Procs -> 0 .. MaxThreads]
    BY <1>3, EndsBecomes DEF JobInv
  <2>3. ThreadOK(t)'
    BY <1>1, <2>1, <2>2 DEF ThreadOK, Becomes, RestUnchanged, RunState
  <2>. QED
    BY <1>1, <1>3, <2>1, <2>2, <2>3, LocalStep DEF RestUnchanged, RunState
<1>. QED
  BY <1>2, <1>3 DEF FinishRead

\* claim: the second write under the file lock.  Nobody else can be claiming.
LEMMA ClaimWriteKeeps ==
    ASSUME JobInv, NEW p \in Procs, ClaimWrite(p)
    PROVE  JobInv'
<1>0. PICK t: t = op[p].by
  OBVIOUS
<1> DEFINE r == [thread[t] EXCEPT !.pc = "prepare", !.lease = 1, !.beating = TRUE]
<1>1. /\ claims = 0 /\ t \in DOMAIN thread /\ file.status \notin Requested
      /\ op[p].kind = "claim"
  BY <1>0 DEF JobInv, OpOK, ClaimWrite
<1>2. op \in [Procs -> OpRec] /\ NoOp \in OpRec /\ op[p].job \in Job
  BY JobAssumptions DEF JobInv, TypeOK, OpRec, NoOp, NoJob, Job
<1>3. /\ op' \in [Procs -> OpRec] /\ op'[p] = NoOp
      /\ \A q \in Procs: q # p => op'[q] = op[q]
  BY <1>2 DEF ClaimWrite, Leave
<1>4. thread[t] \in ThreadRec /\ 1 \in 0 .. MaxThreads
  BY <1>1, ThreadDomain, JobAssumptions
<1>5. r \in ThreadRec /\ r.pc = "prepare" /\ r.lease = 1 /\ r.outcome = thread[t].outcome
  BY <1>4 DEF ThreadRec, ThreadPcs
<1>6. claims' = 1 /\ claims + 1 = 1
  BY <1>1 DEF ClaimWrite
<1>7. thread' = [thread EXCEPT ![t] = r]
  BY <1>0, <1>4, <1>6 DEF ClaimWrite, ThreadRec
<1> HIDE DEF r
<1>8. /\ thread' \in Seq(ThreadRec) /\ Len(thread') = Len(thread)
      /\ DOMAIN thread' = DOMAIN thread /\ thread'[t] = r
      /\ \A u \in DOMAIN thread: u # t => thread'[u] = thread[u]
  BY <1>1, <1>5, <1>7, ThreadChanged
<1>9. \A u \in DOMAIN thread: thread[u].lease = 0
  BY <1>1 DEF JobInv, ThreadOK
<1>10. UNCHANGED <<kind, dead, up, active, artifacts, registry, sidecar, base, manifest,
                   crashes>>
  BY DEF ClaimWrite, RunState
<1>11. file' \in Job /\ file'.status = "running"
  BY <1>2, <1>4, <1>6 DEF ClaimWrite, Job
<1>12. TypeOK'
  BY <1>3, <1>4, <1>6, <1>8, <1>10, <1>11 DEF JobInv, TypeOK, OpRec, ThreadRec
<1>13. LockExclusive'
  BY <1>3 DEF JobInv, LockExclusive, NoOp, FileLocked
<1>14. ClaimedOnce'
  BY <1>6, <1>10, <1>11 DEF JobInv, ClaimedOnce, Requested
<1>15. \A q \in Procs: OpOK(q)'
  <2>1. ASSUME NEW q \in Procs, q # p PROVE OpOK(q)'
    <3>1. op[q].kind \notin FileLocked
      BY <1>1, <2>1 DEF JobInv, LockExclusive, FileLocked
    <3>2. op[q].kind \notin {"create", "start"}
      BY <1>1 DEF JobInv, OpOK
    <3>3. file'.status \notin Requested /\ op'[q] = op[q]
      BY <1>3, <1>11, <2>1 DEF Requested
    <3>. QED
      BY <3>1, <3>2, <3>3 DEF OpOK, FileLocked
  <2>. QED
    BY <1>3, <2>1, NoOpOK
<1>16. ThreadOK(t)'
  <2>1. ThreadOK(t)
    BY <1>1 DEF JobInv
  <2>. QED
    BY <1>5, <1>6, <1>8, <1>10, <2>1 DEF ThreadOK
<1>17. \A u \in DOMAIN thread: u # t => ThreadOK(u)'
  BY <1>1, <1>6, <1>8, <1>10, ThreadKept
<1>18. AtMostOneRunner'
  BY <1>8, <1>9 DEF AtMostOneRunner
<1>19. RunsGrow
  BY <1>10 DEF RunsGrow, Reported
<1>20. SidecarIsBacked' /\ RegistryIsBacked' /\ CompletedIsBacked'
  BY <1>10, <1>11, <1>19, BackedKept
<1>21. Len(thread') <= MaxThreads
  BY <1>8 DEF JobInv
<1>. QED
  BY <1>8, <1>12, <1>13, <1>14, <1>15, <1>16, <1>17, <1>18, <1>20, <1>21 DEF JobInv

\* The registration inside finish.
LEMMA RegisterRunKeeps ==
    ASSUME JobInv, NEW p \in Procs, RegisterRun(p)
    PROVE  JobInv'
<1>0. PICK t: t = op[p].by
  OBVIOUS
<1>1. /\ t \in DOMAIN thread /\ thread[t].lease # 0 /\ op[p].kind = "finish"
      /\ file.status \notin Requested /\ kind = "experiment"
  BY <1>0 DEF JobInv, OpOK, RegisterRun
<1>2. op \in [Procs -> OpRec] /\ NoOp \in OpRec
  BY JobAssumptions DEF JobInv, TypeOK, OpRec, NoOp, NoJob, Job
<1>3. UNCHANGED <<kind, file, dead, claims, up, active, artifacts, sidecar, base,
                  manifest, crashes>>
  BY DEF RegisterRun
<1>4. CASE /\ Registrable(1) /\ registry' = Appended(1, "complete")
           /\ op' = [op EXCEPT ![p].kind = "sealed"] /\ UNCHANGED thread
  <2>1. artifacts[1] = "complete"
    BY <1>4 DEF Registrable, Verified
  <2>2. /\ registry' \in Seq(RegistryLine) /\ RegistryIsBacked' /\ RunsGrow
        /\ Reported(1)' # "unknown"
    BY <1>3, <1>4, <2>1, OneIsRun, LineAppended
  <2>3. /\ op' \in [Procs -> OpRec]
        /\ op'[p].kind = "sealed" /\ op'[p].by = op[p].by
        /\ \A q \in Procs: q # p => op'[q] = op[q]
    BY <1>2, <1>4 DEF OpRec, OpKinds, FileLocked
  <2>4. TypeOK'
    BY <1>3, <1>4, <2>2, <2>3 DEF JobInv, TypeOK, OpRec, RegistryLine
  <2>5. LockExclusive'
    <3>1. LockExclusive /\ \A q \in Procs: op'[q].kind \in FileLocked => op[q].kind \in FileLocked
      BY <1>1, <2>3 DEF JobInv, FileLocked
    <3>. QED
      BY <3>1 DEF LockExclusive
  <2>6. ClaimedOnce'
    BY <1>3 DEF JobInv, ClaimedOnce
  <2>7. LeasesStay /\ AtMostOneRunner' /\ Len(thread') <= MaxThreads
    BY <1>4 DEF LeasesStay, JobInv, AtMostOneRunner
  <2>8. ASSUME NEW u \in DOMAIN thread' PROVE ThreadOK(u)'
    BY <1>3, <1>4, <2>8, ThreadKept
  <2>9. OpOK(p)'
    BY <1>0, <1>1, <1>3, <1>4, <2>1, <2>2, <2>3 DEF OpOK
  <2>10. ASSUME NEW q \in Procs, q # p PROVE OpOK(q)'
    BY <1>3, <2>2, <2>3, <2>7, <2>10, OpKept
  <2>11. SidecarIsBacked'
    BY <1>3 DEF JobInv, SidecarIsBacked
  <2>12. CompletedIsBacked'
    <3>1. CompletedIsBacked
      BY DEF JobInv
    <3>. QED
      BY <1>3, <2>2, <3>1 DEF CompletedIsBacked
  <2>. QED
    BY <2>2, <2>4, <2>5, <2>6, <2>7, <2>8, <2>9, <2>10, <2>11, <2>12 DEF JobInv
<1>5. CASE Leave(p) /\ Outcome(t, "failed") /\ UNCHANGED registry
  <2>1. /\ op' \in [Procs -> OpRec] /\ op'[p] = NoOp
        /\ \A q \in Procs: q # p => op'[q] = op[q]
    BY <1>2, <1>5 DEF Leave
  <2>2. PICK r: Becomes(t, r) /\ r.pc = "finishing" /\ r.outcome = "failed"
    BY <1>1, <1>5, OutcomeBecomes
  <2>3. ThreadOK(t)
    BY <1>1 DEF JobInv
  <2>4. ThreadOK(t)'
    BY <1>1, <1>3, <2>2, <2>3 DEF ThreadOK, Becomes
  <2>5. /\ LeasesStay /\ AtMostOneRunner' /\ Len(thread') <= MaxThreads
        /\ \A u \in DOMAIN thread': ThreadOK(u)'
        /\ thread' \in Seq(ThreadRec)
    BY <1>1, <1>3, <2>2, <2>4, ThreadMoves DEF Becomes
  <2>6. TypeOK'
    BY <1>3, <1>5, <2>1, <2>5 DEF JobInv, TypeOK, OpRec, ThreadRec
  <2>7. LockExclusive'
    BY <2>1 DEF JobInv, LockExclusive, NoOp, FileLocked
  <2>8. ClaimedOnce'
    BY <1>3 DEF JobInv, ClaimedOnce
  <2>9. RunsGrow
    BY <1>3, <1>5 DEF RunsGrow, Reported
  <2>10. \A q \in Procs: OpOK(q)'
    BY <1>3, <2>1, <2>5, <2>9, OpKept, NoOpOK
  <2>11. SidecarIsBacked' /\ RegistryIsBacked' /\ CompletedIsBacked'
    BY <1>3, <1>5, <2>9, BackedKept
  <2>. QED
    BY <2>5, <2>6, <2>7, <2>8, <2>10, <2>11 DEF JobInv
<1>. QED
  BY <1>0, <1>4, <1>5 DEF RegisterRun

\* The write of finish: a completed job has its registered run or its manifest.
LEMMA FinishWriteKeeps ==
    ASSUME JobInv, NEW p \in Procs, FinishWrite(p)
    PROVE  JobInv'
<1>0. PICK t: t = op[p].by
  OBVIOUS
<1> DEFINE completed == thread[t].outcome = "complete"
<1>1. /\ t \in DOMAIN thread /\ thread[t].lease # 0 /\ file.status \notin Requested
      /\ op[p].kind \in {"finish", "sealed"}
  BY <1>0 DEF JobInv, OpOK, FinishWrite
<1>2. op \in [Procs -> OpRec] /\ NoOp \in OpRec /\ op[p].job \in Job
  BY JobAssumptions DEF JobInv, TypeOK, OpRec, NoOp, NoJob, Job
<1>3. UNCHANGED <<kind, dead, claims, up, artifacts, registry, sidecar, base,
                  manifest, crashes>>
  BY DEF FinishWrite, RunState
<1>4. /\ op' \in [Procs -> OpRec] /\ op'[p] = NoOp
      /\ \A q \in Procs: q # p => op'[q] = op[q]
  BY <1>2 DEF Leave, FinishWrite
<1>5. Ends(t)
  BY <1>0 DEF FinishWrite
<1>6. PICK r: Becomes(t, r) /\ r.pc = "done" /\ r.outcome = thread[t].outcome
  BY <1>1, <1>5, EndsBecomes
<1>7. active' \in [Procs -> 0 .. MaxThreads] /\ ThreadOK(t) /\ thread[t].lease = 1
  BY <1>1, <1>5, EndsBecomes DEF JobInv, ThreadOK
<1>8. ThreadOK(t)'
  BY <1>1, <1>3, <1>6, <1>7 DEF ThreadOK, Becomes
<1>9. /\ LeasesStay /\ AtMostOneRunner' /\ Len(thread') <= MaxThreads
      /\ \A u \in DOMAIN thread': ThreadOK(u)'
      /\ thread' \in Seq(ThreadRec)
  BY <1>1, <1>3, <1>6, <1>8, ThreadMoves DEF Becomes
<1>10. file' = IF completed
               THEN [op[p].job EXCEPT !.status = "completed",
                        !.seal = IF kind = "experiment" THEN 0 ELSE 1]
               ELSE Failed(op[p].job)
  BY <1>0, <1>7 DEF FinishWrite
<1>11. 0 \in 0 .. MaxThreads /\ 1 \in 0 .. MaxThreads
  BY <1>1, ThreadDomain, JobAssumptions
<1>12. /\ file' \in Job /\ file'.status \in Terminal
       /\ file'.status = "completed" /\ kind # "experiment" => file'.seal = 1
       /\ file'.status = "completed" => completed
  <2>1. CASE completed
    BY <1>2, <1>10, <1>11, <2>1 DEF Job, Terminal
  <2>2. CASE ~completed
    BY <1>2, <1>10, <2>2, FailedTyped DEF Terminal
  <2>. QED
    BY <2>1, <2>2
<1>13. TypeOK'
  BY <1>3, <1>4, <1>7, <1>9, <1>12 DEF JobInv, TypeOK, OpRec, ThreadRec
<1>14. LockExclusive'
  BY <1>4 DEF JobInv, LockExclusive, NoOp, FileLocked
<1>15. ClaimedOnce' /\ file'.status \notin Requested
  BY <1>3, <1>12 DEF JobInv, ClaimedOnce, Requested, Terminal
<1>16. RunsGrow
  BY <1>3 DEF RunsGrow, Reported
<1>17. \A q \in Procs: OpOK(q)'
  BY <1>1, <1>3, <1>4, <1>9, <1>15, <1>16, OpKept, NoOpOK
<1>18. SidecarIsBacked' /\ RegistryIsBacked'
  BY <1>3 DEF JobInv, SidecarIsBacked, RegistryIsBacked
<1>19. CompletedIsBacked'
  <2> SUFFICES ASSUME file'.status = "completed"
               PROVE  IF kind = "experiment"
                      THEN artifacts[1] = "complete" /\ Reported(1)' # "unknown"
                      ELSE file'.seal # 0 /\ manifest = file'.seal
    BY <1>3 DEF CompletedIsBacked
  <2>1. CASE kind = "experiment"
    <3>1. op[p].kind = "sealed"
      BY <1>0, <1>12, <2>1 DEF FinishWrite
    <3>2. artifacts[1] = "complete" /\ Reported(1) # "unknown"
      BY <3>1 DEF JobInv, OpOK
    <3>. QED
      BY <2>1, <3>2, <1>16, OneIsRun DEF RunsGrow
  <2>2. CASE kind # "experiment"
    <3>1. manifest = 1
      BY <1>7, <1>12, <2>2 DEF ThreadOK
    <3>. QED
      BY <1>12, <2>2, <3>1
  <2>. QED
    BY <2>1, <2>2
<1>. QED
  BY <1>9, <1>13, <1>14, <1>15, <1>17, <1>18, <1>19 DEF JobInv

--------------------------------------------------------------------------------
(* Time, invalidations, crashes and restarts. *)

\* Nothing the invariant is about changes but the file's age and the leases.
LEMMA TimeKeeps ==
    ASSUME JobInv, Expire \/ QueuedTooLong
    PROVE  JobInv'
<1>1. /\ RestUnchanged /\ UNCHANGED <<up, op, thread, active>>
      /\ file' \in Job /\ file'.status = file.status
      /\ file' = file \/ file'.status = "queued"
      /\ dead' \subseteq 1 .. MaxThreads
  <2>1. file \in Job /\ dead \subseteq 1 .. MaxThreads
    BY DEF JobInv, TypeOK
  <2>2. CASE Expire
    <3>1. file.lease \in 1 .. MaxThreads
      BY <2>1, <2>2, JobAssumptions DEF Expire, LeaseLive, Job
    <3>. QED
      BY <2>1, <2>2, <3>1 DEF Expire, RestUnchanged
  <2>3. CASE QueuedTooLong
    BY <2>1, <2>3 DEF QueuedTooLong, RestUnchanged, Job
  <2>. QED
    BY <2>2, <2>3
<1>2. TypeOK'
  BY <1>1 DEF JobInv, TypeOK, RestUnchanged, RunState
<1>3. LockExclusive' /\ ClaimedOnce'
  BY <1>1 DEF JobInv, LockExclusive, ClaimedOnce, RestUnchanged, RunState
<1>4. /\ LeasesStay /\ AtMostOneRunner' /\ Len(thread') <= MaxThreads
      /\ \A u \in DOMAIN thread': ThreadOK(u)'
  BY <1>1, ThreadsStay DEF RestUnchanged
<1>5. RunsGrow
  BY <1>1, RunsStay DEF RestUnchanged
<1>6. \A q \in Procs: OpOK(q)'
  BY <1>1, <1>4, <1>5, OpKept DEF RestUnchanged
<1>7. SidecarIsBacked' /\ RegistryIsBacked' /\ CompletedIsBacked'
  BY <1>1, <1>5, BackedKept DEF RestUnchanged, RunState
<1>. QED
  BY <1>2, <1>3, <1>4, <1>6, <1>7 DEF JobInv

\* The registry and the base run change, jobs and threads do not.
LEMMA RegistryStep ==
    ASSUME JobInv, UNCHANGED <<kind, file, dead, claims, up, op, thread, active, artifacts,
                               manifest, crashes>>,
           RunsGrow, registry' \in Seq(RegistryLine), sidecar' \subseteq RunIds,
           base' \in {"complete", "invalidated"}, SidecarIsBacked', RegistryIsBacked'
    PROVE  JobInv'
<1>1. TypeOK'
  BY DEF JobInv, TypeOK, RegistryLine
<1>2. LockExclusive' /\ ClaimedOnce' /\ AtMostOneRunner' /\ Len(thread') <= MaxThreads
  BY DEF JobInv, LockExclusive, ClaimedOnce, AtMostOneRunner
<1>3. LeasesStay
  BY DEF LeasesStay
<1>4. \A q \in Procs: OpOK(q)'
  BY <1>3, OpKept
<1>5. ASSUME NEW u \in DOMAIN thread' PROVE ThreadOK(u)'
  BY <1>5, ThreadKept
<1>6. CompletedIsBacked'
  <2>1. CompletedIsBacked
    BY DEF JobInv
  <2>. QED
    BY <2>1, OneIsRun DEF CompletedIsBacked, RunsGrow
<1>. QED
  BY <1>1, <1>2, <1>4, <1>5, <1>6 DEF JobInv

\* invalidate: only a registered run is invalidated, so its directory is whole.
LEMMA InvalidationKeeps ==
    ASSUME JobInv, NEW r \in RunIds, InvalidateSidecar(r) \/ InvalidateLine(r) \/ InvalidateBase
    PROVE  JobInv'
<1>1. /\ registry \in Seq(RegistryLine) /\ sidecar \subseteq RunIds
      /\ base \in {"complete", "invalidated"} /\ SidecarIsBacked /\ RegistryIsBacked
  BY DEF JobInv, TypeOK, RegistryLine
<1>2. CASE InvalidateSidecar(r)
  <2>1. r \in sidecar \/ \E i \in 1 .. Len(registry):
                             registry[i] = [run |-> r, status |-> "complete"]
    BY <1>2 DEF InvalidateSidecar, Reported
  <2>2. artifacts[r] = "complete"
    BY <1>1, <2>1 DEF SidecarIsBacked, RegistryIsBacked
  <2>3. SidecarIsBacked' /\ RegistryIsBacked' /\ sidecar' \subseteq RunIds
    BY <1>1, <1>2, <2>2 DEF InvalidateSidecar, SidecarIsBacked, RegistryIsBacked
  <2>4. RunsGrow
    BY <1>2 DEF InvalidateSidecar, RunsGrow, Reported
  <2>. QED
    BY <1>1, <1>2, <2>3, <2>4, RegistryStep DEF InvalidateSidecar
<1>3. CASE InvalidateLine(r)
  <2>1. artifacts[r] = "complete"
    BY <1>1, <1>3 DEF InvalidateLine, SidecarIsBacked
  <2>2. registry' \in Seq(RegistryLine) /\ RegistryIsBacked' /\ RunsGrow
    BY <1>3, <2>1, LineAppended DEF InvalidateLine
  <2>3. SidecarIsBacked'
    BY <1>1, <1>3 DEF InvalidateLine, SidecarIsBacked
  <2>. QED
    BY <1>1, <1>3, <2>2, <2>3, RegistryStep DEF InvalidateLine
<1>4. CASE InvalidateBase
  <2>1. SidecarIsBacked' /\ RegistryIsBacked' /\ RunsGrow
    BY <1>1, <1>4 DEF InvalidateBase, SidecarIsBacked, RegistryIsBacked, RunsGrow, Reported
  <2>. QED
    BY <1>1, <1>4, <2>1, RegistryStep DEF InvalidateBase
<1>. QED
  BY <1>2, <1>3, <1>4

\* Equal domains mean equal lengths.
LEMMA SameRange ==
    ASSUME NEW m \in Nat, NEW n \in Nat, 1 .. m = 1 .. n
    PROVE  m = n
<1>1. CASE m = 0
  <2>1. \A i \in Int: ~(1 <= i /\ i <= n)
    BY <1>1
  <2>. QED
    BY <1>1, <2>1
<1>2. CASE n = 0
  <2>1. \A i \in Int: ~(1 <= i /\ i <= m)
    BY <1>2
  <2>. QED
    BY <1>2, <2>1
<1>3. CASE m # 0 /\ n # 0
  <2>1. m \in 1 .. m /\ n \in 1 .. n
    BY <1>3
  <2>2. m \in 1 .. n /\ n \in 1 .. m
    BY <2>1
  <2>. QED
    BY <2>2
<1>. QED
  BY <1>1, <1>2, <1>3

\* A crash ends the threads of the process and frees its locks.
LEMMA CrashKeeps ==
    ASSUME JobInv, NEW p \in Procs, Crash(p)
    PROVE  JobInv'
<1>1. op \in [Procs -> OpRec] /\ NoOp \in OpRec
  BY JobAssumptions DEF JobInv, TypeOK, OpRec, NoOp, NoJob, Job
<1>2. /\ op' \in [Procs -> OpRec] /\ op'[p] = NoOp
      /\ \A q \in Procs: q # p => op'[q] = op[q]
  BY <1>1 DEF Crash
<1>3. /\ DOMAIN thread' = DOMAIN thread
      /\ \A t \in DOMAIN thread:
            \/ thread'[t] = thread[t]
            \/ thread'[t] = [thread[t] EXCEPT !.pc = "done", !.beating = FALSE]
  BY DEF Crash
<1>4. \A t \in DOMAIN thread:
          /\ thread'[t] \in ThreadRec /\ thread'[t].lease = thread[t].lease
          /\ thread'[t] = thread[t] \/ thread'[t].pc = "done"
          /\ thread'[t].outcome = thread[t].outcome
  <2> SUFFICES ASSUME NEW t \in DOMAIN thread
               PROVE  /\ thread'[t] \in ThreadRec /\ thread'[t].lease = thread[t].lease
                      /\ thread'[t] = thread[t] \/ thread'[t].pc = "done"
                      /\ thread'[t].outcome = thread[t].outcome
    OBVIOUS
  <2>1. thread[t] \in ThreadRec
    BY ThreadDomain
  <2>. QED
    BY <1>3, <2>1 DEF ThreadRec, ThreadPcs
<1>5. thread' \in Seq(ThreadRec) /\ Len(thread') = Len(thread)
  <2>1. DOMAIN thread = 1 .. Len(thread) /\ Len(thread) \in Nat
    BY ThreadDomain, JobAssumptions
  <2>2. thread' \in [1 .. Len(thread) -> ThreadRec]
    BY <1>3, <1>4, <2>1 DEF Crash
  <2>3. thread' \in Seq(ThreadRec)
    BY <2>1, <2>2, SeqDef
  <2>4. Len(thread') \in Nat /\ DOMAIN thread' = 1 .. Len(thread')
    BY <2>3, LenProperties
  <2>5. 1 .. Len(thread') = 1 .. Len(thread)
    BY <1>3, <2>1, <2>4
  <2>. QED
    BY <2>1, <2>3, <2>4, <2>5, SameRange
<1>6. /\ UNCHANGED <<kind, file, dead, claims, artifacts, registry, sidecar, base, manifest>>
      /\ up' \in [Procs -> BOOLEAN] /\ crashes' \in 0 .. MaxCrashes
      /\ active' \in [Procs -> 0 .. MaxThreads]
  <2>1. /\ active \in [Procs -> 0 .. MaxThreads] /\ up \in [Procs -> BOOLEAN]
        /\ crashes \in 0 .. MaxCrashes /\ 0 \in 0 .. MaxThreads /\ MaxCrashes \in Nat
    BY JobAssumptions DEF JobInv, TypeOK
  <2>2. /\ crashes < MaxCrashes /\ crashes' = crashes + 1
        /\ active' = [active EXCEPT ![p] = 0] /\ up' = [up EXCEPT ![p] = FALSE]
    BY DEF Crash
  <2>3. crashes' \in 0 .. MaxCrashes
    BY <2>1, <2>2
  <2>4. active' \in [Procs -> 0 .. MaxThreads] /\ up' \in [Procs -> BOOLEAN]
    BY <2>1, <2>2
  <2>. QED
    BY <2>3, <2>4 DEF Crash, RunState
<1>7. TypeOK'
  BY <1>2, <1>5, <1>6 DEF JobInv, TypeOK, OpRec, ThreadRec
<1>8. LockExclusive'
  BY <1>2 DEF JobInv, LockExclusive, NoOp, FileLocked
<1>9. ClaimedOnce' /\ Len(thread') <= MaxThreads
  BY <1>5, <1>6 DEF JobInv, ClaimedOnce
<1>10. LeasesStay /\ AtMostOneRunner'
  BY <1>3, <1>4 DEF LeasesStay, JobInv, AtMostOneRunner
<1>11. RunsGrow
  BY <1>6 DEF RunsGrow, Reported
<1>12. \A q \in Procs: OpOK(q)'
  BY <1>2, <1>6, <1>10, <1>11, OpKept, NoOpOK
<1>13. ASSUME NEW t \in DOMAIN thread PROVE ThreadOK(t)'
  <2>1. ThreadOK(t)
    BY DEF JobInv
  <2>. QED
    BY <1>4, <1>6, <2>1 DEF ThreadOK
<1>14. SidecarIsBacked' /\ RegistryIsBacked' /\ CompletedIsBacked'
  BY <1>6, <1>11, BackedKept
<1>. QED
  BY <1>3, <1>7, <1>8, <1>9, <1>10, <1>12, <1>13, <1>14 DEF JobInv

\* A step that only dispatches a thread or serves again.
LEMMA RestartKeeps ==
    ASSUME JobInv, NEW p \in Procs, Restart(p)
    PROVE  JobInv'
<1>1. /\ RestUnchanged /\ UNCHANGED <<file, dead>> /\ LockFree
      /\ up' \in [Procs -> BOOLEAN]
  BY DEF Restart, RestUnchanged, JobInv, TypeOK
<1>2. CASE /\ file.status = "queued" /\ Enter(p, "unrunnable", 0)
           /\ UNCHANGED <<thread, active>>
  BY <1>1, <1>2, EnterForeign
<1>3. CASE /\ file.status = "running" /\ Enter(p, "recover", 0)
           /\ UNCHANGED <<thread, active>>
  BY <1>1, <1>3, EnterForeign
<1>4. ASSUME /\ UNCHANGED op /\ LeasesStay /\ AtMostOneRunner' /\ Len(thread') <= MaxThreads
             /\ \A t \in DOMAIN thread': ThreadOK(t)'
             /\ thread' \in Seq(ThreadRec) /\ active' \in [Procs -> 0 .. MaxThreads]
      PROVE  JobInv'
  <2>1. TypeOK'
    BY <1>1, <1>4 DEF JobInv, TypeOK, ThreadRec, RestUnchanged, RunState
  <2>2. LockExclusive' /\ ClaimedOnce'
    BY <1>1, <1>4 DEF JobInv, LockExclusive, ClaimedOnce, RestUnchanged, RunState
  <2>3. RunsGrow
    BY <1>1, RunsStay DEF RestUnchanged
  <2>4. \A q \in Procs: OpOK(q)'
    BY <1>1, <1>4, <2>3, OpKept DEF RestUnchanged
  <2>5. SidecarIsBacked' /\ RegistryIsBacked' /\ CompletedIsBacked'
    BY <1>1, <2>3, BackedKept DEF RestUnchanged, RunState
  <2>. QED
    BY <1>4, <2>1, <2>2, <2>4, <2>5 DEF JobInv
<1>5. CASE Dispatch(p) /\ UNCHANGED op
  <2>1. /\ LeasesStay /\ AtMostOneRunner' /\ Len(thread') <= MaxThreads
        /\ \A t \in DOMAIN thread': ThreadOK(t)'
        /\ thread' \in Seq(ThreadRec) /\ active' \in [Procs -> 0 .. MaxThreads]
    BY <1>1, <1>5, DispatchThreads DEF RestUnchanged
  <2>. QED
    BY <1>4, <1>5, <2>1
<1>6. CASE UNCHANGED <<op, thread, active>>
  <2>1. /\ LeasesStay /\ AtMostOneRunner' /\ Len(thread') <= MaxThreads
        /\ \A u \in DOMAIN thread': ThreadOK(u)'
    BY <1>1, <1>6, ThreadsStay DEF RestUnchanged
  <2>2. thread' \in Seq(ThreadRec) /\ active' \in [Procs -> 0 .. MaxThreads]
    BY <1>6 DEF JobInv, TypeOK, ThreadRec
  <2>. QED
    BY <1>4, <1>6, <2>1, <2>2
<1>. QED
  BY <1>2, <1>3, <1>5, <1>6 DEF Restart, Redispatch

--------------------------------------------------------------------------------
(* The theorems. *)

\* The empty store satisfies the invariant.
LEMMA JobInvInit == Init => JobInv
<1> SUFFICES ASSUME Init PROVE JobInv
  OBVIOUS
<1>1. /\ thread = <<>> /\ Len(thread) = 0 /\ thread \in Seq(ThreadRec)
      /\ DOMAIN thread = {}
  BY EmptySeq DEF Init
<1>2. registry = <<>> /\ Len(registry) = 0 /\ registry \in Seq(RegistryLine)
  BY EmptySeq DEF Init
<1>3. NoJob \in Job /\ NoOp \in OpRec /\ 0 \in 0 .. MaxThreads /\ 0 \in 0 .. MaxCrashes
  BY JobAssumptions DEF OpRec, NoOp, NoJob, Job
<1>4. TypeOK
  BY <1>1, <1>2, <1>3 DEF Init, TypeOK, OpRec, ThreadRec, RegistryLine
<1>5. LockExclusive /\ ClaimedOnce
  BY DEF Init, LockExclusive, ClaimedOnce, NoOp, FileLocked
<1>6. \A p \in Procs: OpOK(p)
  BY DEF Init, OpOK, NoOp
<1>7. AtMostOneRunner /\ \A t \in DOMAIN thread: ThreadOK(t)
  BY <1>1 DEF AtMostOneRunner
<1>8. SidecarIsBacked /\ RegistryIsBacked /\ CompletedIsBacked
  BY <1>2 DEF Init, SidecarIsBacked, RegistryIsBacked, CompletedIsBacked, NoJob
<1>9. Len(thread) <= MaxThreads
  BY <1>1, JobAssumptions
<1>. QED
  BY <1>4, <1>5, <1>6, <1>7, <1>8, <1>9 DEF JobInv

\* Every step keeps the invariant.
LEMMA JobInvNext == OneRequester /\ JobInv /\ [Next]_vars => JobInv'
<1> SUFFICES ASSUME OneRequester, JobInv, [Next]_vars PROVE JobInv'
  OBVIOUS
<1>1. ASSUME NEW p \in Procs, Requests(p) \/ Watchdog(p) \/ Writes(p) \/ Crash(p) \/ Restart(p)
      PROVE  JobInv'
  BY <1>1, CreateReadKeeps, CreateWriteKeeps, StartWriteKeeps, StaleReadKeeps,
     FailingWriteKeeps, ClaimWriteKeeps, RenewWriteKeeps, RegisterRunKeeps,
     FinishWriteKeeps, CrashKeeps, RestartKeeps
  DEF Requests, Watchdog, Writes
<1>2. ASSUME NEW t \in DOMAIN thread, Works(t) \/ RenewRead(t)
      PROVE  JobInv'
  BY <1>2, ClaimReadKeeps, PrepareKeeps, RunStartsKeeps, RunFailsKeeps, MoveKeeps,
     RegisterChildKeeps, FinishReadKeeps, RenewReadKeeps
  DEF Works
<1>3. ASSUME NEW r \in RunIds, InvalidateSidecar(r) \/ InvalidateLine(r)
      PROVE  JobInv'
  BY <1>3, InvalidationKeeps
<1>4. CASE InvalidateBase
  BY <1>4, OneIsRun, InvalidationKeeps
<1>5. CASE Expire \/ QueuedTooLong
  BY <1>5, TimeKeeps
<1>6. CASE UNCHANGED vars
  BY <1>6 DEF vars, JobInv, TypeOK, LockExclusive, ClaimedOnce, OpOK, ThreadOK,
     AtMostOneRunner, SidecarIsBacked, RegistryIsBacked, CompletedIsBacked, Reported
<1>. QED
  BY <1>1, <1>2, <1>3, <1>4, <1>5, <1>6 DEF Next

\* The inductive invariant holds whenever requests come through one process.
THEOREM JobInvariant ==
    ASSUME OneRequester
    PROVE  Spec => []JobInv
BY JobInvInit, JobInvNext, PTL DEF Spec

\* claim / recover_orphans: with any number of processes that recover, expire and
\* read, no two threads ever claim the same job.
THEOREM OneRunner ==
    ASSUME OneRequester
    PROVE  Spec => []AtMostOneRunner
<1>1. JobInv => AtMostOneRunner
  BY DEF JobInv
<1>. QED
  BY <1>1, JobInvariant, PTL

\* finish, register_complete: whatever crash, late finish or second process comes
\* in between, a completed job and every registry line are backed by whole files.
THEOREM ReportsBacked ==
    ASSUME OneRequester
    PROVE  Spec => []ReportsAreBacked
<1>1. JobInv => ReportsAreBacked
  BY DEF JobInv, ReportsAreBacked
<1>. QED
  BY <1>1, JobInvariant, PTL

--------------------------------------------------------------------------------
(* The contract. *)

\* What may have happened to the status between an operation's read and its write:
\* the watchdog and the unrunnable path, which take no file lock, may have failed it.
InFlight(p) ==
    /\ op[p].kind = "create" => file.status \in Requested
    /\ op[p].kind = "start" => file.status = "created"
    /\ op[p].kind = "claim" => file.status \in {"queued", "failed"}
    /\ op[p].kind \in {"renew", "finish", "sealed"} =>
          claims = 1 /\ file.status \in {"running", "failed"}
    /\ op[p].kind = "none" => op[p] = NoOp

\* A process that is down has no operation in flight.
DownIsIdle == \A p \in Procs: ~up[p] => op[p] = NoOp

ContractInv == JobInv /\ DownIsIdle /\ \A p \in Procs: InFlight(p)

ContractStep == [Contract!Next]_(Contract!vars)

InFlightWriters == {p \in Procs: op[p] # NoOp}

\* A step that moves neither the status nor an operation.
LEMMA StutterSteps ==
    ASSUME ContractInv, UNCHANGED <<op, claims>>, file'.status = file.status
    PROVE  ContractStep /\ \A p \in Procs: InFlight(p)'
<1>1. ContractStep
  BY DEF ContractStep, Contract!vars
<1>2. ASSUME NEW p \in Procs PROVE InFlight(p)'
  BY <1>2 DEF ContractInv, InFlight
<1>. QED
  BY <1>1, <1>2

\* A read of a job that has not ended adds a writer.
LEMMA ReadSimulates ==
    ASSUME ContractInv, NEW p \in Procs, op[p] = NoOp, NEW k \in OpKinds, NEW t,
           Enter(p, k, t), UNCHANGED <<file, claims>>, file.status \notin Terminal,
           /\ k = "create" => file.status \in Requested
           /\ k = "start" => file.status = "created"
           /\ k = "claim" => file.status = "queued"
           /\ k \in {"renew", "finish"} => claims = 1 /\ file.status = "running",
           k # "sealed"
    PROVE  ContractStep /\ \A q \in Procs: InFlight(q)'
<1>1. /\ op'[p] = [kind |-> k, job |-> file, by |-> t]
      /\ \A q \in Procs: q # p => op'[q] = op[q]
  BY DEF Enter, ContractInv, JobInv, TypeOK
<1>2. op'[p].kind = k /\ k # "none" /\ op'[p] # NoOp
  BY <1>1 DEF OpKinds, FileLocked, NoOp
<1>3. \A q \in Procs: InFlight(q)'
  BY <1>1, <1>2 DEF InFlight, ContractInv
<1>4. p \notin InFlightWriters /\ InFlightWriters' = InFlightWriters \cup {p}
  BY <1>1, <1>2 DEF InFlightWriters
<1>5. Contract!Read(p)
  BY <1>4 DEF Contract!Read, Contract!Terminal, Terminal, InFlightWriters
<1>. QED
  BY <1>3, <1>5 DEF ContractStep, Contract!Next

\* A process that leaves its operation is no writer any more.
LEMMA WriterLeaves ==
    ASSUME ContractInv, NEW p \in Procs, op[p].kind # "none", Leave(p)
    PROVE  /\ p \in InFlightWriters /\ InFlightWriters' = InFlightWriters \ {p}
           /\ op'[p] = NoOp /\ \A q \in Procs: q # p => op'[q] = op[q]
<1>1. op'[p] = NoOp /\ \A q \in Procs: q # p => op'[q] = op[q]
  BY DEF Leave, ContractInv, JobInv, TypeOK
<1>2. op[p] # NoOp
  BY DEF NoOp
<1>. QED
  BY <1>1, <1>2 DEF InFlightWriters

\* The operation of a process that crashes or is refused is given up.
LEMMA GiveUpSimulates ==
    ASSUME ContractInv, NEW p \in Procs, Leave(p), UNCHANGED <<file, claims>>
    PROVE  ContractStep /\ \A q \in Procs: InFlight(q)'
<1>1. op'[p] = NoOp /\ \A q \in Procs: q # p => op'[q] = op[q]
  BY DEF Leave, ContractInv, JobInv, TypeOK
<1>2. \A q \in Procs: InFlight(q)'
  <2>1. InFlight(p)'
    BY <1>1 DEF InFlight, NoOp
  <2>. QED
    BY <1>1, <2>1 DEF InFlight, ContractInv
<1>3. CASE op[p] = NoOp
  <2>1. \A q \in Procs: op'[q] = op[q]
    BY <1>1, <1>3
  <2>2. {q \in Procs: op'[q] # NoOp} = {q \in Procs: op[q] # NoOp}
    BY <2>1
  <2>. QED
    BY <1>2, <2>2 DEF ContractStep, Contract!vars
<1>4. CASE op[p] # NoOp
  <2>1. p \in InFlightWriters /\ InFlightWriters' = InFlightWriters \ {p}
    BY <1>1, <1>4 DEF InFlightWriters
  <2>2. Contract!GiveUp(p)
    BY <2>1 DEF Contract!GiveUp, InFlightWriters
  <2>. QED
    BY <1>2, <2>2 DEF ContractStep, Contract!Next
<1>. QED
  BY <1>3, <1>4

\* The operations of the others survive a write that leaves their status possible.
LEMMA OthersInFlight ==
    ASSUME ContractInv, NEW p \in Procs, op[p].kind # "none", Leave(p),
           claims' = claims \/ (claims = 0 /\ claims' = 1),
           \A q \in Procs \ {p}:
               /\ op[q].kind = "create" => file'.status \in Requested
               /\ op[q].kind = "start" => file'.status = "created"
               /\ op[q].kind = "claim" => file'.status \in {"queued", "failed"}
               /\ op[q].kind \in {"renew", "finish", "sealed"} =>
                     file'.status \in {"running", "failed"}
    PROVE  \A q \in Procs: InFlight(q)'
<1>1. op'[p] = NoOp /\ \A q \in Procs: q # p => op'[q] = op[q]
  BY WriterLeaves
<1>2. InFlight(p)'
  BY <1>1 DEF InFlight, NoOp
<1>3. ASSUME NEW q \in Procs, q # p PROVE InFlight(q)'
  <2>1. InFlight(q) /\ op'[q] = op[q]
    BY <1>1, <1>3 DEF ContractInv
  <2>2. claims = 1 => claims' = 1
    OBVIOUS
  <2>. QED
    BY <1>3, <2>1, <2>2 DEF InFlight
<1>. QED
  BY <1>2, <1>3

\* While a request is being written nobody else has the job in hand.
LEMMA RequestAlone ==
    ASSUME OneRequester, ContractInv, NEW p \in Procs, op[p].kind \in {"create", "start"}
    PROVE  /\ file.status \in Requested
           /\ \A q \in Procs \ {p}: op[q].kind = "none"
<1>1. p \in RequestProcs /\ file.status \in Requested
  BY DEF ContractInv, JobInv, OpOK
<1>2. ASSUME NEW q \in Procs \ {p} PROVE op[q].kind = "none"
  <2>1. OpOK(q)
    BY DEF ContractInv, JobInv
  <2>2. op[q].kind \in {"create", "start"} => q = p
    BY <1>1, <2>1 DEF OpOK, OneRequester
  <2>. QED
    BY <1>1, <2>1, <2>2 DEF OpOK
<1>. QED
  BY <1>1, <1>2

\* The requests are steps of the contract.
LEMMA RequestsSimulate ==
    ASSUME OneRequester, ContractInv, NEW p \in Procs, Requests(p)
    PROVE  ContractStep /\ \A q \in Procs: InFlight(q)'
<1>1. CASE CreateRead(p)
  <2>1. op[p] = NoOp /\ file.status \in Requested /\ Enter(p, "create", 0)
        /\ UNCHANGED <<file, claims>>
    BY <1>1 DEF CreateRead, Idle, Requested
  <2>2. file.status \notin Terminal /\ "create" \in OpKinds
    BY <2>1 DEF Requested, Terminal, OpKinds
  <2>. QED
    BY <2>1, <2>2, ReadSimulates
<1>2. CASE StartRead(p)
  <2>1. op[p] = NoOp /\ file.status = "created" /\ Enter(p, "start", 0)
        /\ UNCHANGED <<file, claims>>
    BY <1>2 DEF StartRead, Idle
  <2>2. file.status \notin Terminal /\ "start" \in OpKinds
    BY <2>1 DEF Terminal, OpKinds
  <2>. QED
    BY <2>1, <2>2, ReadSimulates
<1>3. CASE CreateWrite(p)
  <2>1. op[p].kind = "create" /\ file'.status = "created" /\ claims' = claims /\ Leave(p)
    BY <1>3 DEF CreateWrite, NoJob
  <2>2. file.status \in {"absent", "created"} /\ \A q \in Procs \ {p}: op[q].kind = "none"
    BY <2>1, RequestAlone DEF Requested
  <2>3. p \in InFlightWriters /\ InFlightWriters' = InFlightWriters \ {p}
    BY <2>1, WriterLeaves
  <2>4. Contract!Create(p)
    BY <2>1, <2>2, <2>3 DEF Contract!Create, Contract!Writes, InFlightWriters
  <2>5. \A q \in Procs: InFlight(q)'
    BY <2>1, <2>2, OthersInFlight
  <2>. QED
    BY <2>4, <2>5 DEF ContractStep, Contract!Next
<1>4. CASE StartWrite(p)
  <2>1. op[p].job \in Job
    BY DEF ContractInv, JobInv, TypeOK
  <2>2. op[p].kind = "start" /\ file'.status = "queued" /\ claims' = claims /\ Leave(p)
    BY <1>4, <2>1 DEF StartWrite, Job
  <2>3. file.status = "created" /\ \A q \in Procs \ {p}: op[q].kind = "none"
    BY <2>2, RequestAlone DEF ContractInv, InFlight
  <2>4. p \in InFlightWriters /\ InFlightWriters' = InFlightWriters \ {p}
    BY <2>2, WriterLeaves
  <2>5. Contract!Start(p)
    BY <2>2, <2>3, <2>4 DEF Contract!Start, Contract!Writes, InFlightWriters
  <2>6. \A q \in Procs: InFlight(q)'
    BY <2>2, <2>3, OthersInFlight
  <2>. QED
    BY <2>5, <2>6 DEF ContractStep, Contract!Next
<1>. QED
  BY <1>1, <1>2, <1>3, <1>4 DEF Requests

\* The claim, a renewal and the end of a run, under the file lock.
LEMMA LockedWritesSimulate ==
    ASSUME ContractInv, NEW p \in Procs,
           ClaimWrite(p) \/ RenewWrite(p) \/ FinishWrite(p)
    PROVE  ContractStep /\ \A q \in Procs: InFlight(q)'
<1>1. op[p].job \in Job /\ OpOK(p) /\ InFlight(p)
  BY DEF ContractInv, JobInv, TypeOK
<1>2. op[p].kind \in FileLocked /\ op[p].kind # "none" /\ Leave(p)
  BY DEF ClaimWrite, RenewWrite, FinishWrite, FileLocked
<1>3. file.status \notin Requested
  BY <1>1 DEF OpOK, ClaimWrite, RenewWrite, FinishWrite
<1>4. \A q \in Procs \ {p}: op[q].kind \notin FileLocked \cup {"create", "start"}
  BY <1>2, <1>3 DEF ContractInv, JobInv, LockExclusive, OpOK
<1>5. p \in InFlightWriters /\ InFlightWriters' = InFlightWriters \ {p}
  BY <1>2, WriterLeaves
<1>6. CASE ClaimWrite(p)
  <2>1. /\ file.status \in {"queued", "failed"} /\ file'.status = "running"
        /\ claims = 0 /\ claims' = 1
    BY <1>1, <1>6 DEF ClaimWrite, InFlight, OpOK, Job
  <2>2. Contract!Claim(p)
    BY <1>5, <2>1 DEF Contract!Claim, Contract!Writes, InFlightWriters
  <2>3. \A q \in Procs: InFlight(q)'
    BY <1>2, <1>4, <2>1, OthersInFlight DEF FileLocked
  <2>. QED
    BY <2>2, <2>3 DEF ContractStep, Contract!Next
<1>7. CASE RenewWrite(p)
  <2>1. /\ file.status \in {"running", "failed"} /\ file'.status = "running"
        /\ claims = 1 /\ claims' = claims
    BY <1>1, <1>7 DEF RenewWrite, InFlight, OpOK
  <2>2. Contract!Renew(p)
    BY <1>5, <2>1 DEF Contract!Renew, Contract!Writes, InFlightWriters
  <2>3. \A q \in Procs: InFlight(q)'
    BY <1>2, <1>4, <2>1, OthersInFlight DEF FileLocked
  <2>. QED
    BY <2>2, <2>3 DEF ContractStep, Contract!Next
<1>8. CASE FinishWrite(p)
  <2>1. file.status \in {"running", "failed"} /\ claims = 1 /\ claims' = claims
    BY <1>1, <1>8 DEF FinishWrite, InFlight
  <2>2. file'.status \in {"completed", "failed"}
    BY <1>1, <1>8, FailedTyped DEF FinishWrite, Job
  <2>3. Contract!Complete(p) \/ Contract!Fail(p)
    BY <1>5, <2>1, <2>2
    DEF Contract!Complete, Contract!Fail, Contract!Writes, Contract!Terminal, InFlightWriters
  <2>4. \A q \in Procs: InFlight(q)'
    BY <1>2, <1>4, <2>1, OthersInFlight DEF FileLocked
  <2>. QED
    BY <2>3, <2>4 DEF ContractStep, Contract!Next
<1>. QED
  BY <1>6, <1>7, <1>8

\* The watchdog, recovery and the unrunnable path fail the job they have read,
\* whatever it has become since.
LEMMA FailingWritesSimulate ==
    ASSUME ContractInv, NEW p \in Procs, RecoverWrite(p) \/ StaleWrite(p)
    PROVE  ContractStep /\ \A q \in Procs: InFlight(q)'
<1>1. /\ op[p].job \in Job /\ OpOK(p) /\ file \in Job
  BY DEF ContractInv, JobInv, TypeOK
<1>2. /\ op[p].kind \in {"stale", "recover", "unrunnable"} /\ op[p].kind # "none"
      /\ Leave(p) /\ claims' = claims
  BY DEF RecoverWrite, StaleWrite
<1>3. file'.status = "failed"
  BY <1>1, FailedTyped DEF RecoverWrite, StaleWrite
<1>4. file.status \notin Requested
  BY <1>1, <1>2 DEF OpOK
<1>5. file.status \in {"queued", "running", "completed", "failed"}
  BY <1>1, <1>4 DEF Job, Requested, Terminal
<1>6. p \in InFlightWriters /\ InFlightWriters' = InFlightWriters \ {p}
  BY <1>2, WriterLeaves
<1>7. Contract!Fail(p)
  BY <1>2, <1>3, <1>5, <1>6
  DEF Contract!Fail, Contract!Writes, Contract!Terminal, InFlightWriters
<1>8. \A q \in Procs: op[q].kind \notin {"create", "start"}
  BY <1>4 DEF ContractInv, JobInv, OpOK
<1>9. \A q \in Procs: InFlight(q)'
  BY <1>2, <1>3, <1>8, OthersInFlight
<1>. QED
  BY <1>7, <1>9 DEF ContractStep, Contract!Next

\* The remaining steps of a process move no status.
LEMMA ProcessSimulates ==
    ASSUME ContractInv, NEW p \in Procs,
           StaleRead(p) \/ RegisterRun(p) \/ Crash(p) \/ Restart(p)
    PROVE  ContractStep /\ \A q \in Procs: InFlight(q)'
<1>1. op \in [Procs -> OpRec] /\ InFlight(p)
  BY DEF ContractInv, JobInv, TypeOK, OpRec
<1>2. CASE StaleRead(p)
  <2>1. /\ op[p] = NoOp /\ file.status \in {"queued", "running"} /\ Enter(p, "stale", 0)
        /\ UNCHANGED <<file, claims>>
    BY <1>2 DEF StaleRead, IsStale, Idle
  <2>2. file.status \notin Terminal /\ "stale" \in OpKinds
    BY <2>1 DEF Terminal, OpKinds
  <2>. QED
    BY <2>1, <2>2, ReadSimulates
<1>3. CASE RegisterRun(p)
  <2>1. file' = file /\ claims' = claims /\ op[p].kind = "finish"
    BY <1>3 DEF RegisterRun
  <2>2. CASE op' = [op EXCEPT ![p].kind = "sealed"]
    <3>1. op'[p].kind = "sealed" /\ \A q \in Procs: q # p => op'[q] = op[q]
      BY <1>1, <2>2 DEF OpRec
    <3>2. \A q \in Procs: InFlight(q)'
      BY <1>1, <2>1, <3>1 DEF InFlight, ContractInv
    <3>3. op[p] # NoOp /\ op'[p] # NoOp
      BY <2>1, <3>1 DEF NoOp
    <3>4. {q \in Procs: op'[q] # NoOp} = {q \in Procs: op[q] # NoOp}
      BY <3>1, <3>3
    <3>. QED
      BY <2>1, <3>2, <3>4 DEF ContractStep, Contract!vars
  <2>3. CASE Leave(p)
    BY <2>1, <2>3, GiveUpSimulates
  <2>. QED
    BY <1>3, <2>2, <2>3 DEF RegisterRun
<1>4. CASE Crash(p)
  <2>1. Leave(p) /\ UNCHANGED <<file, claims>>
    BY <1>4 DEF Crash, Leave
  <2>. QED
    BY <2>1, GiveUpSimulates
<1>5. CASE Restart(p)
  <2>1. UNCHANGED <<file, claims>>
    BY <1>5 DEF Restart
  <2>2. CASE UNCHANGED op
    BY <2>1, <2>2, StutterSteps
  <2>3. op[p] = NoOp
    BY <1>5 DEF Restart, ContractInv, DownIsIdle
  <2>4. CASE file.status = "queued" /\ Enter(p, "unrunnable", 0)
    BY <2>1, <2>3, <2>4, ReadSimulates DEF OpKinds, Terminal
  <2>5. CASE file.status = "running" /\ Enter(p, "recover", 0)
    BY <2>1, <2>3, <2>5, ReadSimulates DEF OpKinds, FileLocked, Terminal
  <2>. QED
    BY <1>5, <2>2, <2>4, <2>5 DEF Restart, Redispatch
<1>. QED
  BY <1>2, <1>3, <1>4, <1>5

\* The steps of the threads are steps of the contract.
LEMMA ThreadsSimulate ==
    ASSUME ContractInv, NEW t \in DOMAIN thread, Works(t) \/ RenewRead(t)
    PROVE  ContractStep /\ \A q \in Procs: InFlight(q)'
<1>1. UNCHANGED <<file, claims>>
  BY DEF Works, ClaimRead, Prepare, RunStarts, RunFails, FinalizeChecks, MoveBegins,
     MoveEnds, RegisterChild, FinishRead, RenewRead
<1>2. CASE UNCHANGED op
  BY <1>1, <1>2, StutterSteps
<1>3. Home(t) \in Procs /\ file \in Job /\ ClaimedOnce
  BY HomeTyped DEF ContractInv, JobInv, TypeOK
<1>4. CASE ClaimRead(t)
  <2>1. CASE file.status = "queued" /\ Enter(Home(t), "claim", t)
    BY <1>1, <1>3, <1>4, <2>1, ReadSimulates DEF ClaimRead, Idle, OpKinds, FileLocked, Terminal
  <2>. QED
    BY <1>2, <1>4, <2>1 DEF ClaimRead
<1>5. CASE RenewRead(t)
  <2>1. CASE file.status = "running" /\ Owns(t, file) /\ Enter(Home(t), "renew", t)
    <3>1. claims = 1
      BY <2>1, OwnsLease DEF ContractInv
    <3>. QED
      BY <1>1, <1>3, <1>5, <2>1, <3>1, ReadSimulates
      DEF RenewRead, Idle, OpKinds, FileLocked, Terminal
  <2>. QED
    BY <1>2, <1>5, <2>1 DEF RenewRead
<1>6. CASE FinishRead(t)
  <2>1. CASE /\ file.status \notin Terminal \cup {"absent"} /\ Owns(t, file)
             /\ Enter(Home(t), "finish", t)
    <3>1. claims = 1
      BY <2>1, OwnsLease DEF ContractInv
    <3>2. file.status = "running"
      BY <1>3, <2>1, <3>1 DEF ClaimedOnce, Job, Requested
    <3>. QED
      BY <1>1, <1>3, <1>6, <2>1, <3>1, <3>2, ReadSimulates
      DEF FinishRead, Idle, OpKinds, FileLocked, Terminal
  <2>. QED
    BY <1>2, <1>6, <2>1 DEF FinishRead
<1>7. CASE \/ Prepare(t) \/ RunStarts(t) \/ RunFails(t) \/ FinalizeChecks(t)
           \/ MoveBegins(t) \/ MoveEnds(t) \/ RegisterChild(t)
  BY <1>2, <1>7 DEF Prepare, RunStarts, RunFails, FinalizeChecks, MoveBegins,
     MoveEnds, RegisterChild
<1>. QED
  BY <1>4, <1>5, <1>6, <1>7 DEF Works

\* Only a process that is up, or comes up, enters an operation.
LEMMA DownIdleKept ==
    ASSUME JobInv, DownIsIdle, [Next]_vars
    PROVE  DownIsIdle'
<1>1. op \in [Procs -> OpRec] /\ up \in [Procs -> BOOLEAN]
  BY DEF JobInv, TypeOK, OpRec
<1>2. ASSUME NEW p \in Procs, NEW k, NEW t, Enter(p, k, t), up'[p],
             \A q \in Procs: q # p => up'[q] = up[q]
      PROVE  DownIsIdle'
  BY <1>1, <1>2 DEF DownIsIdle, Enter
<1>3. ASSUME NEW p \in Procs, Leave(p), \A q \in Procs: q # p => up'[q] = up[q]
      PROVE  DownIsIdle'
  BY <1>1, <1>3 DEF DownIsIdle, Leave
<1>4. ASSUME op' = op, \A q \in Procs: up'[q] = up[q] \/ up'[q]
      PROVE  DownIsIdle'
  BY <1>1, <1>4 DEF DownIsIdle
<1>5. ASSUME NEW p \in Procs, Requests(p) \/ Watchdog(p) \/ Writes(p)
      PROVE  DownIsIdle'
  <2>1. up' = up
    BY <1>5 DEF Requests, Watchdog, Writes, CreateRead, CreateWrite, StartRead, StartWrite,
       StaleRead, StaleWrite, ClaimWrite, RenewWrite, RegisterRun, FinishWrite, RecoverWrite
  <2>2. CASE CreateRead(p) \/ StartRead(p) \/ StaleRead(p)
    <3>1. up[p] /\ \E k \in OpKinds: Enter(p, k, 0)
      BY <2>2 DEF CreateRead, StartRead, StaleRead, Idle, OpKinds
    <3>. QED
      BY <1>2, <2>1, <3>1
  <2>3. CASE RegisterRun(p)
    <3>1. CASE op' = [op EXCEPT ![p].kind = "sealed"]
      <4>1. up[p]
        BY <2>3 DEF RegisterRun, DownIsIdle, NoOp
      <4>. QED
        BY <1>1, <2>1, <3>1, <4>1 DEF DownIsIdle
    <3>. QED
      BY <1>3, <2>1, <2>3, <3>1 DEF RegisterRun
  <2>4. CASE \/ CreateWrite(p) \/ StartWrite(p) \/ StaleWrite(p) \/ ClaimWrite(p)
             \/ RenewWrite(p) \/ FinishWrite(p) \/ RecoverWrite(p)
    <3>1. Leave(p)
      BY <2>4 DEF CreateWrite, StartWrite, StaleWrite, ClaimWrite, RenewWrite,
         FinishWrite, RecoverWrite
    <3>. QED
      BY <1>3, <2>1, <3>1
  <2>. QED
    BY <1>5, <2>2, <2>3, <2>4 DEF Requests, Watchdog, Writes
<1>6. ASSUME NEW p \in Procs, Crash(p) PROVE DownIsIdle'
  <2>1. Leave(p) /\ \A q \in Procs: q # p => up'[q] = up[q]
    BY <1>1, <1>6 DEF Crash, Leave
  <2>. QED
    BY <1>3, <2>1
<1>7. ASSUME NEW p \in Procs, Restart(p) PROVE DownIsIdle'
  <2>1. up'[p] /\ \A q \in Procs: q # p => up'[q] = up[q]
    BY <1>1, <1>7 DEF Restart
  <2>2. op' = op \/ \E k \in OpKinds: Enter(p, k, 0)
    BY <1>7 DEF Restart, Redispatch, OpKinds, FileLocked
  <2>. QED
    BY <1>2, <1>4, <2>1, <2>2
<1>8. ASSUME NEW t \in DOMAIN thread, Works(t) \/ RenewRead(t) PROVE DownIsIdle'
  <2>1. up' = up
    BY <1>8 DEF Works, ClaimRead, Prepare, RunStarts, RunFails, FinalizeChecks, MoveBegins,
       MoveEnds, RegisterChild, FinishRead, RenewRead
  <2>2. Home(t) \in Procs
    BY <1>8, HomeTyped
  <2>3. op' = op \/ (up[Home(t)] /\ \E k \in OpKinds: Enter(Home(t), k, t))
    BY <1>8 DEF Works, ClaimRead, Prepare, RunStarts, RunFails, FinalizeChecks, MoveBegins,
       MoveEnds, RegisterChild, FinishRead, RenewRead, Idle, OpKinds, FileLocked
  <2>. QED
    BY <1>2, <1>4, <2>1, <2>2, <2>3
<1>9. CASE \/ \E r \in RunIds: InvalidateSidecar(r) \/ InvalidateLine(r)
           \/ InvalidateBase \/ Expire \/ QueuedTooLong \/ UNCHANGED vars
  <2>1. op' = op /\ up' = up
    BY <1>9 DEF InvalidateSidecar, InvalidateLine, InvalidateBase, Expire, QueuedTooLong, vars
  <2>. QED
    BY <1>4, <2>1
<1>. QED
  BY <1>5, <1>6, <1>7, <1>8, <1>9 DEF Next

\* Every step is a step of the contract or leaves it alone.
LEMMA ContractNext ==
    OneRequester /\ ContractInv /\ [Next]_vars => ContractInv' /\ ContractStep
<1> SUFFICES ASSUME OneRequester, ContractInv, [Next]_vars
             PROVE  ContractInv' /\ ContractStep
  OBVIOUS
<1>2. JobInv' /\ DownIsIdle'
  BY JobInvNext, DownIdleKept DEF ContractInv
<1>3. ASSUME NEW p \in Procs, Requests(p) \/ Watchdog(p) \/ Writes(p) \/ Crash(p) \/ Restart(p)
      PROVE  ContractStep /\ \A q \in Procs: InFlight(q)'
  BY <1>3, RequestsSimulate, LockedWritesSimulate, FailingWritesSimulate, ProcessSimulates
  DEF Watchdog, Writes, Requests
<1>4. ASSUME NEW t \in DOMAIN thread, Works(t) \/ RenewRead(t)
      PROVE  ContractStep /\ \A q \in Procs: InFlight(q)'
  BY <1>4, ThreadsSimulate
<1>5. CASE \/ \E r \in RunIds: InvalidateSidecar(r) \/ InvalidateLine(r)
           \/ InvalidateBase \/ Expire \/ QueuedTooLong \/ UNCHANGED vars
  <2>1. file \in Job
    BY DEF ContractInv, JobInv, TypeOK
  <2>2. claims' = claims /\ op' = op /\ file'.status = file.status
    BY <1>5, <2>1 DEF InvalidateSidecar, InvalidateLine, InvalidateBase, Expire,
       QueuedTooLong, vars, Job
  <2>3. ContractStep /\ \A q \in Procs: InFlight(q)'
    BY <2>2, StutterSteps
  <2>. QED
    BY <1>2, <2>3 DEF ContractInv
<1>. QED
  BY <1>2, <1>3, <1>4, <1>5 DEF Next, ContractInv

\* The store implements the contract for any number of processes that share it:
\* one claim, no operation set out on a job that has ended, and none that takes a
\* completed job up again, through crashes, restarts, expired leases, unlocked
\* watchdogs and late workers.
THEOREM StoreImplementsContract ==
    ASSUME OneRequester
    PROVE  Spec => ImplementsContract
<1>1. Init => ContractInv
  BY JobInvInit DEF ContractInv, DownIsIdle, InFlight, Init, NoOp
<1>2. Init => Contract!Init
  BY DEF Init, Contract!Init, NoJob
<1>3. ContractInv /\ [Next]_vars => ContractInv' /\ ContractStep
  BY ContractNext
<1>. QED
  BY <1>1, <1>2, <1>3, PTL DEF Spec, ImplementsContract, Contract!Spec, ContractStep

================================================================================
