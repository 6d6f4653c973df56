------------------------------ MODULE ResearchJobs ------------------------------
(***************************************************************************)
(* The research job store and its workers (services/research/jobs.py,      *)
(* robustness_jobs.py, write_service.py, robustness_service.py), with the  *)
(* artifact writer (artifacts.py, runner.py) and the run registry          *)
(* (registry.py).  One job file is shared by several API processes.        *)
(*                                                                         *)
(* Inside one process every store operation holds the job's RLock, so a    *)
(* process has at most one operation in flight: op[p].  claim, renew_lease, *)
(* finish and recover_orphans also hold the interprocess file lock; create, *)
(* start, the stale watchdog and the unrunnable path do not.  Each is a     *)
(* read with its checks and a later write of the job it read.               *)
(*                                                                         *)
(* A lease is the number of its claim, which stands for worker_id and       *)
(* lease_id together (lease_id is fresh for every claim).                   *)
(***************************************************************************)
EXTENDS Integers, Sequences, FiniteSets

CONSTANTS
    Procs,          \* API processes that share the job store
    RequestProcs,   \* those that receive create and start requests
    Kinds,          \* which jobs to check: experiments, suites, bootstraps
    NChildren,      \* child runs of a robustness suite
    MaxThreads,     \* bound: worker threads ever dispatched
    MaxCrashes      \* bound: process crashes

ASSUME JobAssumptions ==
    /\ RequestProcs \subseteq Procs
    /\ Kinds \subseteq {"experiment", "suite", "bootstrap"}
    /\ NChildren \in Nat \ {0}
    /\ MaxThreads \in Nat /\ MaxCrashes \in Nat

VARIABLES
    kind,       \* what the job runs; fixed
    file,       \* the job file, replaced atomically
    dead,       \* leases whose lease_expires_at has passed
    claims,     \* leases given out so far
    up,         \* is the process serving
    op,         \* the store operation each process has in flight
    thread,     \* worker threads, in dispatch order
    active,     \* _ACTIVE_THREADS: the thread registered in each process
    artifacts,  \* the final directory of each run
    registry,   \* registry.jsonl
    sidecar,    \* runs with an invalidation sidecar
    base,       \* the pinned base run of a robustness job
    manifest,   \* the robustness manifest: the lease of its writer, 0 if none
    crashes     \* crashes so far

vars == <<kind, file, dead, claims, up, op, thread, active, artifacts,
          registry, sidecar, base, manifest, crashes>>

Terminal == {"completed", "failed"}

\* The runs a job executes: its own, one per child spec, or none.
RunCount == [experiment |-> 1, suite |-> NChildren, bootstrap |-> 0]
RunIds == 1 .. NChildren

Job == [status: {"absent", "created", "queued", "running"} \cup Terminal,
        lease: 0 .. MaxThreads, seal: 0 .. MaxThreads, old: BOOLEAN]
NoJob == [status |-> "absent", lease |-> 0, seal |-> 0, old |-> FALSE]

FileLocked == {"claim", "renew", "finish", "sealed", "recover"}
OpKinds == {"create", "stale", "start", "unrunnable"} \cup FileLocked
NoOp == [kind |-> "none", job |-> NoJob, by |-> 0]

ThreadPcs == {"dispatched", "prepare", "run", "writing", "moving", "moved",
              "register", "finishing", "done"}

\* Mutant: only the process's own lock.
LockFreeAlways == TRUE

\* Does somebody hold the interprocess lock of the job?
LockFree == \A q \in Procs: op[q].kind \notin FileLocked

\* Process p can enter a store operation: its RLock is free.
Idle(p) == up[p] /\ op[p] = NoOp

ThreadAlive(t) == thread[t].pc # "done"
WorkerActive(p) == active[p] # 0 /\ ThreadAlive(active[p])

LeaseLive(j) == j.lease # 0 /\ j.lease \notin dead

Failed(j) == [j EXCEPT !.status = "failed", !.old = FALSE]

Init ==
    /\ kind \in Kinds
    /\ file = NoJob
    /\ dead = {} /\ claims = 0 /\ crashes = 0
    /\ up = [p \in Procs |-> TRUE]
    /\ op = [p \in Procs |-> NoOp]
    /\ thread = <<>>
    /\ active = [p \in Procs |-> 0]
    /\ artifacts = [r \in RunIds |-> "absent"]
    /\ registry = <<>> /\ sidecar = {}
    /\ base = "complete" /\ manifest = 0

RunState == <<artifacts, registry, sidecar, base, manifest>>

--------------------------------------------------------------------------------
(* Registry: an append-only list of lines; a sidecar overrides every line. *)

Reported(r) ==
    IF r \in sidecar THEN "invalidated"
    ELSE IF \E i \in 1 .. Len(registry):
                registry[i] = [run |-> r, status |-> "complete"]
         THEN "complete" ELSE "unknown"

\* verify_checksums_against: every sealed file is there unchanged and no other is.
Verified(r) == artifacts[r] = "complete"

\* register_complete refuses a sidecar, a second complete line, and artifacts
\* whose files do not match their checksums.
Registrable(r) == Reported(r) = "unknown" /\ Verified(r)

Appended(r, s) == Append(registry, [run |-> r, status |-> s])

\* invalidate: the sidecar first, the registry line after it.
InvalidateSidecar(r) ==
    /\ Reported(r) = "complete"
    /\ sidecar' = sidecar \cup {r}
    /\ UNCHANGED <<kind, file, dead, claims, up, op, thread, active, artifacts,
                   registry, base, manifest, crashes>>

InvalidateLine(r) ==
    /\ r \in sidecar
    /\ \A i \in 1 .. Len(registry): registry[i] # [run |-> r, status |-> "invalidated"]
    /\ registry' = Appended(r, "invalidated")
    /\ UNCHANGED <<kind, file, dead, claims, up, op, thread, active, artifacts,
                   sidecar, base, manifest, crashes>>

\* The base run of a robustness job is invalidated by an operator.
InvalidateBase ==
    /\ kind # "experiment" /\ base = "complete"
    /\ base' = "invalidated"
    /\ UNCHANGED <<kind, file, dead, claims, up, op, thread, active, artifacts,
                   registry, sidecar, manifest, crashes>>

--------------------------------------------------------------------------------
(* Requests.  They hold the process's RLock, not the file lock. *)

Enter(p, k, t) == op' = [op EXCEPT ![p] = [kind |-> k, job |-> file, by |-> t]]
Leave(p) == op' = [op EXCEPT ![p] = NoOp]

\* create_experiment / create: nothing to do for a queued, running or terminal job.
CreateRead(p) ==
    /\ p \in RequestProcs /\ Idle(p)
    /\ file.status \in {"absent", "created"}
    /\ kind = "experiment" \/ base = "complete"
    /\ Enter(p, "create", 0)
    /\ UNCHANGED <<kind, file, dead, claims, up, thread, active, RunState, crashes>>

CreateWrite(p) ==
    /\ op[p].kind = "create"
    /\ file' = [NoJob EXCEPT !.status = "created"]
    /\ Leave(p)
    /\ UNCHANGED <<kind, dead, claims, up, thread, active, RunState, crashes>>

\* mark_stale_if_needed, which create, start, get_status and list_jobs call.
IsStale(p, j) ==
    \/ j.status = "running" /\ ~LeaseLive(j)
    \/ j.status = "queued" /\ j.old /\ ~WorkerActive(p)

StaleRead(p) ==
    /\ Idle(p) /\ IsStale(p, file)
    /\ Enter(p, "stale", 0)
    /\ UNCHANGED <<kind, file, dead, claims, up, thread, active, RunState, crashes>>

StaleWrite(p) ==
    /\ op[p].kind = "stale"
    /\ file' = Failed(op[p].job)
    /\ Leave(p)
    /\ UNCHANGED <<kind, dead, claims, up, thread, active, RunState, crashes>>

\* _dispatch: a worker thread, registered in its process.
NewThread(p) ==
    [proc |-> p, pc |-> "dispatched", lease |-> 0, beating |-> FALSE,
     at |-> 1, outcome |-> "none"]
Dispatch(p) ==
    /\ Len(thread) < MaxThreads
    /\ thread' = Append(thread, NewThread(p))
    /\ active' = [active EXCEPT ![p] = Len(thread) + 1]

\* start_experiment / start: compare_and_set created -> queued, then _dispatch.
StartRead(p) ==
    /\ p \in RequestProcs /\ Idle(p) /\ Len(thread) < MaxThreads
    /\ file.status = "created"
    /\ Enter(p, "start", 0)
    /\ UNCHANGED <<kind, file, dead, claims, up, thread, active, RunState, crashes>>

StartWrite(p) ==
    /\ op[p].kind = "start"
    /\ file' = [op[p].job EXCEPT !.status = "queued", !.old = FALSE]
    /\ Leave(p)
    /\ Dispatch(p)
    /\ UNCHANGED <<kind, dead, claims, up, RunState, crashes>>

--------------------------------------------------------------------------------
(* The worker thread: _run_job. *)

Step(t, pc) == thread' = [thread EXCEPT ![t].pc = pc]
Home(t) == thread[t].proc
At(t, pc) == thread[t].pc = pc /\ up[Home(t)]

\* claim: under both locks; a job that is not queued ends the thread.
ClaimRead(t) ==
    /\ At(t, "dispatched") /\ Idle(Home(t)) /\ LockFree
    /\ IF file.status = "queued" /\ ~LeaseLive(file)
       THEN Enter(Home(t), "claim", t) /\ UNCHANGED thread
       ELSE Step(t, "done") /\ UNCHANGED op
    /\ UNCHANGED <<kind, file, dead, claims, up, active, RunState, crashes>>

ClaimWrite(p) ==
    /\ op[p].kind = "claim"
    /\ claims' = claims + 1
    /\ file' = [op[p].job EXCEPT !.status = "running", !.lease = claims + 1,
                                 !.old = FALSE]
    /\ thread' = [thread EXCEPT ![op[p].by].pc = "prepare",
                                ![op[p].by].lease = claims + 1,
                                ![op[p].by].beating = TRUE]
    /\ Leave(p)
    /\ UNCHANGED <<kind, dead, up, active, RunState, crashes>>

\* Does thread t still own job j under a live lease?
Owns(t, j) == j.lease = thread[t].lease /\ LeaseLive(j)

\* _heartbeat_loop: renew while the lease is owned and live, else stop renewing.
RenewRead(t) ==
    /\ ThreadAlive(t) /\ thread[t].beating /\ Idle(Home(t)) /\ LockFree
    /\ IF file.status = "running" /\ Owns(t, file)
       THEN Enter(Home(t), "renew", t) /\ UNCHANGED thread
       ELSE thread' = [thread EXCEPT ![t].beating = FALSE] /\ UNCHANGED op
    /\ UNCHANGED <<kind, file, dead, claims, up, active, RunState, crashes>>

RenewWrite(p) ==
    /\ op[p].kind = "renew"
    /\ file' = op[p].job
    /\ dead' = dead \ {op[p].job.lease}
    /\ Leave(p)
    /\ UNCHANGED <<kind, claims, up, thread, active, RunState, crashes>>

Outcome(t, o) == thread' = [thread EXCEPT ![t].pc = "finishing", ![t].outcome = o]

\* Spec, bundle and pinned base run are loaded; any failure fails the job.
\* A bootstrap has no run of its own: it reads the base run's equity.
Prepare(t) ==
    /\ At(t, "prepare")
    /\ \/ Outcome(t, "failed") /\ UNCHANGED manifest
       \/ /\ kind = "experiment" \/ base = "complete"
          /\ RunCount[kind] > 0
          /\ Step(t, "run") /\ UNCHANGED manifest
       \/ /\ kind = "bootstrap" /\ base = "complete"
          /\ Outcome(t, "complete") /\ manifest' = thread[t].lease
    /\ UNCHANGED <<kind, file, dead, claims, up, op, active, artifacts, registry,
                   sidecar, base, crashes>>

\* What follows one run: an experiment reports it; a suite goes on to its next
\* child whatever came of this one and, after the last, saves its manifest.
AfterRun(t, o) ==
    IF kind = "experiment"
    THEN Outcome(t, o) /\ UNCHANGED manifest
    ELSE IF thread[t].at < RunCount[kind]
         THEN /\ thread' = [thread EXCEPT ![t].pc = "run", ![t].at = @ + 1]
              /\ UNCHANGED manifest
         ELSE /\ Outcome(t, "complete")
              /\ manifest' = thread[t].lease

\* run_experiment enters the ArtifactWriter, which refuses an existing directory.
\* Git, dataset, backtest or provenance errors fail the run before it is moved.
RunStarts(t) ==
    /\ At(t, "run") /\ artifacts[thread[t].at] = "absent"
    /\ Step(t, "writing")
    /\ UNCHANGED <<kind, file, dead, claims, up, op, active, RunState, crashes>>

RunFails(t) ==
    /\ At(t, "run") \/ At(t, "writing")
    /\ AfterRun(t, "failed")
    /\ UNCHANGED <<kind, file, dead, claims, up, op, active, artifacts, registry,
                   sidecar, base, crashes>>

\* finalize: a second existence check, then shutil.move.  Across file systems
\* the move is a copy; onto a directory that appeared meanwhile it nests.
FinalizeChecks(t) ==
    /\ At(t, "writing") /\ artifacts[thread[t].at] = "absent"
    /\ Step(t, "moving")
    /\ UNCHANGED <<kind, file, dead, claims, up, op, active, RunState, crashes>>

MoveBegins(t) ==
    /\ At(t, "moving")
    /\ artifacts' = [artifacts EXCEPT ![thread[t].at] =
                        IF @ = "absent" THEN "partial" ELSE "polluted"]
    /\ Step(t, "moved")
    /\ UNCHANGED <<kind, file, dead, claims, up, op, active, registry, sidecar,
                   base, manifest, crashes>>

MoveEnds(t) ==
    /\ At(t, "moved")
    /\ artifacts' = [artifacts EXCEPT ![thread[t].at] =
                        IF @ = "partial" THEN "complete" ELSE @]
    /\ IF kind = "experiment" THEN Outcome(t, "complete") ELSE Step(t, "register")
    /\ UNCHANGED <<kind, file, dead, claims, up, op, active, registry, sidecar,
                   base, manifest, crashes>>

\* A child run is registered as it ends, whoever owns the job by then.
RegisterChild(t) ==
    /\ At(t, "register")
    /\ registry' = IF Registrable(thread[t].at)
                   THEN Appended(thread[t].at, "complete") ELSE registry
    /\ AfterRun(t, "complete")
    /\ UNCHANGED <<kind, file, dead, claims, up, op, active, artifacts, sidecar,
                   base, crashes>>

\* The thread ends: heartbeat stopped, registration popped.
Ends(t) == /\ thread' = [thread EXCEPT ![t].pc = "done", ![t].beating = FALSE]
           /\ active' = [active EXCEPT ![Home(t)] = 0]

\* Mutant: finish checks the lease and not the status.
FinishReadTerminal(t) ==
    /\ At(t, "finishing") /\ Idle(Home(t)) /\ LockFree
    /\ IF file.lease = thread[t].lease
       THEN Enter(Home(t), "finish", t) /\ UNCHANGED <<thread, active>>
       ELSE Ends(t) /\ UNCHANGED op
    /\ UNCHANGED <<kind, file, dead, claims, up, RunState, crashes>>

\* finish: refused for a terminal job, a foreign lease or an expired one.
FinishRead(t) ==
    /\ At(t, "finishing") /\ Idle(Home(t)) /\ LockFree
    /\ IF file.status \notin Terminal \cup {"absent"} /\ Owns(t, file)
       THEN Enter(Home(t), "finish", t) /\ UNCHANGED <<thread, active>>
       ELSE Ends(t) /\ UNCHANGED op
    /\ UNCHANGED <<kind, file, dead, claims, up, RunState, crashes>>

\* The mutation of an experiment that completed: registered inside finish,
\* before the job is written.  A refusal turns the outcome into a failure.
RegisterRun(p) ==
    LET t == op[p].by IN
    /\ op[p].kind = "finish" /\ kind = "experiment" /\ thread[t].outcome = "complete"
    /\ IF Registrable(1)
       THEN /\ registry' = Appended(1, "complete")
            /\ op' = [op EXCEPT ![p].kind = "sealed"]
            /\ UNCHANGED thread
       ELSE Leave(p) /\ Outcome(t, "failed") /\ UNCHANGED registry
    /\ UNCHANGED <<kind, file, dead, claims, up, active, artifacts, sidecar, base,
                   manifest, crashes>>

\* Mutant: a robustness job completes without the seal of its manifest.
FinishWriteUnsealed(p) ==
    LET t == op[p].by
        completed == thread[t].outcome = "complete" IN
    /\ \/ op[p].kind = "sealed"
       \/ op[p].kind = "finish" /\ ~(kind = "experiment" /\ completed)
    /\ file' = IF completed
               THEN [op[p].job EXCEPT !.status = "completed"]
               ELSE Failed(op[p].job)
    /\ Leave(p)
    /\ Ends(t)
    /\ UNCHANGED <<kind, dead, claims, up, RunState, crashes>>

FinishWrite(p) ==
    LET t == op[p].by
        completed == thread[t].outcome = "complete" IN
    /\ \/ op[p].kind = "sealed"
       \/ op[p].kind = "finish" /\ ~(kind = "experiment" /\ completed)
    /\ file' = IF completed
               THEN [op[p].job EXCEPT !.status = "completed",
                        !.seal = IF kind = "experiment" THEN 0 ELSE thread[t].lease]
               ELSE Failed(op[p].job)
    /\ Leave(p)
    /\ Ends(t)
    /\ UNCHANGED <<kind, dead, claims, up, RunState, crashes>>

--------------------------------------------------------------------------------
(* Time, crashes and restarts. *)

\* A lease that is not renewed in time, or a queued job nobody claimed for long.
Expire ==
    /\ file.status = "running" /\ LeaseLive(file)
    /\ dead' = dead \cup {file.lease}
    /\ UNCHANGED <<kind, file, claims, up, op, thread, active, RunState, crashes>>

QueuedTooLong ==
    /\ file.status = "queued" /\ ~file.old
    /\ file' = [file EXCEPT !.old = TRUE]
    /\ UNCHANGED <<kind, dead, claims, up, op, thread, active, RunState, crashes>>

\* The process dies between any two steps: its threads end, its locks are freed.
Crash(p) ==
    /\ up[p] /\ crashes < MaxCrashes
    /\ up' = [up EXCEPT ![p] = FALSE]
    /\ crashes' = crashes + 1
    /\ op' = [op EXCEPT ![p] = NoOp]
    /\ thread' = [t \in DOMAIN thread |->
                    IF Home(t) = p THEN [thread[t] EXCEPT !.pc = "done", !.beating = FALSE]
                    ELSE thread[t]]
    /\ active' = [active EXCEPT ![p] = 0]
    /\ UNCHANGED <<kind, file, dead, claims, RunState>>

\* A job of which recover_orphans finds no live owner.
Orphaned(j) == j.status \in {"queued", "running"} /\ ~LeaseLive(j)

\* A queued orphan is dispatched again, or failed (compare_and_set, without the
\* file lock) if its catalogue entry or spec is gone.
Redispatch(p) ==
    \/ Dispatch(p) /\ UNCHANGED op
    \/ Enter(p, "unrunnable", 0) /\ UNCHANGED <<thread, active>>

\* Start of a process: recover_orphans, before it serves.  A running orphan is
\* failed under the file lock; a job that is no orphan is left alone.
Restart(p) ==
    /\ ~up[p] /\ LockFree
    /\ up' = [up EXCEPT ![p] = TRUE]
    /\ \/ Orphaned(file) /\ file.status = "queued" /\ Redispatch(p)
       \/ /\ Orphaned(file) /\ file.status = "running"
          /\ Enter(p, "recover", 0) /\ UNCHANGED <<thread, active>>
       \/ ~Orphaned(file) /\ UNCHANGED <<op, thread, active>>
    /\ UNCHANGED <<kind, file, dead, claims, RunState, crashes>>

RecoverWrite(p) ==
    /\ op[p].kind \in {"recover", "unrunnable"}
    /\ file' = Failed(op[p].job)
    /\ Leave(p)
    /\ UNCHANGED <<kind, dead, claims, up, thread, active, RunState, crashes>>

--------------------------------------------------------------------------------
Requests(p) == CreateRead(p) \/ CreateWrite(p) \/ StartRead(p) \/ StartWrite(p)
Watchdog(p) == StaleRead(p) \/ StaleWrite(p)
Writes(p) == \/ ClaimWrite(p) \/ RenewWrite(p) \/ RegisterRun(p) \/ FinishWrite(p)
             \/ RecoverWrite(p) \/ StaleWrite(p) \/ CreateWrite(p) \/ StartWrite(p)
Works(t) ==
    \/ ClaimRead(t) \/ Prepare(t) \/ RunStarts(t) \/ RunFails(t)
    \/ FinalizeChecks(t) \/ MoveBegins(t) \/ MoveEnds(t) \/ RegisterChild(t)
    \/ FinishRead(t)

Next ==
    \/ \E p \in Procs: Requests(p) \/ Watchdog(p) \/ Writes(p) \/ Crash(p) \/ Restart(p)
    \/ \E t \in DOMAIN thread: Works(t) \/ RenewRead(t)
    \/ \E r \in RunIds: InvalidateSidecar(r) \/ InvalidateLine(r)
    \/ InvalidateBase \/ Expire \/ QueuedTooLong

Spec == Init /\ [][Next]_vars

--------------------------------------------------------------------------------
(* Properties. *)

\* Every variable stays in its type; operations in flight name a real thread.
TypeOK ==
    /\ kind \in Kinds
    /\ file \in Job
    /\ dead \subseteq 1 .. MaxThreads /\ claims \in 0 .. MaxThreads
    /\ up \in [Procs -> BOOLEAN]
    /\ op \in [Procs -> [kind: OpKinds \cup {"none"}, job: Job, by: 0 .. MaxThreads]]
    /\ thread \in Seq([proc: Procs, pc: ThreadPcs, lease: 0 .. MaxThreads,
                       beating: BOOLEAN, at: 1 .. NChildren,
                       outcome: {"none", "complete", "failed"}])
    /\ active \in [Procs -> 0 .. MaxThreads]
    /\ artifacts \in [RunIds -> {"absent", "partial", "complete", "polluted"}]
    /\ registry \in Seq([run: RunIds, status: {"complete", "invalidated"}])
    /\ sidecar \subseteq RunIds
    /\ base \in {"complete", "invalidated"} /\ manifest \in 0 .. MaxThreads
    /\ crashes \in 0 .. MaxCrashes

\* claim / recover_orphans: "at most one process ends up actually running it".
\* No two threads, of one process or of two, ever claim the same job, if only one
\* process receives start requests (start does not hold the file lock); the other
\* one recovers, expires and reads.
AtMostOneRunner ==
    \A t, u \in DOMAIN thread: thread[t].lease # 0 /\ thread[u].lease # 0 => t = u

\* finish: a job is reported completed only when what it reports is there: the
\* run registered over its complete artifacts, or the manifest it was sealed with.
CompletedIsBacked ==
    file.status = "completed" =>
        IF kind = "experiment"
        THEN artifacts[1] = "complete" /\ Reported(1) # "unknown"
        ELSE file.seal # 0 /\ manifest = file.seal

\* register_complete: a line of the registry is about a directory that was moved
\* completely, never a copy that a crash or a second writer left half done.
RegistryIsBacked ==
    \A i \in 1 .. Len(registry): artifacts[registry[i].run] = "complete"

\* The store implements the contract its docstring states, as far as it holds when
\* several processes share the job (JobContract): claimed once, nobody sets out to
\* write a job that has ended, and a completed one is never taken up again.
Contract == INSTANCE JobContract
            WITH Writers <- Procs, status <- file.status, claims <- claims,
                 writers <- {p \in Procs: op[p] # NoOp}
ImplementsContract == Contract!Spec

\* jobs.py, restart semantics: "terminal (completed / failed): unchanged"; finish:
\* "never overwritten".  The status of a job that has ended does not change.
TerminalUnchanged == [][file.status \in Terminal => file'.status = file.status]_vars

\* What the store and the registry report is backed by whole files, whatever crash,
\* late finish or second writer came in between (finish, register_complete).
ReportsAreBacked == TypeOK /\ CompletedIsBacked /\ RegistryIsBacked
================================================================================
