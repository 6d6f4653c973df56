--------------------------- MODULE WorkerRuntime ---------------------------
(***************************************************************************)
(* The life of the paper worker's process and of its runtime_state row:    *)
(* the advisory lock that admits one worker, startup recovery, the         *)
(* readiness loop, the heartbeat thread, shutdown, and the control API     *)
(* served by the same process.  Several processes (the predecessor and the *)
(* successor of a deployment) share one database.                          *)
(*                                                                         *)
(* Every change of runtime_state loads the row, validates, and then sends  *)
(* an UPDATE of the columns it changed, WHERE instance_id = ... only.  The *)
(* version is compared between two reads, never by the UPDATE: after a     *)
(* foreign commit (stale) the writer may raise a version conflict, if the  *)
(* commit fell between its reads, or overwrite, if it fell after them.     *)
(* last_error is reduced to: none, the heartbeat, something else.          *)
(***************************************************************************)
EXTENDS Naturals, FiniteSets

CONSTANTS
    Workers,            \* processes of the worker, one after the other or at once
    Kinds,              \* control requests that clients send
    ConnectionsDrop,    \* the lock's database connection may be lost
    NoOne               \* no process

ASSUME WorkerAssumption ==
    /\ IsFiniteSet(Workers)
    /\ NoOne \notin Workers
    /\ Kinds \subseteq {"pause", "resume", "kill", "recover"}
    /\ ConnectionsDrop \in BOOLEAN

VARIABLES
    row,        \* the committed runtime_state row
    lockOwner,  \* whose connection holds the advisory lock in the database
    rowLock,    \* the session with an uncommitted UPDATE of the row
    at,         \* where the event loop of each process is
    started,    \* PaperTradingApplication._started
    held,       \* PostgresAdvisoryLock._held, the process's own belief
    healthy,    \* PaperTradingApplication._heartbeat_healthy
    good,       \* every other readiness condition: feed, schema, backlog, ...
    beat,       \* where the heartbeat thread is
    request,    \* the control request each process is serving
    txn,        \* what each session has loaded and is about to write
    accepted    \* what the control API last answered to clients

vars == <<row, lockOwner, rowLock, at, started, held, healthy, good, beat,
          request, txn, accepted>>

-----------------------------------------------------------------------------
Status == {"STOPPED", "STARTING", "RECOVERING", "SYNCING", "READY",
           "DEGRADED", "SHUTTING_DOWN", "FAILED"}

Columns == {"status", "error", "paused", "kill"}

Reasons == {"none", "heartbeat", "other"}

Row == [status : Status, error : Reasons, paused : BOOLEAN, kill : BOOLEAN]

\* The event loop's places.  "exiting": stop() has returned, or an exception
\* ends the process; "refused" is the exception of a recovery that may not
\* start from the stored status.
Places == {"off", "waiting", "acquired", "checking", "recovering", "locked",
           "syncing", "running", "evaluated", "stopping", "draining",
           "released", "finishing", "exiting", "refused"}

\* Three sessions per process: the worker's own, the heartbeat's short-lived
\* one (it has its own engine) and the one of a control request.
Main(w) == <<w, "main">>
Beat(w) == <<w, "beat">>
Api(w) == <<w, "api">>
Sessions == Workers \X {"main", "beat", "api"}

NoColumns == [c \in {} |-> FALSE]

\* The sets of columns that UPDATEs of runtime_state assign.
Writes == {NoColumns} \cup [status : Status] \cup [error : Reasons]
            \cup [status : Status, error : Reasons]
            \cup [paused : BOOLEAN] \cup [kill : BOOLEAN]

Txn == [set : Writes, loaded : Status \cup {"none"}, stale : BOOLEAN]

NoTxn == [set |-> NoColumns, loaded |-> "none", stale |-> FALSE]

\* own: release_after, the lock was acquired by the request itself.
Request == [kind : Kinds \cup {"none"},
            at : {"idle", "checking", "loaded", "locked"},
            own : BOOLEAN]

Idle == [kind |-> "none", at |-> "idle", own |-> FALSE]

\* _RUNTIME_TRANSITIONS (PAUSED and KILLED are never entered by any code).
Successors(s) ==
    CASE s = "STOPPED" -> {"STARTING"}
      [] s = "STARTING" -> {"RECOVERING", "SYNCING", "FAILED"}
      [] s = "RECOVERING" -> {"SYNCING", "READY", "DEGRADED", "FAILED"}
      [] s = "SYNCING" -> {"READY", "DEGRADED", "FAILED"}
      [] s = "READY" -> {"DEGRADED", "FAILED", "SHUTTING_DOWN"}
      [] s = "DEGRADED" -> {"RECOVERING", "READY", "SHUTTING_DOWN", "FAILED"}
      [] s = "SHUTTING_DOWN" -> {"STOPPED", "FAILED"}
      [] s = "FAILED" -> {}

\* Mutant: recovery also from an unfinished shutdown.
ValidFromShutdown(s, t) ==
    s = t \/ t \in Successors(s) \/ <<s, t>> = <<"SHUTTING_DOWN", "RECOVERING">>

\* validate_runtime_transition: staying is always allowed.
ValidTransition(s, t) == s = t \/ t \in Successors(s)

-----------------------------------------------------------------------------
(* Sessions *)

\* Load of the row by session s, with the columns it is about to write.
Load(s, set) ==
    txn' = [txn EXCEPT ![s] = [set |-> set, loaded |-> row.status,
                               stale |-> FALSE]]

Active(s) == txn[s].loaded # "none"

\* The columns of a status transition with a reason: an unchanged status is
\* no change for the ORM and is not in the UPDATE.
StatusWrite(loaded, status, error) ==
    IF loaded = status THEN [error |-> error]
    ELSE [status |-> status, error |-> error]

Updated(r, set) ==
    [c \in Columns |-> IF c \in DOMAIN set THEN set[c] ELSE r[c]]

\* An UPDATE waits for the row lock of another session.
Writable(s) == rowLock \in {NoOne, s}

\* After a commit, whoever else has loaded the row before is stale.
Overtaken(t) == [txn[t] EXCEPT !.stale = Active(t)]

\* COMMIT of session s.
Commit(s) ==
    /\ Writable(s)
    /\ row' = Updated(row, txn[s].set)
    /\ rowLock' = NoOne
    /\ txn' = [t \in Sessions |-> IF t = s THEN NoTxn ELSE Overtaken(t)]

\* ROLLBACK of session s (an exception, or close() without COMMIT).
Rollback(s) ==
    /\ txn' = [txn EXCEPT ![s] = NoTxn]
    /\ rowLock' = IF rowLock = s THEN NoOne ELSE rowLock
    /\ UNCHANGED row

\* update_runtime_state: "runtime_state version conflict".
VersionConflict(s) == txn[s].stale /\ Rollback(s)

Goes(w, from, to) == at[w] = from /\ at' = [at EXCEPT ![w] = to]

\* RecoveryService._recovery_active is a class attribute: one per process.
RecoveryActive(w) ==
    \/ at[w] \in {"checking", "recovering", "locked"}
    \/ request[w].kind = "recover"

-----------------------------------------------------------------------------
(* start() *)

Start(w) ==
    /\ Goes(w, "off", "waiting")
    /\ healthy' = [healthy EXCEPT ![w] = TRUE]
    /\ UNCHANGED <<row, lockOwner, rowLock, started, held, good, beat,
                   request, txn, accepted>>

\* pg_try_advisory_lock
TryAcquire(w) == lockOwner = NoOne

AcquireLock(w) ==
    /\ Goes(w, "waiting", "acquired")
    /\ TryAcquire(w)
    /\ lockOwner' = w
    /\ held' = [held EXCEPT ![w] = TRUE]
    /\ UNCHANGED <<row, rowLock, started, healthy, good, beat, request, txn,
                   accepted>>

\* Mutant: after the timeout the worker starts without the lock.
LockTimeoutIgnored(w) ==
    /\ Goes(w, "waiting", "acquired")
    /\ ~TryAcquire(w)
    /\ held' = [held EXCEPT ![w] = TRUE]
    /\ UNCHANGED <<row, lockOwner, rowLock, started, healthy, good, beat,
                   request, txn, accepted>>

\* The startup timeout has passed and the lock is still another's.
LockTimeout(w) ==
    /\ Goes(w, "waiting", "exiting")
    /\ ~TryAcquire(w)
    /\ UNCHANGED <<row, lockOwner, rowLock, started, held, healthy, good,
                   beat, request, txn, accepted>>

\* recover_on_startup reads the status and branches on READY.  In the READY
\* branch nothing is written before the verdict.
RecoverBegin(w) ==
    /\ Goes(w, "acquired", "checking")
    /\ Load(Main(w), NoColumns)
    /\ UNCHANGED <<row, lockOwner, rowLock, started, held, healthy, good,
                   beat, request, accepted>>

\* The verdicts of recovery: a FATAL issue; a MANUAL one, or no market data;
\* neither.  Startup always passes market_data_ready=False.
StartupVerdicts == {"FAILED", "DEGRADED"}
RequestVerdicts == {"FAILED", "DEGRADED", "READY"}

\* The status that recovery first asks for, having branched on `branch`.
\* From STOPPED, RECOVERING is reached through STARTING.
RecoveryEntry(branch, verdict) ==
    IF branch = "READY" THEN ValidTransition(row.status, verdict)
    ELSE \/ ValidTransition(row.status, "RECOVERING")
         \/ /\ branch = "STOPPED"
            /\ ValidTransition(row.status, "STARTING")

\* What the verdict leaves in the row at COMMIT.  Outside the READY branch
\* the status has passed through RECOVERING, so it is always in the UPDATE.
RecoveryWrite(branch, verdict) ==
    IF branch = "READY"
    THEN StatusWrite(row.status, verdict, "other")
    ELSE [status |-> verdict,
          error |-> IF verdict = "READY" THEN "none" ELSE "other"]

RecoverLoad(w) ==
    /\ Goes(w, "checking", "recovering")
    /\ \E v \in StartupVerdicts :
          /\ RecoveryEntry(txn[Main(w)].loaded, v)
          /\ Load(Main(w), RecoveryWrite(txn[Main(w)].loaded, v))
    /\ UNCHANGED <<row, lockOwner, rowLock, started, held, healthy, good,
                   beat, request, accepted>>

\* InvalidTransitionError: start() rolls back and raises.
RecoverRefused(w) ==
    /\ Goes(w, "checking", "refused")
    /\ \E v \in StartupVerdicts : ~RecoveryEntry(txn[Main(w)].loaded, v)
    /\ Rollback(Main(w))
    /\ UNCHANGED <<lockOwner, started, held, healthy, good, beat, request,
                   accepted>>

RecoverConflict(w) ==
    /\ Goes(w, "recovering", "exiting")
    /\ VersionConflict(Main(w))
    /\ UNCHANGED <<lockOwner, started, held, healthy, good, beat, request,
                   accepted>>

\* The first UPDATE: the row stays locked until the one COMMIT in start().
RecoverUpdate(w) ==
    /\ Goes(w, "recovering", "locked")
    /\ rowLock = NoOne
    /\ rowLock' = Main(w)
    /\ UNCHANGED <<row, lockOwner, started, held, healthy, good, beat,
                   request, txn, accepted>>

\* A FAILED verdict is committed and then raised.
RecoverCommit(w) ==
    /\ at[w] = "locked"
    /\ Commit(Main(w))
    /\ at' = [at EXCEPT ![w] = IF row'.status = "FAILED" THEN "exiting"
                               ELSE "syncing"]
    /\ UNCHANGED <<lockOwner, started, held, healthy, good, beat, request,
                   accepted>>

\* The feed is not ready in time, constraints are missing, or the first
\* heartbeat fails.
StartupFails(w) ==
    /\ Goes(w, "syncing", "exiting")
    /\ UNCHANGED <<row, lockOwner, rowLock, started, held, healthy, good,
                   beat, request, txn, accepted>>

\* The feed is ready and start() has persisted the first heartbeat.
Synced(w) ==
    /\ Goes(w, "syncing", "running")
    /\ good[w]
    /\ rowLock = NoOne
    /\ txn' = [t \in Sessions |-> Overtaken(t)]
    /\ UNCHANGED <<row, lockOwner, rowLock, started, held, healthy, good,
                   beat, request, accepted>>

-----------------------------------------------------------------------------
(* _evaluate_runtime_readiness, by start() and by every turn of the loop *)

\* Mutants: DEGRADED is not promoted; FAILED is, once the conditions hold.
PromotableButDegraded == {"RECOVERING", "STARTING", "SYNCING"}

PromotableAndFailed ==
    {"RECOVERING", "DEGRADED", "STARTING", "SYNCING", "FAILED"}

PromotableStatuses == {"RECOVERING", "DEGRADED", "STARTING", "SYNCING"}

PromotionReady(w) ==
    good[w] /\ healthy[w] /\ held[w] /\ ~RecoveryActive(w)

Promote(w) ==
    /\ Goes(w, "running", "evaluated")
    /\ PromotionReady(w)
    /\ row.status \in PromotableStatuses
    /\ Load(Main(w), StatusWrite(row.status, "READY", "none"))
    /\ UNCHANGED <<row, lockOwner, rowLock, started, held, healthy, good,
                   beat, request, accepted>>

\* READY and a condition is gone, or an error is recorded.
Lapsed(w) ==
    row.status = "READY" /\ (~PromotionReady(w) \/ row.error # "none")

\* _readiness_failure_reason: the heartbeat comes first.
FailureReason(w) == IF healthy[w] THEN "other" ELSE "heartbeat"

\* DEGRADED for another reason than the recorded one.
Relabelled(w) ==
    /\ row.status = "DEGRADED"
    /\ ~PromotionReady(w)
    /\ FailureReason(w) # row.error \/ FailureReason(w) = "other"

Degrade(w) ==
    /\ Goes(w, "running", "evaluated")
    /\ \/ /\ Lapsed(w)
          /\ Load(Main(w), StatusWrite(row.status, "DEGRADED", "other"))
       \/ /\ Relabelled(w)
          /\ Load(Main(w), StatusWrite(row.status, "DEGRADED",
                                        FailureReason(w)))
    /\ UNCHANGED <<row, lockOwner, rowLock, started, held, healthy, good,
                   beat, request, accepted>>

\* Nothing to change; start() returns when its evaluation is over.
EvaluateNothing(w) ==
    /\ at[w] = "running"
    /\ ~started[w]
    /\ ~(PromotionReady(w) /\ row.status \in PromotableStatuses)
    /\ ~Lapsed(w)
    /\ started' = [started EXCEPT ![w] = TRUE]
    /\ UNCHANGED <<row, lockOwner, rowLock, at, held, healthy, good, beat,
                   request, txn, accepted>>

EvaluateWrite(w) ==
    /\ Goes(w, "evaluated", "running")
    /\ started' = [started EXCEPT ![w] = TRUE]
    /\ Commit(Main(w))
    /\ UNCHANGED <<lockOwner, held, healthy, good, beat, request, accepted>>

\* A version conflict, or the session's lock_timeout while another session
\* holds the row.  The loop logs it and goes on; start() raises it.
EvaluateFails(w) ==
    /\ at[w] = "evaluated"
    /\ at' = [at EXCEPT ![w] = IF started[w] THEN "running" ELSE "exiting"]
    /\ txn[Main(w)].stale \/ ~Writable(Main(w))
    /\ Rollback(Main(w))
    /\ UNCHANGED <<lockOwner, started, held, healthy, good, beat, request,
                   accepted>>

\* The feed, the backlog of events, the scheduler's rows, the schema.
ConditionsChange(w) ==
    /\ at[w] # "off"
    /\ good' = [good EXCEPT ![w] = ~@]
    /\ UNCHANGED <<row, lockOwner, rowLock, at, started, held, healthy, beat,
                   request, txn, accepted>>

-----------------------------------------------------------------------------
(* The heartbeat thread.  It runs beside the event loop, and a thread that  *)
(* is under way survives the cancellation of its task.                      *)

TasksRun(w) == at[w] \in {"running", "evaluated", "stopping"}

BeatLoad(w) ==
    /\ TasksRun(w)
    /\ beat[w] = "idle"
    /\ held[w]
    /\ beat' = [beat EXCEPT ![w] = "loaded"]
    /\ Load(Beat(w), NoColumns)
    /\ UNCHANGED <<row, lockOwner, rowLock, at, started, held, healthy, good,
                   request, accepted>>

BeatWrite(w) ==
    /\ beat[w] = "loaded"
    /\ beat' = [beat EXCEPT ![w] = "verifying"]
    /\ Writable(Beat(w))
    /\ txn' = [t \in Sessions |-> IF t = Beat(w) THEN txn[t] ELSE Overtaken(t)]
    /\ UNCHANGED <<row, rowLock, lockOwner, at, started, held, healthy, good,
                   request, accepted>>

\* The second session sees the version that the first one wrote.
BeatVerified(w) ==
    /\ beat[w] = "verifying"
    /\ beat' = [beat EXCEPT ![w] = "idle"]
    /\ healthy' = [healthy EXCEPT ![w] = TRUE]
    /\ Rollback(Beat(w))
    /\ UNCHANGED <<lockOwner, at, started, held, good, request, accepted>>

\* Three lock timeouts behind a locked row, a version conflict, or a foreign
\* commit between the COMMIT and its verification.
BeatFails(w) ==
    /\ \/ beat[w] = "loaded" /\ ~Writable(Beat(w))
       \/ beat[w] \in {"loaded", "verifying"} /\ txn[Beat(w)].stale
    /\ beat' = [beat EXCEPT ![w] = "idle"]
    /\ healthy' = [healthy EXCEPT ![w] = FALSE]
    /\ Rollback(Beat(w))
    /\ UNCHANGED <<lockOwner, at, started, held, good, request, accepted>>

-----------------------------------------------------------------------------
(* stop() *)

Stop(w) ==
    /\ started[w]
    /\ Goes(w, "running", "stopping")
    /\ ValidTransition(row.status, "SHUTTING_DOWN")
    /\ Load(Main(w), [status |-> "SHUTTING_DOWN"])
    /\ UNCHANGED <<row, lockOwner, rowLock, started, held, healthy, good,
                   beat, request, accepted>>

StopInvalid(w) ==
    /\ started[w]
    /\ Goes(w, "running", "exiting")
    /\ ~ValidTransition(row.status, "SHUTTING_DOWN")
    /\ UNCHANGED <<row, lockOwner, rowLock, started, held, healthy, good,
                   beat, request, txn, accepted>>

StopWrite(w) ==
    /\ Goes(w, "stopping", "draining")
    /\ Commit(Main(w))
    /\ UNCHANGED <<lockOwner, started, held, healthy, good, beat, request,
                   accepted>>

\* A version conflict or a lock timeout in either transition of stop().
StopFails(w) ==
    /\ \/ Goes(w, "stopping", "exiting")
       \/ Goes(w, "finishing", "exiting")
    /\ txn[Main(w)].stale \/ ~Writable(Main(w))
    /\ Rollback(Main(w))
    /\ UNCHANGED <<lockOwner, started, held, healthy, good, beat, request,
                   accepted>>

\* The tasks are cancelled and the feed is closed; the lock is released
\* before STOPPED is written.  On a lost connection the unlock raises.
Release(w) ==
    /\ at[w] = "draining"
    /\ \/ /\ lockOwner = w
          /\ at' = [at EXCEPT ![w] = "released"]
          /\ lockOwner' = NoOne
          /\ held' = [held EXCEPT ![w] = FALSE]
       \/ /\ lockOwner # w
          /\ at' = [at EXCEPT ![w] = "exiting"]
          /\ UNCHANGED <<lockOwner, held>>
    /\ UNCHANGED <<row, rowLock, started, healthy, good, beat, request, txn,
                   accepted>>

FinishLoad(w) ==
    /\ Goes(w, "released", "finishing")
    /\ row.status = "SHUTTING_DOWN"
    /\ Load(Main(w), [status |-> "STOPPED"])
    /\ UNCHANGED <<row, lockOwner, rowLock, started, held, healthy, good,
                   beat, request, accepted>>

\* The row is not SHUTTING_DOWN any more: stop() leaves it as it is.
FinishSkipped(w) ==
    /\ Goes(w, "released", "exiting")
    /\ row.status # "SHUTTING_DOWN"
    /\ UNCHANGED <<row, lockOwner, rowLock, started, held, healthy, good,
                   beat, request, txn, accepted>>

FinishWrite(w) ==
    /\ Goes(w, "finishing", "exiting")
    /\ Commit(Main(w))
    /\ UNCHANGED <<lockOwner, started, held, healthy, good, beat, request,
                   accepted>>

\* A process that has ended: its connections are closed, which frees its
\* locks and rolls back its sessions.
Gone(w) ==
    /\ at' = [at EXCEPT ![w] = "off"]
    /\ started' = [started EXCEPT ![w] = FALSE]
    /\ held' = [held EXCEPT ![w] = FALSE]
    /\ beat' = [beat EXCEPT ![w] = "idle"]
    /\ request' = [request EXCEPT ![w] = Idle]
    /\ lockOwner' = IF lockOwner = w THEN NoOne ELSE lockOwner
    /\ rowLock' = IF rowLock \in {Main(w), Api(w)} THEN NoOne ELSE rowLock
    /\ txn' = [txn EXCEPT ![Main(w)] = NoTxn, ![Beat(w)] = NoTxn,
                          ![Api(w)] = NoTxn]
    /\ UNCHANGED <<row, healthy, good, accepted>>

\* The interpreter joins the threads of the executor, the heartbeat's too.
ProcessExit(w) ==
    /\ at[w] \in {"exiting", "refused"}
    /\ beat[w] = "idle"
    /\ Gone(w)

Crash(w) ==
    /\ at[w] # "off"
    /\ Gone(w)

\* The database drops the connection that holds the lock.  Nothing tells the
\* process, and try_acquire() asks nobody while _held is set.
LockConnectionLost(w) ==
    /\ ConnectionsDrop
    /\ lockOwner = w
    /\ lockOwner' = NoOne
    /\ UNCHANGED <<row, rowLock, at, started, held, healthy, good, beat,
                   request, txn, accepted>>

-----------------------------------------------------------------------------
(* The control API: sync endpoints, in threads of the worker's process *)

\* What a request assigns to the row.
RequestColumns ==
    [pause |-> [paused |-> TRUE], resume |-> [paused |-> FALSE],
     kill |-> [kill |-> TRUE]]

\* control_pause, control_kill, control_resume up to the load of the row;
\* resume is refused while the kill switch is on or recovery is active.
RequestBegin(w) ==
    /\ TasksRun(w)
    /\ request[w] = Idle
    /\ \E k \in Kinds \ {"recover"} :
          /\ k = "resume" => ~row.kill /\ ~RecoveryActive(w)
          /\ request' = [request EXCEPT ![w] = [kind |-> k, at |-> "loaded",
                                                own |-> FALSE]]
          /\ Load(Api(w), RequestColumns[k])
    /\ UNCHANGED <<row, lockOwner, rowLock, at, started, held, healthy, good,
                   beat, accepted>>

\* Mutant: every control endpoint reads the row before its scope.
OwnTransactionNever(k) == k = "recover"

\* transaction_scope begins a transaction, and commits it, only on a session
\* that is not in one; control_resume has begun one by reading the row.
OwnTransaction(k) == k # "resume"

\* The UPDATE and the end of the request: COMMIT, or close() with ROLLBACK.
RequestWrite(w) ==
    /\ request[w].at = "loaded"
    /\ request[w].kind # "recover"
    /\ Writable(Api(w))
    /\ IF OwnTransaction(request[w].kind) THEN Commit(Api(w))
       ELSE Rollback(Api(w))
    /\ accepted' = IF request[w].kind = "kill"
                   THEN [accepted EXCEPT !.kill = TRUE]
                   ELSE [accepted EXCEPT !.run = request[w].kind]
    /\ request' = [request EXCEPT ![w] = Idle]
    /\ UNCHANGED <<lockOwner, at, started, held, healthy, good, beat>>

\* The end of a request: control_recover gives back the lock it took itself.
RequestEnds(w) ==
    /\ request' = [request EXCEPT ![w] = Idle]
    /\ IF request[w].own /\ lockOwner = w
       THEN lockOwner' = NoOne /\ held' = [held EXCEPT ![w] = FALSE]
       ELSE UNCHANGED <<lockOwner, held>>

\* A version conflict: the client gets an error.
RequestConflict(w) ==
    /\ request[w].at = "loaded"
    /\ VersionConflict(Api(w))
    /\ RequestEnds(w)
    /\ UNCHANGED <<at, started, healthy, good, beat, accepted>>

RecoverRequested(w, own) ==
    /\ "recover" \in Kinds
    /\ request[w] = Idle
    /\ request' = [request EXCEPT ![w] = [kind |-> "recover",
                                          at |-> "checking", own |-> own]]
    /\ Load(Api(w), NoColumns)
    /\ UNCHANGED <<row, rowLock, at, started, healthy, good, beat, accepted>>

\* control_recover of a process that holds the lock and is not recovering
RecoverRequest(w) ==
    /\ TasksRun(w)
    /\ held[w]
    /\ RecoverRequested(w, FALSE)
    /\ UNCHANGED <<lockOwner, held>>

\* control_recover in a thread that outlives the tasks and comes to the lock
\* after stop() has released it: it acquires the lock anew.
RecoverRequestLocks(w) ==
    /\ started[w] /\ at[w] \in {"released", "finishing", "exiting"}
    /\ ~held[w] /\ TryAcquire(w)
    /\ RecoverRequested(w, TRUE)
    /\ lockOwner' = w
    /\ held' = [held EXCEPT ![w] = TRUE]

RecoverRequestLoad(w) ==
    /\ request[w].at = "checking"
    /\ request' = [request EXCEPT ![w].at = "loaded"]
    /\ \E v \in RequestVerdicts :
          /\ RecoveryEntry(txn[Api(w)].loaded, v)
          /\ ~(txn[Api(w)].loaded = "READY" /\ v = "READY")
          /\ Load(Api(w), RecoveryWrite(txn[Api(w)].loaded, v))
    /\ UNCHANGED <<row, lockOwner, rowLock, at, started, held, healthy, good,
                   beat, accepted>>

\* An invalid transition, or nothing to change in the READY branch.
RecoverRequestEnds(w) ==
    /\ request[w].at = "checking"
    /\ \E v \in RequestVerdicts :
          \/ ~RecoveryEntry(txn[Api(w)].loaded, v)
          \/ txn[Api(w)].loaded = "READY" /\ v = "READY"
    /\ RequestEnds(w)
    /\ Rollback(Api(w))
    /\ UNCHANGED <<at, started, healthy, good, beat, accepted>>

RecoverRequestUpdate(w) ==
    /\ request[w].kind = "recover" /\ request[w].at = "loaded"
    /\ rowLock = NoOne
    /\ rowLock' = Api(w)
    /\ request' = [request EXCEPT ![w].at = "locked"]
    /\ UNCHANGED <<row, lockOwner, at, started, held, healthy, good, beat,
                   txn, accepted>>

RecoverRequestCommit(w) ==
    /\ request[w].at = "locked"
    /\ Commit(Api(w))
    /\ RequestEnds(w)
    /\ UNCHANGED <<at, started, healthy, good, beat, accepted>>

-----------------------------------------------------------------------------
Init ==
    /\ row = [status |-> "STOPPED", error |-> "none", paused |-> FALSE,
              kill |-> FALSE]
    /\ lockOwner = NoOne
    /\ rowLock = NoOne
    /\ at = [w \in Workers |-> "off"]
    /\ started = [w \in Workers |-> FALSE]
    /\ held = [w \in Workers |-> FALSE]
    /\ healthy = [w \in Workers |-> TRUE]
    /\ good = [w \in Workers |-> TRUE]
    /\ beat = [w \in Workers |-> "idle"]
    /\ request = [w \in Workers |-> Idle]
    /\ txn = [s \in Sessions |-> NoTxn]
    /\ accepted = [run |-> "none", kill |-> FALSE]

StartStep(w) ==
    \/ Start(w) \/ AcquireLock(w) \/ LockTimeout(w) \/ RecoverBegin(w)
    \/ RecoverLoad(w) \/ RecoverRefused(w) \/ RecoverConflict(w)
    \/ RecoverUpdate(w) \/ RecoverCommit(w) \/ StartupFails(w) \/ Synced(w)

LoopStep(w) ==
    \/ Promote(w) \/ Degrade(w) \/ EvaluateNothing(w) \/ EvaluateWrite(w)
    \/ EvaluateFails(w) \/ ConditionsChange(w)

BeatStep(w) ==
    BeatLoad(w) \/ BeatWrite(w) \/ BeatVerified(w) \/ BeatFails(w)

StopStep(w) ==
    \/ Stop(w) \/ StopInvalid(w) \/ StopWrite(w) \/ StopFails(w)
    \/ Release(w) \/ FinishLoad(w) \/ FinishSkipped(w) \/ FinishWrite(w)
    \/ ProcessExit(w) \/ Crash(w) \/ LockConnectionLost(w)

ApiStep(w) ==
    \/ RequestBegin(w) \/ RequestWrite(w) \/ RequestConflict(w)
    \/ RecoverRequest(w) \/ RecoverRequestLocks(w) \/ RecoverRequestLoad(w)
    \/ RecoverRequestEnds(w) \/ RecoverRequestUpdate(w)
    \/ RecoverRequestCommit(w)

Next ==
    \E w \in Workers :
        StartStep(w) \/ LoopStep(w) \/ BeatStep(w) \/ StopStep(w) \/ ApiStep(w)

Spec == Init /\ [][Next]_vars

-----------------------------------------------------------------------------
(* Properties *)

\* Type invariant.
TypeOK ==
    /\ row \in Row
    /\ lockOwner \in Workers \cup {NoOne}
    /\ rowLock \in Sessions \cup {NoOne}
    /\ at \in [Workers -> Places]
    /\ started \in [Workers -> BOOLEAN]
    /\ held \in [Workers -> BOOLEAN]
    /\ healthy \in [Workers -> BOOLEAN]
    /\ good \in [Workers -> BOOLEAN]
    /\ beat \in [Workers -> {"idle", "loaded", "verifying"}]
    /\ request \in [Workers -> Request]
    /\ txn \in [Sessions -> Txn]
    /\ accepted \in [run : {"none", "pause", "resume"}, kill : BOOLEAN]

\* A worker whose scheduler loop processes market events: its tasks run and
\* its own flag says that it holds the lock.
Trades(w) == TasksRun(w) /\ held[w]

\* Single worker: two processes never both process market events, however
\* their starts, stops, exceptions and crashes interleave (lock.py,
\* _acquire_advisory_lock, the guard of _scheduler_loop).
OneScheduler == \A v, w \in Workers : Trades(v) /\ Trades(w) => v = w

\* A worker that has recovered and not yet released the lock.
Established(w) ==
    held[w] /\ at[w] \in {"syncing", "running", "evaluated", "stopping",
                          "draining"}

\* While a worker is established, the status in the row changes only in steps
\* of its own process: a predecessor that still has STOPPED to write, after
\* it has released the lock, never writes it over its successor's status
\* (stop(), recover_on_startup).
SuccessorNotClobbered ==
    [][\A w \in Workers :
          Established(w) /\ UNCHANGED <<at[w], request[w]>>
             => row'.status = row.status]_vars

\* Nobody who has seen FAILED in the row replaces it: neither the readiness
\* loop, the stop or the next start of the worker nor a second recovery
\* request heals a fatal verdict.  It is lost only to a write that was decided
\* before the verdict was committed, which the version check does not stop
\* (_evaluate_runtime_readiness, recover_on_startup, update_runtime_state).
FailedOnlyOverwritten ==
    [][row.status = "FAILED" /\ row'.status # "FAILED"
          => \E s \in Sessions :
                /\ txn[s].stale /\ txn'[s] = NoTxn
                /\ "status" \in DOMAIN txn[s].set]_vars

\* A pause that was answered "accepted" is in the row until a resume is
\* accepted, and an accepted kill switch for ever, whatever heartbeats,
\* readiness transitions, recoveries and restarts write meanwhile
\* (control_pause, control_kill, update_runtime_state).
AcceptedControlsInForce ==
    /\ accepted.run = "pause" => row.paused
    /\ accepted.kill => row.kill

\* A resume that was answered "accepted" has cleared the pause
\* (control_resume).
AcceptedResumeInForce == accepted.run = "resume" => ~row.paused

\* A successor that has waited for the lock is not refused by recovery
\* because its predecessor's stop() is not yet over
\* (_acquire_advisory_lock: "Wait briefly for a predecessor").
RollingSuccessorRecovers ==
    \A v, w \in Workers :
        ~(at[w] = "refused" /\ at[v] \in {"released", "finishing"})

-----------------------------------------------------------------------------
(* The loops run for ever.  Strong fairness of the successful outcomes: the *)
(* failing ones need a commit of another session inside a window of         *)
(* milliseconds, and the loops retry.                                       *)
Fairness ==
    \A w \in Workers :
        /\ SF_vars(Promote(w))
        /\ SF_vars(EvaluateWrite(w))
        /\ WF_vars(BeatLoad(w))
        /\ SF_vars(BeatWrite(w))
        /\ SF_vars(BeatVerified(w))

LiveSpec == Spec /\ Fairness

\* A worker that keeps running, with every readiness condition holding and no
\* control request from some time on, is READY again and again, unless a
\* recovery request has FAILED: no heartbeat failure, version conflict or
\* earlier loss of a condition leaves it DEGRADED
\* (_evaluate_runtime_readiness).
ReadyAgain ==
    \A w \in Workers :
        <>[](/\ at[w] \in {"running", "evaluated"}
             /\ good[w]
             /\ request[w] = Idle)
            => []<>(row.status \in {"READY", "FAILED"})
=============================================================================
