-------------------------- MODULE MarketEventBridge --------------------------
(***************************************************************************)
(* market_events.py, scheduler.py and the scheduler_runs table: how candles *)
(* become lifecycle jobs that must each run exactly once although polls     *)
(* are deferred, fail, are rolled back, and the worker crashes.             *)
(*                                                                          *)
(* A poll detects candidates from the candle store and from the detector's  *)
(* memory, processes them one by one inside one transaction, commits, and   *)
(* only then acknowledges them in the detector (application.py,             *)
(* _process_committed_market_event_poll).  The detector's memory and the    *)
(* pending recoveries are lost in a crash; the rows are not.                *)
(*                                                                          *)
(* What a handler does to intents, positions and stops is module            *)
(* PaperLifecycle; here it is one mark, `handled'.  Snapshots and the       *)
(* weekly and monthly markers, which have no economic effect, are left out. *)
(***************************************************************************)
EXTENDS Integers, FiniteSets

CONSTANTS
    NumSymbols,     \* symbols in SYMBOL_PROCESSING_ORDER: 1 is BTC, 2 is ETH, ...
    LastDay,        \* bound: daily candles 0 .. LastDay
    MaxLow,         \* bound: distinct lows of one day, 0 the first one seen
    FillDelay,      \* 0: fill_delay_seconds = 0;  1: as long as the evaluation delay
    MaxFaults,      \* bound on deferrals, failures, rollbacks and crashes
    MaxGeneration   \* bound on recovery attempts per failed run

ASSUME BridgeConstants ==
    /\ NumSymbols \in Nat \ {0}
    /\ LastDay \in Nat
    /\ MaxLow \in Nat
    /\ FillDelay \in {0, 1}
    /\ MaxFaults \in Nat
    /\ MaxGeneration \in Nat

Symbols == 1 .. NumSymbols
Days == 0 .. LastDay
Lows == 0 .. MaxLow
None == -1

Event ==
    [kind : {"OPEN", "CLOSED"}, symbol : Symbols, day : Days, low : {0}]
        \cup [kind : {"LIVE"}, symbol : Symbols, day : Days, low : Lows]

\* Keys (job_name, scheduled_for) of scheduler_runs.  The market event jobs name
\* their symbol, the jobs of the scheduler do not.
OuterJob(e) == <<e.kind, e.symbol, e.day, e.low>>
SubJob(name, s, d) == <<name, s, d>>
InnerJob(name, d) == <<name, d>>
Attempt(e, g) == <<"RECOVERY", e.kind, e.symbol, e.day, g>>

Originals == {e \in Event : e.kind \in {"OPEN", "CLOSED"}}
Generations == 1 .. MaxGeneration
InnerNames ==
    {"STOP_TRIGGER", "NEXT_OPEN_FILL", "DAILY_SIGNAL_EVALUATION", "DAILY_STOP_UPDATE",
     "INTRADAY_STOP"}

Jobs ==
    {OuterJob(e) : e \in Event}
        \cup {SubJob(n, s, d) : n \in {"gap", "fill"}, s \in Symbols, d \in Days}
        \cup {InnerJob(n, d) : n \in InnerNames, d \in Days}
        \cup {Attempt(e, g) : e \in Originals, g \in Generations}

\* FAILED with a code of PERMANENT_CONFIGURATION_ERROR_CODES is PERMANENT here.
RunStatus == {"ABSENT", "RUNNING", "COMPLETED", "FAILED", "PERMANENT", "SKIPPED"}

\* What a handler has been run for: one mark per symbol, day, job and low.
Work == InnerNames \X Symbols \X Days \X Lows

Tables ==
    [runs     : [Jobs -> RunStatus],
     resolved : SUBSET Originals,                       \* resolved_by_run_id is set
     handled  : [Work -> 0 .. 2],                       \* handler runs, 2 is too many
     backoff  : SUBSET ({"OPEN", "LIVE", "CLOSED"} \X Days)]
                                    \* market_event_group_state rows not yet due

VARIABLES
    db,         \* committed rows
    tx,         \* rows of the poll's transaction (= db when no poll is open)
    todo,       \* candidates the poll has still to process
    toAck,      \* events_to_ack of the poll
    toFail,     \* events_terminal_failed of the poll
    pollState,  \* "idle", "open", "committed"
    det,        \* SymbolSeriesTracker of each symbol (in memory)
    pending,    \* _recovery_pending (in memory): generation per original, or None
    valid,      \* are the symbol's constraints valid (per process)
    gatesOpen,  \* lock held, market data ready, heartbeat and session healthy
    feed,       \* the latest daily candle of each symbol
    clock,      \* 2d: first seconds of day d;  2d+1: day d after the delays
    faults

bridgeVars == <<db, tx, todo, toAck, toFail, pollState>>
memory == <<det, pending, valid>>
vars == <<bridgeVars, memory, gatesOpen, feed, clock, faults>>

-----------------------------------------------------------------------------
(* The clock and the detector.                                             *)

FillDue(d) == clock >= 2 * d + FillDelay
CandleMayClose(d) == clock >= 2 * (d + 1)
EvaluationDue(d) == clock >= 2 * (d + 1) + 1

Group(e) == <<e.kind, e.day>>

EventOf(kind, s, d, low) == [kind |-> kind, symbol |-> s, day |-> d, low |-> low]

\* MarketEventDetector._detect_daily: the event of a kind that the latest candle of
\* a symbol calls for, if it does.
Detects(kind, s) ==
    LET f == feed[s]
        t == det[s]
    IN  /\ f.day # None
        /\ CASE kind = "OPEN"   -> ~f.closed /\ t.openAck # f.day /\ t.openFailed # f.day
             [] kind = "LIVE"   -> ~f.closed /\ t.openAck = f.day /\ t.low # f.low
             [] kind = "CLOSED" -> /\ f.closed /\ EvaluationDue(f.day)
                                   /\ t.closedAck # f.day /\ t.closedFailed # f.day

Candidates ==
    {e \in Event :
       /\ Detects(e.kind, e.symbol)
       /\ e.day = feed[e.symbol].day
       /\ e.kind = "LIVE" => e.low = feed[e.symbol].low}

-----------------------------------------------------------------------------
(* scheduler_runs.                                                         *)

SetRun(t, j, st) == [t EXCEPT !.runs[j] = st]

\* Mutant of ReleaseRun: a deferred run is not withdrawn.
ReleaseRunNot(t, j) == t

\* delete_scheduler_run_if_running
ReleaseRun(t, j) == IF t.runs[j] = "RUNNING" THEN SetRun(t, j, "ABSENT") ELSE t

EnsureRun(t, j) == IF t.runs[j] = "ABSENT" THEN SetRun(t, j, "RUNNING") ELSE t

Succeeded(t, j) == t.runs[j] = "COMPLETED"

\* Mutant of RunJob: COMPLETED whatever the handler does.
RunJobOptimistic(t, name, e, ok) ==
    LET j == InnerJob(name, e.day)
    IN  IF Succeeded(t, j) THEN t
        ELSE IF ok
             THEN [SetRun(t, j, "COMPLETED") EXCEPT
                      !.handled[<<name, e.symbol, e.day, e.low>>] = IF @ < 2 THEN @ + 1 ELSE @]
             ELSE SetRun(t, j, "COMPLETED")

\* run_job of the scheduler: a COMPLETED run is an idempotent success and the
\* handler is not called; otherwise the handler runs for the symbol's context.
RunJob(t, name, e, ok) ==
    LET j == InnerJob(name, e.day)
    IN  IF Succeeded(t, j) THEN t
        ELSE IF ok
             THEN [SetRun(t, j, "COMPLETED") EXCEPT
                      !.handled[<<name, e.symbol, e.day, e.low>>] = IF @ < 2 THEN @ + 1 ELSE @]
             ELSE SetRun(t, j, "FAILED")

\* _run_open_subjob around it
RunOpenSubjob(t, sub, name, e) ==
    LET j == SubJob(sub, e.symbol, e.day)
    IN  IF Succeeded(t, j) THEN t ELSE SetRun(RunJob(t, name, e, TRUE), j, "COMPLETED")

\* Mutant of GapPhase: the gap stops are skipped.
GapPhaseSkipped(t, e) == t

GapPhase(t, e) == RunOpenSubjob(t, "gap", "STOP_TRIGGER", e)
FillPhase(t, e) == RunOpenSubjob(t, "fill", "NEXT_OPEN_FILL", e)

\* Can the handler of a subjob run, and so fail, at all?
MayFail(t, sub, name, e) ==
    ~Succeeded(t, SubJob(sub, e.symbol, e.day)) /\ ~Succeeded(t, InnerJob(name, e.day))

OpenComplete(t, e) ==
    /\ Succeeded(t, SubJob("gap", e.symbol, e.day))
    /\ Succeeded(t, SubJob("fill", e.symbol, e.day))

\* get_active_recovery_attempt: RUNNING, or SKIPPED by a deferral
ActiveAttempts(t, e) ==
    {g \in Generations : t.runs[Attempt(e, g)] \in {"RUNNING", "SKIPPED"}}

\* _active_recovery_context: the memory first, then the rows
RecoveryOf(t, e) ==
    IF e \notin Originals THEN None
    ELSE IF pending[e] # None THEN pending[e]
    ELSE IF ActiveAttempts(t, e) = {} THEN None
    ELSE CHOOSE g \in ActiveAttempts(t, e) : \A h \in ActiveAttempts(t, e) : h <= g

Recovering(t, e) == RecoveryOf(t, e) # None

\* Mutant of ShortCircuits: a permanent failure is forgotten in a restart.
ShortCircuitsNever(t, e) == FALSE

\* _maybe_short_circuit_permanent_failure
ShortCircuits(t, e) ==
    t.runs[OuterJob(e)] = "PERMANENT" /\ e \notin t.resolved /\ ~Recovering(t, e)

-----------------------------------------------------------------------------
(* The loop of process_after_poll: an outcome and what it does to the poll. *)

\* The next event of a group is its first symbol.
Selected(e) ==
    /\ pollState = "open"
    /\ e \in todo
    /\ \A f \in todo : Group(f) = Group(e) => e.symbol <= f.symbol

Fault == faults < MaxFaults /\ faults' = faults + 1

ClearGroup(t, e) == [t EXCEPT !.backoff = @ \ {Group(e)}]

Acked(e, t) ==
    /\ tx' = ClearGroup(t, e)
    /\ todo' = todo \ {e}
    /\ toAck' = toAck \cup {e}
    /\ UNCHANGED <<db, toFail, pollState, det, valid, gatesOpen, feed, clock>>

\* A deferral blocks the rest of its group and puts the group into backoff.
Deferred(e, t) ==
    /\ tx' = [t EXCEPT !.backoff = @ \cup {Group(e)}]
    /\ todo' = {f \in todo : Group(f) # Group(e)}
    /\ UNCHANGED <<db, toAck, toFail, pollState, det, valid, gatesOpen, feed, clock>>

\* FAILED without a permanent code: not acknowledged, so the next poll retries it.
Failed(e, t) ==
    /\ tx' = ClearGroup(t, e)
    /\ todo' = todo \ {e}
    /\ UNCHANGED <<db, toAck, toFail, pollState, det, valid, gatesOpen, feed, clock>>

TerminalFailed(e, t) ==
    /\ tx' = ClearGroup(t, e)
    /\ todo' = todo \ {e}
    /\ toFail' = toFail \cup {e}
    /\ UNCHANGED <<db, toAck, pollState, det, valid, gatesOpen, feed, clock>>

-----------------------------------------------------------------------------
(* _process_daily_open and _process_daily_open_recovery.  Either the        *)
(* umbrella run me:do or the recovery attempt records the outcome.          *)

Umbrella(e) ==
    IF Recovering(tx, e) THEN Attempt(e, RecoveryOf(tx, e)) ELSE OuterJob(e)

\* _deferred_outcome: an umbrella run is withdrawn, an attempt becomes SKIPPED.
Withdrawn(t, e) ==
    IF Recovering(tx, e) THEN SetRun(t, Umbrella(e), "SKIPPED") ELSE ReleaseRun(t, Umbrella(e))

\* _persist_daily_open_failure_audit; an attempt alone records its failure.
OpenFailureAudit(t, e, sub) ==
    LET u == SetRun(t, Umbrella(e), "FAILED")
    IN  IF Recovering(tx, e) THEN u ELSE SetRun(u, SubJob(sub, e.symbol, e.day), "FAILED")

\* mark_run_resolved
Resolved(t, e) ==
    IF Recovering(tx, e) THEN [t EXCEPT !.resolved = @ \cup {e}] ELSE t

RecoveryDone(e) == pending' = [pending EXCEPT ![e] = None]

OpenSelected(e) == Selected(e) /\ e.kind = "OPEN" /\ ~ShortCircuits(tx, e)

\* All three subjobs are complete: only the umbrella run is.
OpenAlreadyComplete(e) ==
    /\ OpenSelected(e) /\ ~Recovering(tx, e) /\ OpenComplete(tx, e)
    /\ Acked(e, SetRun(tx, OuterJob(e), "COMPLETED"))
    /\ UNCHANGED <<pending, faults>>

OpenProcessed(e) ==
    OpenSelected(e) /\ (Recovering(tx, e) \/ ~OpenComplete(tx, e))

OpenNotReady(e) ==
    /\ OpenProcessed(e) /\ valid[e.symbol]
    /\ Fault
    /\ Deferred(e, Withdrawn(EnsureRun(tx, Umbrella(e)), e))
    /\ UNCHANGED pending

OpenPermanent(e) ==
    /\ OpenProcessed(e) /\ ~valid[e.symbol]
    /\ TerminalFailed(e, SetRun(tx, Umbrella(e),
                                IF Recovering(tx, e) THEN "FAILED" ELSE "PERMANENT"))
    /\ RecoveryDone(e)
    /\ UNCHANGED faults

\* The savepoint of the phase is rolled back, then the failure is recorded.
OpenGapFails(e) ==
    /\ OpenProcessed(e) /\ valid[e.symbol]
    /\ MayFail(tx, "gap", "STOP_TRIGGER", e)
    /\ Fault
    /\ Failed(e, OpenFailureAudit(tx, e, "gap"))
    /\ RecoveryDone(e)

\* The gap phase is kept, the fill waits for fill_delay_seconds.
OpenFillNotDue(e) ==
    /\ OpenProcessed(e) /\ valid[e.symbol]
    /\ ~FillDue(e.day)
    /\ Deferred(e, Withdrawn(EnsureRun(GapPhase(tx, e), Umbrella(e)), e))
    /\ UNCHANGED <<pending, faults>>

OpenFillFails(e) ==
    /\ OpenProcessed(e) /\ valid[e.symbol]
    /\ FillDue(e.day)
    /\ MayFail(tx, "fill", "NEXT_OPEN_FILL", e)
    /\ Fault
    /\ Failed(e, OpenFailureAudit(GapPhase(tx, e), e, "fill"))
    /\ RecoveryDone(e)

OpenCompletes(e) ==
    /\ OpenProcessed(e) /\ valid[e.symbol]
    /\ FillDue(e.day)
    /\ Acked(e, Resolved(SetRun(FillPhase(GapPhase(tx, e), e), Umbrella(e), "COMPLETED"), e))
    /\ RecoveryDone(e)
    /\ UNCHANGED faults

-----------------------------------------------------------------------------
(* _process_event for the other kinds: the outer run alone records.         *)

ShortCircuit(e) ==
    /\ Selected(e) /\ ShortCircuits(tx, e)
    /\ TerminalFailed(e, tx)
    /\ UNCHANGED <<pending, faults>>

OtherSelected(e, kind) == Selected(e) /\ e.kind = kind /\ ~ShortCircuits(tx, e)

AlreadyCompleted(e) ==
    /\ \E kind \in {"LIVE", "CLOSED"} : OtherSelected(e, kind)
    /\ Succeeded(tx, OuterJob(e))
    /\ Acked(e, tx)
    /\ UNCHANGED <<pending, faults>>

OtherDeferred(e) ==
    /\ \E kind \in {"LIVE", "CLOSED"} : OtherSelected(e, kind)
    /\ ~Succeeded(tx, OuterJob(e))
    /\ valid[e.symbol]
    /\ Fault
    /\ Deferred(e, ReleaseRun(EnsureRun(tx, OuterJob(e)), OuterJob(e)))
    /\ UNCHANGED pending

OtherPermanent(e) ==
    /\ \E kind \in {"LIVE", "CLOSED"} : OtherSelected(e, kind)
    /\ ~Succeeded(tx, OuterJob(e)) /\ ~valid[e.symbol]
    /\ TerminalFailed(e, SetRun(tx, OuterJob(e), "PERMANENT"))
    /\ UNCHANGED <<pending, faults>>

\* _handle_daily_live: INTRADAY_STOP_PROCESSING, scheduled for the candle's open
LiveUpdate(e, ok) ==
    LET t == RunJob(tx, "INTRADAY_STOP", e, ok)
    IN  /\ OtherSelected(e, "LIVE")
        /\ ~Succeeded(tx, OuterJob(e)) /\ valid[e.symbol]
        /\ IF Succeeded(t, InnerJob("INTRADAY_STOP", e.day))
           THEN Acked(e, SetRun(t, OuterJob(e), "COMPLETED")) /\ UNCHANGED faults
           ELSE Failed(e, SetRun(t, OuterJob(e), "FAILED")) /\ Fault
        /\ UNCHANGED pending

\* _handle_daily_closed: both jobs run, then any failure fails the event.
DailyClosed(e, evalOk, stopOk) ==
    LET t == RunJob(RunJob(tx, "DAILY_SIGNAL_EVALUATION", e, evalOk),
                    "DAILY_STOP_UPDATE", e, stopOk)
    IN  /\ OtherSelected(e, "CLOSED")
        /\ ~Succeeded(tx, OuterJob(e)) /\ valid[e.symbol]
        /\ IF /\ Succeeded(t, InnerJob("DAILY_SIGNAL_EVALUATION", e.day))
              /\ Succeeded(t, InnerJob("DAILY_STOP_UPDATE", e.day))
           THEN Acked(e, SetRun(t, OuterJob(e), "COMPLETED")) /\ UNCHANGED faults
           ELSE Failed(e, SetRun(t, OuterJob(e), "FAILED")) /\ Fault
        /\ UNCHANGED pending

-----------------------------------------------------------------------------
(* The poll's transaction, the detector's acknowledgement, crash, recovery. *)

\* A turn of _scheduler_loop polls only with every gate open (_scheduler_loop,
\* process_after_poll); nothing is awaited from there to the acknowledgement.
BeginPoll ==
    /\ pollState = "idle" /\ gatesOpen
    /\ pollState' = "open"
    /\ todo' = {e \in Candidates : Group(e) \notin db.backoff}
    /\ UNCHANGED <<db, tx, toAck, toFail, memory, gatesOpen, feed, clock, faults>>

CommitPoll ==
    /\ pollState = "open" /\ todo = {}
    /\ db' = tx
    /\ pollState' = "committed"
    /\ UNCHANGED <<tx, todo, toAck, toFail, memory, gatesOpen, feed, clock, faults>>

\* Mutant of AckedTracker: an open candle's acknowledgement is forgotten.
AckedTrackerWithoutOpen(s, acked, failed) == det[s]

\* acknowledge_completed of the events in `acked', then acknowledge_terminal_failed of
\* those in `failed'.  One symbol has at most one event of each kind in a poll.
AckedTracker(s, acked, failed) ==
    LET DayOf(E, kind, old) ==
            IF \E e \in E : e.symbol = s /\ e.kind = kind THEN feed[s].day ELSE old
    IN  [openAck      |-> DayOf(acked, "OPEN", det[s].openAck),
         openFailed   |-> DayOf(failed, "OPEN",
                             IF \E e \in acked : e.symbol = s /\ e.kind = "OPEN"
                             THEN None ELSE det[s].openFailed),
         low          |-> IF \E e \in acked : e.symbol = s /\ e.kind \in {"OPEN", "LIVE"}
                          THEN feed[s].low ELSE det[s].low,
         closedAck    |-> DayOf(acked, "CLOSED", det[s].closedAck),
         closedFailed |-> DayOf(failed, "CLOSED",
                             IF \E e \in acked : e.symbol = s /\ e.kind = "CLOSED"
                             THEN None ELSE det[s].closedFailed)]

\* acknowledge_committed, then acknowledge_terminal_failed_committed, which raises at
\* the first live update and leaves the events after it unacknowledged.
AcknowledgePoll ==
    /\ pollState = "committed"
    /\ \E failed \in SUBSET {e \in toFail : e.kind # "LIVE"} :
          /\ (\A e \in toFail : e.kind # "LIVE") => failed = toFail
          /\ det' = [s \in Symbols |-> AckedTracker(s, toAck, failed)]
    /\ pollState' = "idle"
    /\ toAck' = {} /\ toFail' = {}
    /\ UNCHANGED <<db, tx, todo, pending, valid, gatesOpen, feed, clock, faults>>

\* An exception of the poll or of the COMMIT: rolled back, nothing acknowledged.
AbortPoll ==
    /\ pollState = "open"
    /\ Fault
    /\ tx' = db
    /\ pollState' = "idle"
    /\ todo' = {} /\ toAck' = {} /\ toFail' = {}
    /\ UNCHANGED <<db, memory, gatesOpen, feed, clock>>

NoTracker ==
    [openAck |-> None, openFailed |-> None, low |-> None,
     closedAck |-> None, closedFailed |-> None]

\* The worker dies and its successor starts, perhaps with other constraints:
\* startup recovery marks RUNNING runs FAILED (fail_orphan_scheduler_runs).
CrashAndRestart ==
    /\ Fault
    /\ db' = [db EXCEPT !.runs = [j \in Jobs |-> IF @[j] = "RUNNING" THEN "FAILED" ELSE @[j]]]
    /\ tx' = db'
    /\ pollState' = "idle"
    /\ todo' = {} /\ toAck' = {} /\ toFail' = {}
    /\ det' = [s \in Symbols |-> NoTracker]
    /\ pending' = [e \in Originals |-> None]
    /\ valid' \in [Symbols -> BOOLEAN]
    /\ gatesOpen' = FALSE
    /\ UNCHANGED <<feed, clock>>

\* recover_permanent_configuration, called by an operator between two polls
RecoverPermanent(e) ==
    LET g == Cardinality({h \in Generations : db.runs[Attempt(e, h)] # "ABSENT"}) + 1
    IN  /\ pollState = "idle"
        /\ db.runs[OuterJob(e)] = "PERMANENT" /\ e \notin db.resolved
        /\ valid[e.symbol]
        /\ g <= MaxGeneration
        /\ db' = SetRun(db, Attempt(e, g), "RUNNING")
        /\ tx' = db'
        /\ pending' = [pending EXCEPT ![e] = g]
        /\ det' = [det EXCEPT ![e.symbol] =
                     IF e.kind = "OPEN" THEN [@ EXCEPT !.openFailed = None]
                                        ELSE [@ EXCEPT !.closedFailed = None]]
        /\ UNCHANGED <<todo, toAck, toFail, pollState, valid, gatesOpen, feed, clock, faults>>

\* next_attempt_at has passed
BackoffElapses(g) ==
    /\ pollState = "idle"
    /\ g \in db.backoff
    /\ db' = [db EXCEPT !.backoff = @ \ {g}]
    /\ tx' = db'
    /\ UNCHANGED <<todo, toAck, toFail, pollState, memory, gatesOpen, feed, clock, faults>>

\* The connection, the feed or the heartbeat fails or comes back.
GatesChange ==
    /\ pollState = "idle"
    /\ gatesOpen' = ~gatesOpen
    /\ UNCHANGED <<bridgeVars, memory, feed, clock, faults>>

-----------------------------------------------------------------------------
(* Market data: candles change only while no poll runs (process_live is     *)
(* awaited between polls).                                                  *)

FeedChanges == pollState = "idle" /\ UNCHANGED <<bridgeVars, memory, gatesOpen, faults>>

CandleArrives(s) ==
    /\ FeedChanges
    /\ feed[s].day < LastDay /\ clock >= 2 * (feed[s].day + 1)
    /\ feed' = [feed EXCEPT ![s] = [day |-> @.day + 1, closed |-> FALSE, low |-> 0]]
    /\ UNCHANGED clock

LowFalls(s) ==
    /\ FeedChanges
    /\ feed[s].day # None /\ ~feed[s].closed /\ feed[s].low < MaxLow
    /\ feed' = [feed EXCEPT ![s].low = @ + 1]
    /\ UNCHANGED clock

CandleCloses(s) ==
    /\ FeedChanges
    /\ feed[s].day # None /\ ~feed[s].closed /\ CandleMayClose(feed[s].day)
    /\ feed' = [feed EXCEPT ![s].closed = TRUE]
    /\ UNCHANGED clock

Tick ==
    /\ FeedChanges
    /\ clock < 2 * (LastDay + 1) + 1
    /\ clock' = clock + 1
    /\ UNCHANGED feed

-----------------------------------------------------------------------------
Init ==
    /\ db = [runs     |-> [j \in Jobs |-> "ABSENT"],
             resolved |-> {},
             handled  |-> [w \in Work |-> 0],
             backoff  |-> {}]
    /\ tx = db
    /\ todo = {} /\ toAck = {} /\ toFail = {}
    /\ pollState = "idle"
    /\ det = [s \in Symbols |-> NoTracker]
    /\ pending = [e \in Originals |-> None]
    /\ valid \in [Symbols -> BOOLEAN]
    /\ gatesOpen = FALSE
    /\ feed = [s \in Symbols |-> [day |-> None, closed |-> FALSE, low |-> 0]]
    /\ clock = 0
    /\ faults = 0

ProcessEvent(e) ==
    \/ ShortCircuit(e)
    \/ OpenAlreadyComplete(e)
    \/ OpenNotReady(e)
    \/ OpenPermanent(e)
    \/ OpenGapFails(e)
    \/ OpenFillNotDue(e)
    \/ OpenFillFails(e)
    \/ OpenCompletes(e)
    \/ AlreadyCompleted(e)
    \/ OtherDeferred(e)
    \/ OtherPermanent(e)
    \/ \E ok \in BOOLEAN : LiveUpdate(e, ok)
    \/ \E evalOk, stopOk \in BOOLEAN : DailyClosed(e, evalOk, stopOk)

Next ==
    \/ BeginPoll
    \/ \E e \in todo : ProcessEvent(e)
    \/ CommitPoll
    \/ AcknowledgePoll
    \/ AbortPoll
    \/ CrashAndRestart
    \/ \E e \in Originals : RecoverPermanent(e)
    \/ \E g \in db.backoff : BackoffElapses(g)
    \/ GatesChange
    \/ \E s \in Symbols : CandleArrives(s) \/ LowFalls(s) \/ CandleCloses(s)
    \/ Tick

Spec == Init /\ [][Next]_vars

\* The scheduler loop polls for ever (_scheduler_loop catches every exception) and time
\* passes: strong fairness, because the two actions of the wall clock are written
\* between polls while the clock does not wait for polls.  Nothing is assumed of the
\* gates, of the feed, of faults or of operators.
LiveSpec ==
    /\ Spec
    /\ WF_vars(BeginPoll)
    /\ WF_vars(\E e \in todo : ProcessEvent(e))
    /\ WF_vars(CommitPoll)
    /\ WF_vars(AcknowledgePoll)
    /\ SF_vars(\E g \in db.backoff : BackoffElapses(g))
    /\ SF_vars(Tick)

-----------------------------------------------------------------------------
(* Properties.                                                             *)

\* Every row, event and tracker has its type.
TypeOK ==
    /\ db \in Tables /\ tx \in Tables
    /\ todo \subseteq Event /\ toAck \subseteq Event /\ toFail \subseteq Event
    /\ pollState \in {"idle", "open", "committed"}
    /\ det \in [Symbols -> [openAck : Days \cup {None}, openFailed : Days \cup {None},
                            low : Lows \cup {None}, closedAck : Days \cup {None},
                            closedFailed : Days \cup {None}]]
    /\ pending \in [Originals -> Generations \cup {None}]
    /\ valid \in [Symbols -> BOOLEAN]
    /\ gatesOpen \in BOOLEAN
    /\ feed \in [Symbols -> [day : Days \cup {None}, closed : BOOLEAN, low : Lows]]
    /\ clock \in 0 .. 2 * (LastDay + 1) + 1
    /\ faults \in 0 .. MaxFaults

\* Replays after crashes, rollbacks, failures and recoveries never run a handler
\* for the same work twice.
HandledAtMostOnce == \A w \in Work : db.handled[w] <= 1 /\ tx.handled[w] <= 1

\* A fill has been processed only after the gap stops of the same open.
FillAfterGap ==
    \A t \in {db, tx}, s \in Symbols, d \in Days :
       t.handled[<<"NEXT_OPEN_FILL", s, d, 0>>] > 0 =>
          t.handled[<<"STOP_TRIGGER", s, d, 0>>] > 0

\* What the detector believes to be settled is settled in the committed rows: the
\* acknowledgement comes after the COMMIT, and a crash only forgets.
AckedIsDurable ==
    \A s \in Symbols, d \in Days :
       LET o == EventOf("OPEN", s, d, 0)
           c == EventOf("CLOSED", s, d, 0)
       IN  /\ det[s].openAck = d =>
                 Succeeded(db, OuterJob(o)) \/ o \in db.resolved
           /\ det[s].closedAck = d => Succeeded(db, OuterJob(c))
           /\ det[s].openFailed = d => db.runs[OuterJob(o)] = "PERMANENT"
           /\ det[s].closedFailed = d => db.runs[OuterJob(c)] = "PERMANENT"

\* A committed run is never left RUNNING by a poll, deferred or not: only a
\* recovery attempt, which its operator created, may be.
NoOrphanRuns ==
    \A j \in Jobs :
       db.runs[j] = "RUNNING" => \E e \in Originals, g \in Generations : j = Attempt(e, g)

\* A permanently failed open, before any recovery, lets no fill happen.
PermanentBlocksFill ==
    [][\A s \in Symbols, d \in Days :
         LET o == EventOf("OPEN", s, d, 0)
             w == <<"NEXT_OPEN_FILL", s, d, 0>>
         IN  /\ db.runs[OuterJob(o)] = "PERMANENT"
             /\ \A g \in Generations : db.runs[Attempt(o, g)] = "ABSENT"
             => db'.handled[w] = db.handled[w]]_vars

\* A completed job of a symbol means that the symbol's work was done.
CompletedMeansHandled ==
    \A s \in Symbols, d \in Days :
       /\ Succeeded(db, SubJob("gap", s, d)) => db.handled[<<"STOP_TRIGGER", s, d, 0>>] = 1
       /\ Succeeded(db, SubJob("fill", s, d)) => db.handled[<<"NEXT_OPEN_FILL", s, d, 0>>] = 1
       /\ Succeeded(db, OuterJob(EventOf("CLOSED", s, d, 0))) =>
             /\ db.handled[<<"DAILY_SIGNAL_EVALUATION", s, d, 0>>] = 1
             /\ db.handled[<<"DAILY_STOP_UPDATE", s, d, 0>>] = 1

\* "DAILY_LIVE_UPDATE | Open candle low changes | Intraday stop only": a completed
\* live update means that its low was checked against the stops.
LiveLowsHandled ==
    \A s \in Symbols, d \in Days, low \in Lows :
       Succeeded(db, OuterJob(EventOf("LIVE", s, d, low))) =>
          db.handled[<<"INTRADAY_STOP", s, d, low>>] = 1

\* "Provider close inside the delay window does not consume the daily evaluation;
\* processing runs once after due": a candle seen closed stays a candidate until
\* it has been processed.
DueCloseIsCandidate ==
    \A s \in Symbols, d \in Days :
       /\ d <= feed[s].day /\ EvaluationDue(d) /\ pollState = "idle"
       /\ valid[s]
       => \/ EventOf("CLOSED", s, d, 0) \in Candidates
          \/ db.runs[OuterJob(EventOf("CLOSED", s, d, 0))] \in {"COMPLETED", "PERMANENT"}
          \/ d = feed[s].day /\ ~feed[s].closed

\* Once the gates of the scheduler loop stay open, an open candle's event is settled
\* whatever was deferred, failed, rolled back or lost in a crash before, or the candle
\* closes or is replaced first.  While a gate is closed no poll promises anything.
OpenEventuallySettled ==
    <>[]gatesOpen => \A s \in Symbols, d \in Days :
       (feed[s].day = d /\ ~feed[s].closed)
          ~> (det[s].openAck = d \/ det[s].openFailed = d \/ feed[s].day # d \/ feed[s].closed)

\* Each handler runs once and in order: no replay repeats it, and no fill precedes the
\* gap stops of its open (_process_daily_open and its recovery, over every rollback).
OnceAndInOrder == HandledAtMostOnce /\ FillAfterGap

\* The detector's memory and the committed runs agree after every poll, whether it was
\* acknowledged, rolled back, deferred or cut off: nothing is acknowledged that is not
\* durable and no run is left RUNNING (_release_uncommitted_scheduler_run).
PollsAreAtomic == TypeOK /\ AckedIsDurable /\ NoOrphanRuns
=============================================================================
