--------------------------- MODULE PaperLifecycle ---------------------------
(***************************************************************************)
(* The economic core of services/paper_trading: strategy evaluations, trade *)
(* intents, paper orders, fills, positions, stops and the wallet, as rows   *)
(* of PostgreSQL written by ONE worker.                                     *)
(*                                                                          *)
(* The worker runs every operation of one poll inside one outer transaction *)
(* (application.py, _process_committed_market_event_poll).  `db' holds the  *)
(* committed rows, `tx' the rows as the worker's open transaction sees      *)
(* them; a nested savepoint (transaction_scope) is one action here, because *)
(* it is either released whole or rolled back whole.  The control API       *)
(* (pause, resume, kill) writes the runtime_state row from its own          *)
(* transactions, at any moment at which the worker does not hold that row   *)
(* FOR UPDATE.                                                              *)
(*                                                                          *)
(* The scheduler that decides WHEN an operation runs is not here (module    *)
(* MarketEventBridge): every operation may run in every poll, any number of *)
(* times, which is what replay after a crash amounts to.                    *)
(***************************************************************************)
EXTENDS Integers, FiniteSets

CONSTANTS
    Symbols,        \* the traded symbols (BTC, ETH, SOL)
    SignalTypes,    \* SignalType of a LONG entry (BREAKOUT, PULLBACK)
    LastDay,        \* bound: daily candles are numbered 0 .. LastDay
    Levels,         \* price levels (naturals): stops, opens and lows
    EntryFee,       \* the fee of an entry fill
    ExitDeltas,     \* possible net_wallet_delta of a stop exit
    InitialCash,    \* seeded paper_wallet.cash
    MaxOpenPositions

ASSUME LifecycleConstants ==
    /\ IsFiniteSet(Symbols) /\ IsFiniteSet(SignalTypes)
    /\ LastDay \in Nat
    /\ Levels \subseteq Nat
    /\ EntryFee \in Nat
    /\ ExitDeltas \subseteq Int
    /\ InitialCash \in Int
    /\ MaxOpenPositions \in Nat

Days == 0 .. LastDay

\* trade_intents rows: one per (evaluation, symbol, side, signal_type), where
\* an evaluation is one per (strategy version, symbol, daily candle).
Intents == Symbols \X Days \X SignalTypes

SymbolOf(i) == i[1]

\* scheduled_fill_time: the daily open after the signal's candle.
ScheduledFillDay(i) == i[2] + 1

IntentStatus ==
    {"ABSENT", "SCHEDULED", "SUBMITTED", "FILLED", "REJECTED", "CANCELLED"}

TerminalIntentStatuses == {"FILLED", "REJECTED", "CANCELLED"}
NonterminalIntentStatuses == {"SCHEDULED", "SUBMITTED"}

\* A position has its entry intent's identity.
Position == [status : {"ABSENT", "OPEN", "CLOSED"}, initial : Nat, stop : Nat]
NoPosition == [status |-> "ABSENT", initial |-> 0, stop |-> 0]

Tables ==
    [evaluations : SUBSET (Symbols \X Days),
     intent      : [Intents -> IntentStatus],
     orders      : SUBSET Intents,              \* paper_orders, by intent
     entryFills  : SUBSET Intents,              \* paper_fills, fill_kind ENTRY
     position    : [Intents -> Position],
     exitFills   : [Intents -> Nat],            \* paper_fills, fill_kind EXIT
     pnl         : [Intents -> Int],            \* their net_wallet_delta
     stopEvents  : SUBSET (Intents \X Days),    \* position_stop_history
     cash        : Int]

\* EntryGateContext as build_entry_gate_context leaves it for one evaluation.
EntryGateContext ==
    [symbol : Symbols, entryReady : BOOLEAN, marketDataReady : BOOLEAN,
     openCount : Nat, hasPosition : BOOLEAN, hasIntent : BOOLEAN]

Runtime == [ready : BOOLEAN, paused : BOOLEAN, kill : BOOLEAN]

VARIABLES
    db,         \* committed rows
    tx,         \* rows seen by the worker's transaction (= db when none is open)
    inTx,       \* is the outer transaction of a poll open
    rowLocked,  \* does that transaction hold runtime_state FOR UPDATE
    runtime,    \* committed runtime_state: ready, paused, kill_switch
    mdReady,    \* the in-memory market_data_ready() callable
    gates,      \* the EntryGateContext built for the evaluation under way, if any
    day,        \* the latest daily candle
    closed      \* is that candle closed

vars == <<db, tx, inTx, rowLocked, runtime, mdReady, gates, day, closed>>

-----------------------------------------------------------------------------
(* Queries of repository.py.                                               *)

Open(t, i) == t.position[i].status = "OPEN"

OpenPositions(t) == {i \in Intents : Open(t, i)}

NonterminalIntents(t, s) ==
    {i \in Intents : SymbolOf(i) = s /\ t.intent[i] \in NonterminalIntentStatuses}

HasOpenPosition(t, s) == \E i \in OpenPositions(t) : SymbolOf(i) = s

\* Mutant of DueIntents: the status filter is forgotten.
DueIntentsAnyStatus(t, s, d) ==
    {i \in Intents : SymbolOf(i) = s /\ t.intent[i] # "ABSENT" /\ ScheduledFillDay(i) = d}

\* get_scheduled_intents_for_symbol(symbol, candle_open_time)
DueIntents(t, s, d) ==
    {i \in NonterminalIntents(t, s) : ScheduledFillDay(i) = d}

(* evaluate_final_entry_authorization: `ready' stands for a READY status, no *)
(* last_error and a fresh heartbeat.                                         *)
EntryAuthorized ==
    /\ runtime.ready
    /\ mdReady
    /\ ~runtime.paused
    /\ ~runtime.kill

-----------------------------------------------------------------------------
(* What each operation does to the rows.                                   *)

\* insert_or_get_trade_intent: ON CONFLICT DO NOTHING
WithIntent(t, i) ==
    IF t.intent[i] = "ABSENT" THEN [t EXCEPT !.intent[i] = "SCHEDULED"] ELSE t

\* Mutant of EntryAllowed: the gate of the pending intent is forgotten.
EntryAllowedBesideIntent(g, authorized) ==
    /\ g.entryReady /\ authorized /\ g.marketDataReady
    /\ ~g.hasPosition /\ g.openCount < MaxOpenPositions

\* check_entry_gates, on the registered context and the final authorization
EntryAllowed(g, authorized) ==
    /\ g.entryReady /\ authorized
    /\ g.marketDataReady
    /\ ~g.hasPosition
    /\ ~g.hasIntent
    /\ g.openCount < MaxOpenPositions

Evaluated(t, s, d) == [t EXCEPT !.evaluations = @ \cup {<<s, d>>}]

WithStatus(t, i, st) == [t EXCEPT !.intent[i] = st]

\* Mutants of Filled: no order row, no fee.
FilledWithoutOrder(t, i, stop) ==
    [t EXCEPT !.intent[i] = "FILLED", !.entryFills = @ \cup {i}, !.cash = @ - EntryFee,
              !.position[i] = [status |-> "OPEN", initial |-> stop, stop |-> stop]]

FilledWithoutFee(t, i, stop) ==
    [t EXCEPT !.intent[i] = "FILLED", !.orders = @ \cup {i}, !.entryFills = @ \cup {i},
              !.position[i] = [status |-> "OPEN", initial |-> stop, stop |-> stop]]

\* _persist_successful_fill: order, fill, wallet, position and intent in one
\* savepoint.
Filled(t, i, stop) ==
    [t EXCEPT !.intent[i] = "FILLED",
              !.orders = @ \cup {i},
              !.entryFills = @ \cup {i},
              !.cash = @ - EntryFee,
              !.position[i] = [status |-> "OPEN", initial |-> stop, stop |-> stop]]

\* Mutant of Closed: the position is left in its intermediate status.
LeftClosing(t, i, delta) ==
    [t EXCEPT !.exitFills[i] = @ + 1, !.pnl[i] = @ + delta, !.cash = @ + delta,
              !.position[i].status = "CLOSING"]

\* _close_if_stopped: exit fill, wallet and position in one savepoint.  The
\* intermediate CLOSING status never leaves the savepoint.
Closed(t, i, delta) ==
    [t EXCEPT !.exitFills[i] = @ + 1,
              !.pnl[i] = @ + delta,
              !.cash = @ + delta,
              !.position[i].status = "CLOSED"]

Trailed(t, i, d, level) ==
    [t EXCEPT !.stopEvents = @ \cup {<<i, d>>},
              !.position[i].stop = level]

-----------------------------------------------------------------------------
(* The worker's operations.  Each needs the outer transaction; between the   *)
(* building of an evaluation context and its use the poll does nothing else. *)

Quiet == gates = {}

Init ==
    /\ db = [evaluations |-> {},
             intent      |-> [i \in Intents |-> "ABSENT"],
             orders      |-> {},
             entryFills  |-> {},
             position    |-> [i \in Intents |-> NoPosition],
             exitFills   |-> [i \in Intents |-> 0],
             pnl         |-> [i \in Intents |-> 0],
             stopEvents  |-> {},
             cash        |-> InitialCash]
    /\ tx = db
    /\ inTx = FALSE
    /\ rowLocked = FALSE
    /\ runtime = [ready |-> FALSE, paused |-> FALSE, kill |-> FALSE]
    /\ mdReady = FALSE
    /\ gates = {}
    /\ day = 0
    /\ closed = FALSE

BeginPoll ==
    /\ ~inTx
    /\ mdReady
    /\ inTx' = TRUE
    /\ UNCHANGED <<db, tx, rowLocked, runtime, mdReady, gates, day, closed>>

\* build_evaluation_context: the gates are read WITHOUT locking runtime_state.
BuildEvaluationContext(s) ==
    /\ inTx /\ Quiet /\ closed
    /\ gates' = {[symbol          |-> s,
                  entryReady      |-> runtime.ready /\ ~runtime.kill /\ ~runtime.paused,
                  marketDataReady |-> mdReady,
                  openCount       |-> Cardinality(OpenPositions(tx)),
                  hasPosition     |-> HasOpenPosition(tx, s),
                  hasIntent       |-> NonterminalIntents(tx, s) # {}]}
    /\ UNCHANGED <<db, tx, inTx, rowLocked, runtime, mdReady, day, closed>>

\* A context that no evaluation uses (its job was already completed).
DiscardEvaluationContext ==
    /\ ~Quiet
    /\ gates' = {}
    /\ UNCHANGED <<db, tx, inTx, rowLocked, runtime, mdReady, day, closed>>

\* evaluate_symbol_for_daily_close without a LONG entry signal
EvaluateNoSignal ==
    \E g \in gates :
       /\ inTx
       /\ tx' = Evaluated(tx, g.symbol, day)
       /\ gates' = {}
       /\ UNCHANGED <<db, inTx, rowLocked, runtime, mdReady, day, closed>>

\* Mutant of EvaluateLongEntry: the authorization reads without FOR UPDATE.
EvaluateLongEntryUnlocked(type) ==
    \E g \in gates :
       /\ inTx
       /\ tx' = LET t == Evaluated(tx, g.symbol, day)
                IN  IF EntryAllowed(g, EntryAuthorized)
                    THEN WithIntent(t, <<g.symbol, day, type>>)
                    ELSE t
       /\ gates' = {}
       /\ UNCHANGED <<db, inTx, rowLocked, runtime, mdReady, day, closed>>

\* ... with one: create_intent_from_evaluation locks runtime_state, authorizes
\* again and inserts the intent SCHEDULED for the next daily open.
EvaluateLongEntry(type) ==
    \E g \in gates :
       /\ inTx
       /\ tx' = LET t == Evaluated(tx, g.symbol, day)
                IN  IF EntryAllowed(g, EntryAuthorized)
                    THEN WithIntent(t, <<g.symbol, day, type>>)
                    ELSE t
       /\ rowLocked' = TRUE
       /\ gates' = {}
       /\ UNCHANGED <<db, inTx, runtime, mdReady, day, closed>>

\* process_scheduled_intents_for_open, one due intent: authorization fails.
\* SUBMITTED -> CANCELLED is not a legal transition: it raises, and the
\* savepoint leaves the row as it was.
CancelDueIntent(i) ==
    /\ inTx /\ Quiet /\ ~closed
    /\ i \in DueIntents(tx, SymbolOf(i), day)
    /\ ~EntryAuthorized
    /\ tx' = IF tx.intent[i] = "SCHEDULED" THEN WithStatus(tx, i, "CANCELLED") ELSE tx
    /\ rowLocked' = TRUE
    /\ UNCHANGED <<db, inTx, runtime, mdReady, gates, day, closed>>

\* Mutant of ExecuteDueIntent: a refused intent is left submitted.
ExecuteDueIntentUnrejected(i, approved, stop) ==
    /\ inTx /\ Quiet /\ ~closed
    /\ i \in DueIntents(tx, SymbolOf(i), day)
    /\ EntryAuthorized
    /\ tx' = IF approved /\ EntryFee <= tx.cash /\ ~HasOpenPosition(tx, SymbolOf(i))
             THEN Filled(tx, i, stop)
             ELSE WithStatus(tx, i, "SUBMITTED")
    /\ rowLocked' = TRUE
    /\ UNCHANGED <<db, inTx, runtime, mdReady, gates, day, closed>>

\* ... authorized: SUBMITTED, then execute_scheduled_paper_fill.  `approved' is
\* the risk engine's decision together with the checks of the open price.
ExecuteDueIntent(i, approved, stop) ==
    /\ inTx /\ Quiet /\ ~closed
    /\ i \in DueIntents(tx, SymbolOf(i), day)
    /\ EntryAuthorized
    /\ tx' = IF i \in tx.entryFills \/ HasOpenPosition(tx, SymbolOf(i))
             THEN WithStatus(tx, i, "SUBMITTED")
             ELSE IF approved /\ EntryFee <= tx.cash
                  THEN Filled(tx, i, stop)
                  ELSE WithStatus(tx, i, "REJECTED")
    /\ rowLocked' = TRUE
    /\ UNCHANGED <<db, inTx, runtime, mdReady, gates, day, closed>>

\* process_stop_triggers_for_daily_candle(at_open=True): the open is below the stop
GapStop(i, open, delta) ==
    /\ inTx /\ Quiet /\ ~closed
    /\ Open(tx, i)
    /\ open < tx.position[i].stop
    /\ tx' = Closed(tx, i, delta)
    /\ UNCHANGED <<db, inTx, rowLocked, runtime, mdReady, gates, day, closed>>

\* process_intraday_stop_triggers: the low seen so far touches the stop
IntradayStop(i, low, delta) ==
    /\ inTx /\ Quiet /\ ~closed
    /\ Open(tx, i)
    /\ low <= tx.position[i].stop
    /\ tx' = Closed(tx, i, delta)
    /\ UNCHANGED <<db, inTx, rowLocked, runtime, mdReady, gates, day, closed>>

\* update_daily_trailing_stops: only a higher stop is persisted, once per
\* (position, evaluation).
UpdateTrailingStop(i, level) ==
    /\ inTx /\ Quiet /\ closed
    /\ Open(tx, i)
    /\ level > tx.position[i].stop
    /\ <<i, day>> \notin tx.stopEvents
    /\ tx' = Trailed(tx, i, day, level)
    /\ UNCHANGED <<db, inTx, rowLocked, runtime, mdReady, gates, day, closed>>

CommitPoll ==
    /\ inTx /\ Quiet
    /\ db' = tx
    /\ inTx' = FALSE
    /\ rowLocked' = FALSE
    /\ UNCHANGED <<tx, runtime, mdReady, gates, day, closed>>

\* An exception of the poll, a failed COMMIT or the death of the process: the
\* server discards the transaction and its row lock.
AbortPoll ==
    /\ inTx
    /\ tx' = db
    /\ inTx' = FALSE
    /\ rowLocked' = FALSE
    /\ gates' = {}
    /\ UNCHANGED <<db, runtime, mdReady, day, closed>>

-----------------------------------------------------------------------------
(* The worker's environment.                                               *)

\* POST /control/pause and /control/kill; an UPDATE waits for the row lock.
Pause ==
    /\ ~rowLocked /\ ~runtime.paused
    /\ runtime' = [runtime EXCEPT !.paused = TRUE]
    /\ UNCHANGED <<db, tx, inTx, rowLocked, mdReady, gates, day, closed>>

Kill ==
    /\ ~rowLocked /\ ~runtime.kill
    /\ runtime' = [runtime EXCEPT !.kill = TRUE]
    /\ UNCHANGED <<db, tx, inTx, rowLocked, mdReady, gates, day, closed>>

\* The manual recovery of the runbook: an operator clears both flags.
OperatorClearsControls ==
    /\ ~rowLocked /\ (runtime.paused \/ runtime.kill)
    /\ runtime' = [runtime EXCEPT !.paused = FALSE, !.kill = FALSE]
    /\ UNCHANGED <<db, tx, inTx, rowLocked, mdReady, gates, day, closed>>

\* Promotion to and demotion from READY (_evaluate_runtime_readiness, recovery)
RuntimeReadiness ==
    /\ ~rowLocked
    /\ runtime' = [runtime EXCEPT !.ready = ~@]
    /\ UNCHANGED <<db, tx, inTx, rowLocked, mdReady, gates, day, closed>>

MarketDataReadiness ==
    /\ mdReady' = ~mdReady
    /\ UNCHANGED <<db, tx, inTx, rowLocked, runtime, gates, day, closed>>

\* Candles arrive between polls (process_live is awaited outside the poll).
CloseDay ==
    /\ ~inTx /\ ~closed
    /\ closed' = TRUE
    /\ UNCHANGED <<db, tx, inTx, rowLocked, runtime, mdReady, gates, day>>

OpenDay ==
    /\ ~inTx /\ closed /\ day < LastDay
    /\ day' = day + 1
    /\ closed' = FALSE
    /\ UNCHANGED <<db, tx, inTx, rowLocked, runtime, mdReady, gates>>

-----------------------------------------------------------------------------
Next ==
    \/ BeginPoll
    \/ \E s \in Symbols : BuildEvaluationContext(s)
    \/ DiscardEvaluationContext
    \/ EvaluateNoSignal
    \/ \E type \in SignalTypes : EvaluateLongEntry(type)
    \/ \E i \in Intents : CancelDueIntent(i)
    \/ \E i \in Intents, approved \in BOOLEAN, stop \in Levels :
          ExecuteDueIntent(i, approved, stop)
    \/ \E i \in Intents, open \in Levels, delta \in ExitDeltas : GapStop(i, open, delta)
    \/ \E i \in Intents, low \in Levels, delta \in ExitDeltas : IntradayStop(i, low, delta)
    \/ \E i \in Intents, level \in Levels : UpdateTrailingStop(i, level)
    \/ CommitPoll
    \/ AbortPoll
    \/ Pause
    \/ Kill
    \/ OperatorClearsControls
    \/ RuntimeReadiness
    \/ MarketDataReadiness
    \/ CloseDay
    \/ OpenDay

Spec == Init /\ [][Next]_vars

-----------------------------------------------------------------------------
(* Properties.                                                             *)

\* Every row and every flag has its type.
TypeOK ==
    /\ db \in Tables
    /\ tx \in Tables
    /\ inTx \in BOOLEAN
    /\ rowLocked \in BOOLEAN
    /\ runtime \in Runtime
    /\ mdReady \in BOOLEAN
    /\ gates \subseteq EntryGateContext
    /\ day \in Days
    /\ closed \in BOOLEAN

\* An intent or a position through which a symbol carries risk.
Exposed(t, i) ==
    t.intent[i] \in NonterminalIntentStatuses \/ Open(t, i)

\* A symbol never carries two exposures at once: neither two open positions
\* (the partial unique index uq_paper_positions_open_symbol would refuse the
\* second and fail the poll) nor a pending intent beside another one
\* (get_nonterminal_intent_for_symbol would raise) nor beside a position.
OneExposurePerSymbol(t) ==
    \A i, j \in Intents :
       Exposed(t, i) /\ Exposed(t, j) /\ SymbolOf(i) = SymbolOf(j) => i = j

\* Order, entry fill, position and FILLED intent exist together or not at all,
\* and a position is closed exactly when it has its one exit fill.
FillChain(t) ==
    \A i \in Intents :
       /\ (t.intent[i] = "FILLED") <=> (i \in t.entryFills)
       /\ (i \in t.orders) <=> (i \in t.entryFills)
       /\ (t.position[i].status # "ABSENT") <=> (i \in t.entryFills)
       /\ t.exitFills[i] = (IF t.position[i].status = "CLOSED" THEN 1 ELSE 0)

\* The branch "position already open for symbol" of the fill is unreachable:
\* no intent is ever left in SUBMITTED_TO_PAPER_ENGINE by a savepoint.
NoStrandedSubmission(t) == \A i \in Intents : t.intent[i] # "SUBMITTED"

\* current_stop never falls below initial_stop (ck_paper_positions_stop_monotonic).
StopAboveInitial(t) == \A i \in Intents : t.position[i].stop >= t.position[i].initial

\* The inductive strengthening of the four, for the committed rows and for the
\* rows of the open transaction.
Sound(t) ==
    /\ OneExposurePerSymbol(t)
    /\ FillChain(t)
    /\ NoStrandedSubmission(t)
    /\ StopAboveInitial(t)

ExposureInv == OneExposurePerSymbol(db) /\ OneExposurePerSymbol(tx)
ChainInv == FillChain(db) /\ FillChain(tx)
SubmissionInv == NoStrandedSubmission(db) /\ NoStrandedSubmission(tx)
StopInv == StopAboveInitial(db) /\ StopAboveInitial(tx)

\* Each row by itself is one that the worker can go on with: it has its type, no
\* intent is stranded in SUBMITTED_TO_PAPER_ENGINE (execute_scheduled_paper_fill) and
\* no stop is below the initial one, after every savepoint and every COMMIT.
RowsLegal == TypeOK /\ SubmissionInv /\ StopInv

\* An intent or an entry fill that t2 has and t1 has not.
NewRisk(t1, t2) ==
    \/ \E i \in Intents : t1.intent[i] = "ABSENT" /\ t2.intent[i] # "ABSENT"
    \/ \E i \in t2.entryFills : i \notin t1.entryFills

ControlsAllowEntry == runtime.ready /\ ~runtime.paused /\ ~runtime.kill

\* No intent and no entry fill becomes durable while the worker is paused, killed
\* or not READY, although the controls are read some steps before the COMMIT and
\* another process may write them: evaluate_final_entry_authorization reads
\* them FOR UPDATE and the lock lasts until the transaction ends.
NewRiskOnlyWhenAuthorized ==
    [][NewRisk(db, db') => ControlsAllowEntry]_vars

\* What is settled is never undone by a commit.  A terminal intent keeps its status:
\* neither a replayed evaluation, nor a resume, nor a retried open revives it.  The
\* stop of a position is not lowered, a closed position is not opened again and none
\* is forgotten (transitions.py; stops.py: "never lowers stop").
SettledNeverUndone ==
    [][\A i \in Intents :
         /\ db.intent[i] \in TerminalIntentStatuses => db'.intent[i] = db.intent[i]
         /\ db.position[i].status # "ABSENT" =>
               db'.position[i].stop >= db.position[i].stop
         /\ db.position[i].status = "CLOSED" => db'.position[i] = db.position[i]
         /\ db.position[i].status = "OPEN" => db'.position[i].status # "ABSENT"]_vars
=============================================================================
