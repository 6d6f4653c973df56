------------------------------ MODULE Backtest ------------------------------
(***************************************************************************)
(* The backtester's day loop (backtester/engine.py) over symbols in their   *)
(* configured order: fills at the open, stops on the whole candle, funding, *)
(* strategy evaluation and queueing, trailing stops, equity snapshot; after *)
(* the last day the metrics.  A day has a candle of at least one symbol;    *)
(* the others may be missing.                                               *)
(*                                                                         *)
(* The strategy's verdict of a day is an input (StrategyEngine models how   *)
(* it is made); the risk engine is RiskEngine's.  Opens and ticks are       *)
(* multiples of SlipDen, so that slippage is exact, and Unit is a multiple  *)
(* of the leverage, so that margins are.                                    *)
(***************************************************************************)
EXTENDS RiskEngine

CONSTANTS
    SymbolOrder,    \* BacktestConfig.symbols
    Days,           \* length of the timeline (bound)
    Candles,        \* records open, low, close
    Signals,        \* evaluations: long, type and the set of the ATR (empty for None)
    Constraints,    \* SymbolConstraints, the same for every symbol
    Params,         \* RiskParameters
    InitialCash,    \* in 1/Unit
    FeeRate,        \* entry and exit fee rate, over Unit
    FundingRates,   \* the sequences of a day's rates, over Unit; <<>> is a day without
    Slip, SlipDen,  \* slippage_bps over 10000
    InitialMult, TrailMult,     \* ATR multiples of the stops
    InitialProcessed            \* initial_processed_intent_ids

Symbols == Range(SymbolOrder)

ASSUME BacktestConstants ==
    /\ Days \in Nat \ {0}
    /\ {Params.leverage, Constraints.tick, SlipDen} \subseteq Nat \ {0}
    /\ Unit % Params.leverage = 0
    /\ Constraints.tick % SlipDen = 0
    /\ \A c \in Candles : c.open % SlipDen = 0 /\ c.low <= c.open /\ c.low <= c.close

\* The amounts of the configuration, of the candles and of the signals are numbers.
ASSUME BacktestNumbers ==
    /\ SymbolOrder \in Seq(Symbols)
    /\ {InitialCash, FeeRate, Slip, InitialMult, TrailMult, Params.maxOpen} \subseteq Int
    /\ \A c \in Candles : {c.open, c.low, c.close} \subseteq Int
    /\ \A g \in Signals : g.long \in BOOLEAN /\ g.atr \subseteq Int
    /\ FundingRates \subseteq Seq(Int)

VARIABLES
    day,        \* index into the timeline, 0 before the first day
    phase,      \* what of the day is done
    candles,    \* day_candles: a function on the symbols traded this day
    closes,     \* the last close of each symbol before this day
    rt,         \* the _Runtime record
    evals,      \* the last evaluation of each symbol
    curve       \* equity_curve

btVars == <<day, phase, candles, closes, rt, evals, curve>>

Larger(a, b) == IF a >= b THEN a ELSE b
Without(f, s) == [x \in DOMAIN f \ {s} |-> f[x]]
With(f, s, v) == [x \in DOMAIN f \cup {s} |-> IF x = s THEN v ELSE f[x]]
NoRecords == [x \in {} |-> 0]

\* A dict of the code is a function on its keys.
InitialRuntime ==
    [cash |-> InitialCash, positions |-> NoRecords, pending |-> {},
     processed |-> InitialProcessed, orders |-> NoRecords, active |-> NoRecords,
     closed |-> <<>>, fees |-> 0, funding |-> 0, slippage |-> 0, realized |-> 0]

-----------------------------------------------------------------------------
(* portfolio.py                                                            *)
ResolveMarksAtOpen(ps) ==
    [s \in DOMAIN ps |-> IF s \in DOMAIN candles THEN candles[s].open
                         ELSE IF s \in DOMAIN closes THEN closes[s] ELSE ps[s].entry]

MarkPricesFromCandles(ps) ==
    [s \in DOMAIN ps |-> IF s \in DOMAIN candles THEN candles[s].close ELSE ps[s].entry]

UnrealizedPnl(ps, marks) ==
    SumFunction([s \in DOMAIN ps |-> ps[s].qty * (marks[s] - ps[s].entry) * Unit])

UsedMargin(ps) == SumFunction([s \in DOMAIN ps |-> ps[s].margin])
PositionMargin(notional) == notional \div Params.leverage

\* Mutant: the margin of the open positions is available again.
BuildAccountStateUnreserved(cash, ps, marks) ==
    LET equity == cash + UnrealizedPnl(ps, marks) IN
    [equity |-> equity, margin |-> Larger(0, equity), dailyLoss |-> 0, weeklyLoss |-> 0,
     peak |-> equity]

BuildAccountState(cash, ps, marks) ==
    LET equity == cash + UnrealizedPnl(ps, marks) IN
    [equity |-> equity, margin |-> Larger(0, equity - UsedMargin(ps)),
     dailyLoss |-> 0, weeklyLoss |-> 0, peak |-> equity]

\* In any order: the risk engine only adds them up and looks for a symbol.
ToPositionStates(ps, marks) ==
    LET held == SetToSeq({s \in DOMAIN ps : ps[s].qty > 0 /\ marks[s] > 0}) IN
    [i \in DOMAIN held |->
        [symbol |-> held[i], entry |-> ps[held[i]].entry, size |-> ps[held[i]].qty,
         initial |-> ps[held[i]].initial, trail |-> ps[held[i]].trail,
         mark |-> marks[held[i]]]]

ToOpenOrders(pending) == {i.symbol : i \in pending}

-----------------------------------------------------------------------------
(* execution.py and paper_lifecycle.py                                     *)
ApplyEntrySlippage(ref) == (ref * (SlipDen + Slip)) \div SlipDen
ApplyExitSlippage(ref) == (ref * (SlipDen - Slip)) \div SlipDen
ComputeFee(notional) == notional * FeeRate
SlippageCost(ref, fill, qty) == Larger(fill - ref, ref - fill) * qty * Unit

ComputeEntryFillPrices(open, atr) ==
    LET fill == ApplyEntrySlippage(open) IN
    [fill |-> fill, stop |-> RoundToTick(fill - InitialMult * atr, Constraints.tick)]

EvaluateEntryRiskDecision(r, s, intent, prices) ==
    LET marks == ResolveMarksAtOpen(r.positions) IN
    Evaluate([symbol |-> s, side |-> "LONG", entry |-> prices.fill, stop |-> prices.stop,
              id |-> intent.id, kind |-> "LONG_ENTRY", approved |-> TRUE, data |-> "OK",
              bot |-> "ACTIVE", atr |-> {intent.atr}],
             BuildAccountState(r.cash, r.positions, marks), Constraints,
             ToPositionStates(r.positions, marks), ToOpenOrders(r.pending),
             r.processed, Params)

ComputeEntryAccounting(prices, open, qty, atr) ==
    [fee |-> ComputeFee(prices.fill * qty),
     slip |-> SlippageCost(open, prices.fill, qty),
     margin |-> PositionMargin(prices.fill * qty * Unit),
     trail |-> RoundToTick(Larger(prices.fill - TrailMult * atr, prices.stop),
                           Constraints.tick)]

\* Gap first, at the open; then the low, at the stop.  The set of the exit reference.
ComputeGapStopAtOpen(c, pos) == IF c.open < pos.effective THEN {c.open} ELSE {}
ComputeIntradayStop(c, pos) == IF c.low <= pos.effective THEN {pos.effective} ELSE {}

ComputeStopTrigger(c, pos) ==
    IF ComputeGapStopAtOpen(c, pos) # {} THEN ComputeGapStopAtOpen(c, pos)
    ELSE ComputeIntradayStop(c, pos)

ComputeExitAccounting(ref, pos) ==
    LET fill == ApplyExitSlippage(ref)
        fee == ComputeFee(fill * pos.qty)
        gross == (fill - pos.entry) * pos.qty * Unit IN
    [fee |-> fee, slip |-> SlippageCost(ref, fill, pos.qty), gross |-> gross,
     delta |-> gross - fee]

-----------------------------------------------------------------------------
(* engine.py: each handler maps a _Runtime to a _Runtime                   *)

MarkTerminalIntent(r, id, status) ==
    [r EXCEPT !.processed = @ \cup {id}, !.orders = With(@, id, status)]

\* Mutant: the net result of a trade forgets the fee of its entry.
CloseTradeExitFeeOnly(r, s, exit) ==
    LET trade == r.active[s]
        net == exit.gross - exit.fee - trade.funding IN
    [r EXCEPT !.active = Without(@, s), !.positions = Without(@, s),
              !.closed = Append(@, [symbol |-> s, type |-> trade.type, net |-> net,
                                    entryDay |-> trade.entryDay]),
              !.realized = @ + net]

CloseTrade(r, s, exit) ==
    LET trade == r.active[s]
        net == exit.gross - (trade.fees + exit.fee) - trade.funding IN
    [r EXCEPT !.active = Without(@, s), !.positions = Without(@, s),
              !.closed = Append(@, [symbol |-> s, type |-> trade.type, net |-> net,
                                    entryDay |-> trade.entryDay]),
              !.realized = @ + net]

CheckStopExit(r, s, atOpen) ==
    LET refs == IF s \notin DOMAIN r.positions THEN {}
                ELSE IF atOpen THEN ComputeGapStopAtOpen(candles[s], r.positions[s])
                ELSE ComputeStopTrigger(candles[s], r.positions[s])
        exit == ComputeExitAccounting(CHOOSE ref \in refs : TRUE, r.positions[s]) IN
    IF refs = {} THEN r
    ELSE CloseTrade([r EXCEPT !.cash = @ + exit.delta, !.fees = @ + exit.fee,
                              !.slippage = @ + exit.slip], s, exit)

\* The approved entry: position, trade, terminal intent, and the gap check at the open.
OpenTrade(r, s, intent, prices, qty) ==
    LET acc == ComputeEntryAccounting(prices, candles[s].open, qty, intent.atr)
        position == [qty |-> qty, entry |-> prices.fill, initial |-> prices.stop,
                     trail |-> acc.trail, effective |-> Larger(prices.stop, acc.trail),
                     highest |-> prices.fill, atr |-> intent.atr, margin |-> acc.margin,
                     id |-> intent.id]
        trade == [type |-> intent.id.type, fees |-> acc.fee, funding |-> 0,
                  entryDay |-> day] IN
    IF acc.fee > r.cash THEN MarkTerminalIntent(r, intent.id, "REJECTED")
    ELSE CheckStopExit(
           MarkTerminalIntent(
             [r EXCEPT !.cash = @ - acc.fee, !.fees = @ + acc.fee,
                       !.slippage = @ + acc.slip,
                       !.positions = With(@, s, position), !.active = With(@, s, trade)],
             intent.id, "FILLED"), s, TRUE)

FillIntent(r, s, intent) ==
    LET prices == ComputeEntryFillPrices(candles[s].open, intent.atr)
        decision == EvaluateEntryRiskDecision(r, s, intent, prices) IN
    IF intent.id \in r.processed THEN r
    ELSE IF ~decision.approved THEN MarkTerminalIntent(r, intent.id, "REJECTED")
    ELSE OpenTrade(r, s, intent, prices, decision.quantity)

FillPendingAtOpen(r, s) ==
    LET intents == {i \in r.pending : i.symbol = s} IN
    FoldSet(LAMBDA intent, acc : FillIntent(acc, s, intent),
            [r EXCEPT !.pending = @ \ intents], intents)

\* The payments of the day: the assumed rate, or that of every event inside the candle.
ApplyFunding(r, s, rates) ==
    LET notional == r.positions[s].qty * r.positions[s].entry
        payment == SumFunction([i \in DOMAIN rates |-> notional * rates[i]]) IN
    IF s \notin DOMAIN r.positions THEN r
    ELSE [r EXCEPT !.cash = @ - payment, !.funding = @ + payment,
                   !.active[s].funding = @ + payment]

BuildClientIntentId(s, type) == [symbol |-> s, day |-> day, type |-> type]

StrategyAndQueue(r, s, evaluation) ==
    LET id == BuildClientIntentId(s, evaluation.type) IN
    IF \/ ~evaluation.long \/ evaluation.atr = {}
       \/ id \in r.processed \/ s \in DOMAIN r.positions
       \/ \E i \in r.pending : i.symbol = s THEN r
    ELSE [r EXCEPT !.pending = @ \cup {[id |-> id, symbol |-> s,
                                        atr |-> CHOOSE v \in evaluation.atr : TRUE]}]

\* The ATR of the last evaluation, or the one of the entry.
UpdateTrailing(r, s) ==
    LET pos == r.positions[s]
        atr == CHOOSE v \in IF evals[s].atr = {} THEN {pos.atr} ELSE evals[s].atr : TRUE
        highest == Larger(pos.highest, candles[s].close)
        trail == RoundToTick(Larger(Larger(pos.trail, highest - TrailMult * atr),
                                    pos.initial), Constraints.tick) IN
    IF s \notin DOMAIN r.positions THEN r
    ELSE [r EXCEPT !.positions[s].highest = highest, !.positions[s].trail = trail,
                   !.positions[s].effective = Larger(pos.initial, trail)]

-----------------------------------------------------------------------------
\* What each loop over the symbols does for one of them.
Handle(loop, input, r, s) ==
    CASE loop = "fill" -> FillPendingAtOpen(r, s)
      [] loop = "stops" -> CheckStopExit(r, s, FALSE)
      [] loop = "funding" -> ApplyFunding(r, s, input[s])
      [] loop = "queue" -> StrategyAndQueue(r, s, input[s])
      [] loop = "trail" -> UpdateTrailing(r, s)

\* The symbols in their configured order; those without a candle today are skipped.
ForEachSymbol(loop, input) ==
    FoldLeft(LAMBDA r, s : IF s \in DOMAIN candles THEN Handle(loop, input, r, s) ELSE r,
             rt, SymbolOrder)

HeldToday == DOMAIN rt.positions \cap DOMAIN candles

BacktestInit ==
    /\ day = 0 /\ phase = "snapshot"
    /\ candles = NoRecords /\ closes = NoRecords
    /\ rt = InitialRuntime /\ evals = NoRecords /\ curve = <<>>

\* The next open time of the timeline; its candles, and the closes before it.
NextDay ==
    /\ phase = "snapshot" /\ day < Days
    /\ day' = day + 1
    /\ phase' = "opened"
    /\ \E traded \in SUBSET Symbols \ {{}} : candles' \in [traded -> Candles]
    /\ closes' = [s \in DOMAIN closes \cup DOMAIN candles |->
                    IF s \in DOMAIN candles THEN candles[s].close ELSE closes[s]]
    /\ UNCHANGED <<rt, evals, curve>>

FillAtOpen ==
    /\ phase = "opened"
    /\ rt' = ForEachSymbol("fill", <<>>)
    /\ phase' = "filled"
    /\ UNCHANGED <<day, candles, closes, evals, curve>>

CheckStops ==
    /\ phase = "filled"
    /\ rt' = ForEachSymbol("stops", <<>>)
    /\ phase' = "stopped"
    /\ UNCHANGED <<day, candles, closes, evals, curve>>

\* A day may have several funding events for a symbol.
Fund ==
    /\ phase = "stopped"
    /\ \E payments \in [HeldToday -> FundingRates] : rt' = ForEachSymbol("funding", payments)
    /\ phase' = "funded"
    /\ UNCHANGED <<day, candles, closes, evals, curve>>

EvaluateAndQueue ==
    /\ phase = "funded"
    /\ \E verdicts \in [DOMAIN candles -> Signals] :
          /\ rt' = ForEachSymbol("queue", verdicts)
          /\ evals' = [s \in DOMAIN evals \cup DOMAIN verdicts |->
                         IF s \in DOMAIN verdicts THEN verdicts[s] ELSE evals[s]]
    /\ phase' = "queued"
    /\ UNCHANGED <<day, candles, closes, curve>>

TrailAndSnapshot ==
    /\ phase = "queued"
    /\ rt' = ForEachSymbol("trail", <<>>)
    /\ curve' = Append(curve,
                  [equity |-> rt.cash + UnrealizedPnl(rt.positions,
                                                      MarkPricesFromCandles(rt.positions)),
                   open |-> Cardinality(DOMAIN rt.positions)])
    /\ phase' = "snapshot"
    /\ UNCHANGED <<day, candles, closes, evals>>

BacktestNext ==
    NextDay \/ FillAtOpen \/ CheckStops \/ Fund \/ EvaluateAndQueue \/ TrailAndSnapshot

BacktestSpec == BacktestInit /\ [][BacktestNext]_btVars

-----------------------------------------------------------------------------
(* metrics.py, on the run so far                                           *)
NetOf(trades) == SumOver(LAMBDA t : t.net, trades)
NetWhere(Test(_), trades) == SumOver(LAMBDA t : IF Test(t) THEN t.net ELSE 0, trades)

\* Peak per snapshot, from which the drawdown is measured; the peak starts at zero.
Peaks == [i \in DOMAIN curve |-> Max({0} \cup {curve[j].equity : j \in 1 .. i})]

\* The longest runs of winners and of losers.
Streaks(trades) ==
    LET step(acc, t) ==
          LET w == IF t.net > 0 THEN acc.w + 1 ELSE 0
              l == IF t.net > 0 THEN 0 ELSE acc.l + 1 IN
          [w |-> w, l |-> l, maxW |-> Larger(acc.maxW, w), maxL |-> Larger(acc.maxL, l)]
    IN  FoldLeft(step, [w |-> 0, l |-> 0, maxW |-> 0, maxL |-> 0], trades)

ComputeMetrics(trades) ==
    [trade_count |-> Len(trades),
     gross_profit |-> NetWhere(LAMBDA t : t.net > 0, trades),
     gross_loss |-> -NetWhere(LAMBDA t : t.net <= 0, trades),
     max_win_streak |-> Streaks(trades).maxW, max_loss_streak |-> Streaks(trades).maxL,
     per_symbol |-> [s \in {t.symbol : t \in Range(trades)} |->
                       NetWhere(LAMBDA t : t.symbol = s, trades)],
     per_entry |-> [e \in {t.type : t \in Range(trades)} |->
                       NetWhere(LAMBDA t : t.type = e, trades)]]

-----------------------------------------------------------------------------
\* Type correctness of the _Runtime record and of the day's data.
BacktestTypeOK ==
    /\ day \in 0..Days
    /\ phase \in {"opened", "filled", "stopped", "funded", "queued", "snapshot"}
    /\ DOMAIN candles \subseteq Symbols /\ DOMAIN closes \subseteq Symbols
    /\ DOMAIN rt.positions \subseteq Symbols /\ DOMAIN rt.active = DOMAIN rt.positions
    /\ \A s \in DOMAIN rt.positions : rt.positions[s].qty >= Constraints.minQty
    /\ DOMAIN rt.orders \subseteq rt.processed
    /\ Len(curve) = IF phase = "snapshot" THEN day ELSE day - 1

\* The wallet is the initial cash, the net result of every closed trade, less what the
\* open trades have paid so far; the totals and the metrics of the result add up to the
\* same (engine.py: _fill_pending_at_open, _check_stop_exit, _apply_funding; metrics.py).
BacktestReconciles ==
    LET metrics == ComputeMetrics(rt.closed)
        paid == [s \in DOMAIN rt.active |-> rt.active[s].fees + rt.active[s].funding] IN
    /\ rt.cash = InitialCash + NetOf(rt.closed) - SumFunction(paid)
    /\ rt.realized = metrics.gross_profit - metrics.gross_loss
    /\ rt.realized = SumFunction(metrics.per_symbol)
    /\ rt.realized = SumFunction(metrics.per_entry)

\* Once the stops of a day are checked no position is open whose stop the day's low
\* reached, the positions entered at that day's open included (_check_stop_exit).
StopsHonoured ==
    phase \in {"stopped", "funded", "queued"} =>
        \A s \in HeldToday : candles[s].low > rt.positions[s].effective

\* A stop never pays better than the market was: what the stops of a day bring in is at
\* most what selling the same positions at that day's open would (compute_stop_trigger
\* checks the gap before the low).
ExitNoBetterThanOpen ==
    phase = "filled" =>
        rt'.cash - rt.cash <=
          SumFunction([s \in HeldToday |->
              IF s \in DOMAIN rt'.positions THEN 0
              ELSE (ApplyExitSlippage(candles[s].open) - rt.positions[s].entry)
                       * rt.positions[s].qty * Unit])

\* A signal leads to at most one position: a symbol has at most one pending intent and
\* none beside a position, a pending intent is not terminal, and an entry is filled on a
\* later day than its signal (_strategy_and_queue, _fill_pending_at_open).
OneWayIn ==
    /\ \A i \in rt.pending :
          /\ i.id \notin rt.processed /\ i.symbol \notin DOMAIN rt.positions
          /\ \A j \in rt.pending : j.symbol = i.symbol => j = i
    /\ \A s \in DOMAIN rt.positions :
          /\ rt.orders[rt.positions[s].id] = "FILLED"
          /\ rt.positions[s].id.day < rt.active[s].entryDay

\* Entries at an open leave the whole portfolio within the frozen limits, measured with
\* the prices of that open and not with what the day does later: number of positions,
\* margin, leverage, risk to the stops (evaluate_entry_risk_decision, build_account_state,
\* resolve_marks_at_open).
EntriesWithinLimits ==
    (phase = "opened" /\ DOMAIN rt'.positions \ DOMAIN rt.positions # {}) =>
        LET held == rt.positions
            after == rt'.positions
            mark == [s \in DOMAIN after |->
                        IF s \notin DOMAIN held THEN after[s].entry
                        ELSE IF s \in DOMAIN candles THEN candles[s].open ELSE closes[s]]
            equity == rt.cash + UnrealizedPnl(held, mark)
            notional == [s \in DOMAIN after |-> after[s].qty * mark[s] * Unit]
            risk == [s \in DOMAIN after |->
                        after[s].qty * Larger(0, after[s].entry - after[s].effective) * Unit] IN
        /\ Cardinality(DOMAIN after) <= Params.maxOpen
        /\ UsedMargin(after) <= equity
        /\ SumFunction(notional) <= Params.leverage * equity
        /\ SumFunction(risk) * Den <= Params.portfolio * equity

\* The drawdown counts from the initial capital although its peak starts at zero
\* (compute_drawdown_curve): nothing can be lost before the first snapshot.
PeakCountsTheStart == \A i \in DOMAIN curve : Peaks[i] >= InitialCash

\* The books of the day loop are right at every phase: the cash reconciles, the stops
\* of the day are honoured, a signal leads to one position, the drawdown has its peak.
BooksAreRight ==
    /\ BacktestTypeOK
    /\ BacktestReconciles /\ StopsHonoured /\ OneWayIn /\ PeakCountsTheStart

\* No fill is better than the market or beyond the limits, entries and exits alike.
FillsAreFair == [][ExitNoBetterThanOpen /\ EntriesWithinLimits]_btVars
=============================================================================
