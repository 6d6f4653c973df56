---------------------------- MODULE TrailingStops ----------------------------
(***************************************************************************)
(* One long position carried by the paper worker and by the backtester over *)
(* the same daily candles.  Both call the same update_trailing_stop; they   *)
(* differ in what they keep of its result.                                  *)
(*                                                                          *)
(* Prices are naturals, in units finer than the tick, so that round_to_tick *)
(* matters.  The paper worker may be down at a daily close and then never   *)
(* updates the stop for that day (MayMiss); the backtester misses nothing.  *)
(***************************************************************************)
EXTENDS Integers

CONSTANTS
    Prices,         \* naturals: opens, lows, closes and fills
    Atrs,           \* ATR14 values
    InitialAtrMult,    \* stop_initial_atr_mult
    TrailAtrMult,      \* trail_atr_mult
    Tick,           \* price_tick_size
    MayMiss         \* may the worker be down at a daily close

ASSUME TrailingConstants ==
    /\ Prices \subseteq Nat
    /\ Atrs \subseteq Nat
    /\ InitialAtrMult \in Nat
    /\ TrailAtrMult \in Nat
    /\ Tick \in Nat \ {0}
    /\ MayMiss \in BOOLEAN

VARIABLES
    initial,    \* initial_stop, the same for both
    paper,      \* paper_positions row: status, current_stop, highest_close_since_entry
    bt,         \* SimulatedPosition: open or gone, trail, effective, highest
    candle,     \* the day's candle
    moment       \* "open", "low", "close": how far into the day

vars == <<initial, paper, bt, candle, moment>>

Higher(a, b) == IF a >= b THEN a ELSE b

\* ROUND_DOWN of a price that is not negative
RoundDownToTick(p) == (p \div Tick) * Tick

\* update_trailing_stop, Strategy Spec 7.3: the new highest close and trail stop.
\* The max with stop_initial comes before the rounding, so that a negative
\* candidate is never rounded.
HighestClose(highest, close) == Higher(highest, close)

\* Mutant of TrailStop: the previous trail is forgotten.
TrailStopForgetful(trail, highest, atr) ==
    RoundDownToTick(Higher(highest - TrailAtrMult * atr, initial))

TrailStop(trail, highest, atr) ==
    RoundDownToTick(Higher(Higher(trail, highest - TrailAtrMult * atr), initial))

EffectiveStop(trail) == Higher(initial, trail)

StopCandles == {c \in [open : Prices, low : Prices, close : Prices] :
              c.low <= c.open /\ c.low <= c.close}

\* compute_gap_stop_at_open, compute_intraday_stop
GapStop(c, stop) == c.open < stop
LowStop(c, stop) == c.low <= stop

-----------------------------------------------------------------------------
\* compute_initial_stop and initialize_trailing_stop at the entry fill.  The risk
\* engine approves no stop at or below zero.
Init ==
    /\ candle \in StopCandles
    /\ \E fill \in Prices, atr \in Atrs :
          /\ fill >= candle.open            \* apply_entry_slippage
          /\ fill > InitialAtrMult * atr
          /\ initial = RoundDownToTick(fill - InitialAtrMult * atr)
          /\ LET trail == RoundDownToTick(Higher(fill - TrailAtrMult * atr, initial))
             IN  /\ paper = [open |-> TRUE, stop |-> EffectiveStop(trail), highest |-> fill]
                 /\ bt = [open |-> TRUE, trail |-> trail,
                          effective |-> EffectiveStop(trail), highest |-> fill]
    /\ moment = "low"

\* A new daily candle; the paper worker checks the gap at its open.
DayOpens ==
    /\ moment = "open"
    /\ candle' \in StopCandles
    /\ paper' = [paper EXCEPT !.open = @ /\ ~GapStop(candle', paper.stop)]
    /\ moment' = "low"
    /\ UNCHANGED <<initial, bt>>

\* Mutant of DayTrades: the backtester is stopped only below the stop.
DayTradesStrictly ==
    /\ moment = "low"
    /\ paper' = [paper EXCEPT !.open = @ /\ ~LowStop(candle, paper.stop)]
    /\ bt' = [bt EXCEPT !.open = @ /\ ~GapStop(candle, bt.effective)
                                    /\ candle.low >= bt.effective]
    /\ moment' = "close"
    /\ UNCHANGED <<initial, candle>>

\* The day's low: the paper worker sees it live (process_intraday_stop_triggers),
\* the backtester checks open and low together (compute_stop_trigger).
DayTrades ==
    /\ moment = "low"
    /\ paper' = [paper EXCEPT !.open = @ /\ ~LowStop(candle, paper.stop)]
    /\ bt' = [bt EXCEPT !.open = @ /\ ~GapStop(candle, bt.effective)
                                    /\ ~LowStop(candle, bt.effective)]
    /\ moment' = "close"
    /\ UNCHANGED <<initial, candle>>

\* update_daily_trailing_stops: only a higher stop is written, and the highest
\* close is written only together with it.
PaperUpdate(close, atr) ==
    LET highest == HighestClose(paper.highest, close)
        stop    == EffectiveStop(TrailStop(paper.stop, highest, atr))
    IN  IF paper.open /\ stop > paper.stop
        THEN [paper EXCEPT !.stop = stop, !.highest = highest]
        ELSE paper

\* _update_trailing: the whole new state is kept.
BacktesterUpdate(close, atr) ==
    LET highest == HighestClose(bt.highest, close)
        trail   == TrailStop(bt.trail, highest, atr)
    IN  IF bt.open
        THEN [bt EXCEPT !.trail = trail, !.effective = EffectiveStop(trail),
                        !.highest = highest]
        ELSE bt

DayCloses(atr, missed) ==
    /\ moment = "close"
    /\ paper' = IF missed THEN paper ELSE PaperUpdate(candle.close, atr)
    /\ bt' = BacktesterUpdate(candle.close, atr)
    /\ moment' = "open"
    /\ UNCHANGED <<initial, candle>>

Next ==
    \/ DayOpens
    \/ DayTrades
    \/ \E atr \in Atrs : DayCloses(atr, FALSE)
    \/ MayMiss /\ \E atr \in Atrs : DayCloses(atr, TRUE)

Spec == Init /\ [][Next]_vars

-----------------------------------------------------------------------------
\* Every price is a natural number.
TypeOK ==
    /\ initial \in Nat
    /\ paper \in [open : BOOLEAN, stop : Nat, highest : Nat]
    /\ bt \in [open : BOOLEAN, trail : Nat, effective : Nat, highest : Nat]
    /\ candle \in StopCandles
    /\ moment \in {"open", "low", "close"}

\* The worker is never stopped out of a position that the backtest still holds at
\* the end of the day, however many daily updates it misses.
PaperOutlivesBacktest == bt.open /\ moment # "low" => paper.open

\* While the backtest holds the position, the paper stop is at or below the backtest's and
\* both are at or above the initial stop, although the two keep different states.
PaperStopAtMostBacktest ==
    bt.open =>
       initial <= paper.stop /\ paper.stop <= bt.effective /\ bt.effective = bt.trail

\* Neither stop ever falls: "Update trailing stop on daily close; never lowers stop."
\* rounding down included.
StopsRatchet == [][paper'.stop >= paper.stop /\ bt'.effective >= bt.effective]_vars

\* The worker follows the backtest from below: it is never stopped out first, and its
\* stop never overtakes the backtest's.
PaperFollowsBacktest == PaperOutlivesBacktest /\ PaperStopAtMostBacktest
=============================================================================
