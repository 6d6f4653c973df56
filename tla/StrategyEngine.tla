--------------------------- MODULE StrategyEngine ---------------------------
(***************************************************************************)
(* The strategy engine (strategy_engine/) on the candles of one symbol, as  *)
(* the backtester calls it: at every daily close the bundle is cut to the   *)
(* candles closed by then, the three series are validated, the indicators   *)
(* computed and the entry decided.                                          *)
(*                                                                         *)
(* Time is a number of days.  Prices are integers, indicators exact         *)
(* rationals <<numerator, denominator>>; a value that may be None is the    *)
(* set of it.  verdicts keeps what was decided at each close, to compare it *)
(* with what the finished bundle gives for that close.                      *)
(***************************************************************************)
EXTENDS Integers, Sequences, FiniteSets, SequencesExt, FiniteSetsExt, Functions

CONSTANTS
    DailyShapes,    \* the candles that may be appended: o, h, l, c, v; done: is_closed;
                    \* fits: of the symbol and timeframe of its series; again: has the
                    \* time of the day before
    Closes,         \* closes of weekly and monthly candles
    MaxDays,        \* length of the daily series (bound)
    WeekDays,       \* days a weekly candle lasts
    MonthDays,      \* days a monthly candle lasts
    Periods,        \* the configured StrategyParameters: ema, atr, volume, lookback, fast,
                    \* slow, monthly, and the rationals volumeMin, tolerance, stopMult
    DefaultPeriods  \* StrategyParameters(): the defaults

ASSUME StrategyConstants ==
    /\ MaxDays \in Nat /\ WeekDays \in Nat \ {0} /\ MonthDays \in Nat \ {0}
    /\ \A f \in {"ema", "atr", "volume", "lookback", "fast", "slow", "monthly"} :
          {Periods[f], DefaultPeriods[f]} \subseteq Nat \ {0}

\* Prices and volumes are numbers, the rest are flags.
ASSUME StrategyNumbers ==
    /\ \A k \in DailyShapes : /\ {k.o, k.h, k.l, k.c, k.v} \subseteq Int
                              /\ {k.done, k.fits, k.again} \subseteq BOOLEAN
    /\ Closes \subseteq Int

VARIABLES
    bundle,     \* daily, weekly and monthly candle sequences
    verdicts    \* the evaluation made at each daily close

stVars == <<bundle, verdicts>>

-----------------------------------------------------------------------------
(* rationals *)
Gt(a, b) == a[1] * b[2] > b[1] * a[2]
Ge(a, b) == a[1] * b[2] >= b[1] * a[2]
Int2Q(n) == <<n, 1>>
Column(s, f) == [i \in DOMAIN s |-> s[i][f]]

(* indicators.py: functions on the indices at which the value is not None.  *)

ComputeEma(cs, n) ==
    LET ema[i \in n..Len(cs)] ==
          IF i = n THEN <<SumFunction(SubSeq(cs, 1, n)), n>>
          ELSE <<2 * cs[i] * ema[i-1][2] + (n - 1) * ema[i-1][1], (n + 1) * ema[i-1][2]>>
    IN  ema

TrueRange(candles, i) ==
    Max({candles[i].h - candles[i].l,
           candles[i].h - candles[i-1].c, candles[i-1].c - candles[i].h,
           candles[i].l - candles[i-1].c, candles[i-1].c - candles[i].l})

\* The true range starts at the second candle, so the seed stands at index n + 1.
ComputeWilderAtr(candles, n) ==
    LET atr[i \in (n+1)..Len(candles)] ==
          IF i = n + 1 THEN <<SumFunction([j \in 1..n |-> TrueRange(candles, j + 1)]), n>>
          ELSE <<atr[i-1][1] * (n - 1) + TrueRange(candles, i) * atr[i-1][2],
                 n * atr[i-1][2]>>
    IN  atr

\* V[t] over the mean of the last n volumes; None where the mean is zero.
ComputeVolumeSma(vs, n) ==
    [i \in n..Len(vs) |-> <<SumFunction(SubSeq(vs, i - n + 1, i)), n>>]

ComputeVolumeRatio(vs, n) ==
    LET sma == ComputeVolumeSma(vs, n) IN
    [i \in {j \in n..Len(vs) : sma[j][1] # 0} |-> <<vs[i] * n, sma[i][1]>>]

\* The candle itself is not in its window.
ComputeHigh20(hs, n) ==
    [i \in (n+1)..Len(hs) |-> Max(Range(SubSeq(hs, i - n, i - 1)))]

At(f, i) == IF i \in DOMAIN f THEN {f[i]} ELSE {}

-----------------------------------------------------------------------------
(* validation.py *)
ValidateOhlc(k) ==
    /\ \A v \in {k.o, k.h, k.l, k.c} : v > 0 /\ k.l <= v /\ v <= k.h
    /\ k.v >= 0

MinCandlesForWarmup(frame, p) ==
    CASE frame = "daily" -> Max({p.ema, p.atr + 1, p.volume, p.lookback + 1})
      [] frame = "weekly" -> Max({p.slow, p.fast + 1})
      [] frame = "monthly" -> p.monthly

\* The length is compared with the default periods, whatever is configured.  The series
\* itself has the expected symbol and timeframe: build_candle_series gives it them.
ValidateCandleSeries(s, frame, now) ==
    IF \/ s = <<>>
       \/ \E i \in DOMAIN s : \/ ~s[i].fits \/ ~s[i].done
                              \/ now < s[i].closes
                              \/ i > 1 /\ s[i].opens <= s[i-1].opens
                              \/ ~ValidateOhlc(s[i])
    THEN "INVALID_DATA"
    ELSE IF Len(s) < MinCandlesForWarmup(frame, DefaultPeriods) THEN "INSUFFICIENT_HISTORY"
    ELSE "OK"

CheckWarmupComplete(d, w, m) ==
    /\ Len(d) >= MinCandlesForWarmup("daily", Periods)
    /\ Len(w) >= MinCandlesForWarmup("weekly", Periods)
    /\ Len(m) >= MinCandlesForWarmup("monthly", Periods)

-----------------------------------------------------------------------------
(* regime.py, trend.py, entry.py *)
EvaluateMonthlyRegime(close, ema) == Gt(Int2Q(close), ema)
EvaluateWeeklyTrend(fast, slow) == Gt(fast, slow)
EvaluateVolumeOk(ratio) == Ge(ratio, Periods.volumeMin)

EvaluateBreakout(k, high20, ema, filters) ==
    /\ \E h \in high20 : k.c > h
    /\ Gt(Int2Q(k.c), ema)
    /\ filters

\* P1 to P6; prev is the previous close and its EMA, where both exist.
EvaluatePullback(k, prev, ema, filters) ==
    LET upper == <<ema[1] * (Periods.tolerance[2] + Periods.tolerance[1]),
                   ema[2] * Periods.tolerance[2]>> IN
    /\ Gt(Int2Q(k.c), ema)
    /\ Ge(upper, Int2Q(k.l))
    /\ \E p \in prev : Gt(Int2Q(p.close), p.ema)
    /\ filters

ResolveEntryPriority(breakout, pullback) ==
    IF breakout THEN {"BREAKOUT"} ELSE IF pullback THEN {"PULLBACK"} ELSE {}

ComputeInitialStop(entry, atr) ==
    <<entry * atr[2] * Periods.stopMult[2] - Periods.stopMult[1] * atr[1],
      atr[2] * Periods.stopMult[2]>>

-----------------------------------------------------------------------------
(* engine.py *)
NoEntry(kind) == [kind |-> kind, type |-> {}, atr |-> {}]

\* The decision once every indicator is there.
DecideEntry(d, w, m, ema, atr, ratio, fast, slow, regimeEma) ==
    LET t == Len(d)
        emas == ComputeEma(Column(d, "c"), Periods.ema)
        prev == IF t > 1 /\ t - 1 \in DOMAIN emas
                THEN {[close |-> d[t-1].c, ema |-> emas[t-1]]} ELSE {}
        filters == /\ EvaluateMonthlyRegime(Last(m).c, regimeEma)
                   /\ EvaluateWeeklyTrend(fast, slow)
                   /\ EvaluateVolumeOk(ratio)
        type == ResolveEntryPriority(
                  EvaluateBreakout(d[t], At(ComputeHigh20(Column(d, "h"), Periods.lookback), t),
                                   ema, filters),
                  EvaluatePullback(d[t], prev, ema, filters)) IN
    IF type = {} \/ Ge(ComputeInitialStop(d[t].c, atr), Int2Q(d[t].c))
    THEN [kind |-> "NO_ENTRY", type |-> {}, atr |-> {atr}]
    ELSE [kind |-> "LONG_ENTRY", type |-> type, atr |-> {atr}]

\* StrategyEngine.evaluate on three series at time now: the configured warm-up is looked
\* at only where a series is short for the default one.
Evaluation(d, w, m, now) ==
    LET status == {ValidateCandleSeries(d, "daily", now),
                   ValidateCandleSeries(w, "weekly", now),
                   ValidateCandleSeries(m, "monthly", now)}
        ema == At(ComputeEma(Column(d, "c"), Periods.ema), Len(d))
        atr == At(ComputeWilderAtr(d, Periods.atr), Len(d))
        ratio == At(ComputeVolumeRatio(Column(d, "v"), Periods.volume), Len(d))
        fast == At(ComputeEma(Column(w, "c"), Periods.fast), Len(w))
        slow == At(ComputeEma(Column(w, "c"), Periods.slow), Len(w))
        regimeEma == At(ComputeEma(Column(m, "c"), Periods.monthly), Len(m)) IN
    IF "INVALID_DATA" \in status THEN NoEntry("INVALID_DATA")
    ELSE IF status # {"OK"} /\ ~CheckWarmupComplete(d, w, m)
    THEN NoEntry("INSUFFICIENT_HISTORY")
    ELSE IF \/ {} \in {ema, atr, ratio, fast, slow, regimeEma}
            \/ \E a \in atr : a[1] <= 0
    THEN [NoEntry("INSUFFICIENT_HISTORY") EXCEPT !.atr = atr]
    ELSE LET the(S) == CHOOSE x \in S : TRUE IN
         DecideEntry(d, w, m, the(ema), the(atr), the(ratio), the(fast), the(slow),
                     the(regimeEma))

\* The elements of s at the indices I, in their order.
Kept(s, I) ==
    LET kept[i \in 0..Len(s)] ==
          IF i = 0 THEN <<>>
          ELSE IF i \in I THEN Append(kept[i-1], s[i]) ELSE kept[i-1]
    IN  kept[Len(s)]

\* data.py: what of the bundle is closed as of now.
\* Mutant: a candle that has only begun counts.
SliceClosedCandlesBegun(s, now) == Kept(s, {i \in DOMAIN s : s[i].done /\ s[i].opens <= now})
SliceClosedCandles(s, now) == Kept(s, {i \in DOMAIN s : s[i].done /\ s[i].closes <= now})

\* BacktestEngine._strategy_and_queue up to the evaluation.
EvaluateAsOf(b, now) ==
    Evaluation(SliceClosedCandles(b.daily, now), SliceClosedCandles(b.weekly, now),
               SliceClosedCandles(b.monthly, now), now)

-----------------------------------------------------------------------------
\* The daily series has as many days as its last candle says, whatever its length.
Today == IF bundle.daily = <<>> THEN 0 ELSE Last(bundle.daily).closes

StrategyInit ==
    /\ bundle = [daily |-> <<>>, weekly |-> <<>>, monthly |-> <<>>]
    /\ verdicts = <<>>

\* The longer candles are closed and of their series.
LongCandle(cl, opens, closes) ==
    [o |-> cl, h |-> cl, l |-> cl, c |-> cl, v |-> 0, done |-> TRUE, fits |-> TRUE,
     opens |-> opens, closes |-> closes]

\* The longer candles that close with the day, then the day's, then the evaluation.
DailyClose(shape, wc, mc) ==
    LET now == Today + (IF shape.again THEN 0 ELSE 1)
        daily == [o |-> shape.o, h |-> shape.h, l |-> shape.l, c |-> shape.c, v |-> shape.v,
                  done |-> shape.done, fits |-> shape.fits, opens |-> now - 1, closes |-> now]
        b == [daily |-> Append(bundle.daily, daily),
              weekly |-> IF now % WeekDays # 0 \/ shape.again THEN bundle.weekly
                         ELSE Append(bundle.weekly, LongCandle(wc, now - WeekDays, now)),
              monthly |-> IF now % MonthDays # 0 \/ shape.again THEN bundle.monthly
                          ELSE Append(bundle.monthly, LongCandle(mc, now - MonthDays, now))]
    IN  /\ Len(bundle.daily) < MaxDays
        /\ shape.again => bundle.daily # <<>>
        /\ bundle' = b
        /\ verdicts' = Append(verdicts, [now |-> now, is |-> EvaluateAsOf(b, now)])

StrategyNext ==
    \E shape \in DailyShapes, wc, mc \in Closes : DailyClose(shape, wc, mc)

StrategySpec == StrategyInit /\ [][StrategyNext]_stVars

-----------------------------------------------------------------------------
\* No look-ahead: what the finished bundle gives for an earlier daily close is what
\* was decided when that close was the last one known.  Covers build_candle_series
\* (data.py) and every indicator; the repeated row of a day is decided anew.
NoLookAhead ==
    \A i \in DOMAIN verdicts :
        (\A j \in DOMAIN verdicts : j > i => verdicts[j].now > verdicts[i].now)
            => EvaluateAsOf(bundle, verdicts[i].now) = verdicts[i].is

\* What was closed of the daily series when close i was evaluated.
KnownAt(i) == SliceClosedCandles(SubSeq(bundle.daily, 1, i), verdicts[i].now)

\* Fail closed: no entry is signalled on a history that has an impossible, a repeated or a
\* foreign candle anywhere, however old, nor before the averages, the true ranges and, for
\* a breakout, the highs have their full configured window, although the lengths are
\* compared with the default ones (validate_candle_series, check_warmup_complete, evaluate).
EntryNeedsCleanHistory ==
    \A i \in DOMAIN verdicts :
        verdicts[i].is.kind = "LONG_ENTRY" =>
            LET s == KnownAt(i) IN
            /\ \A k \in Range(s) :
                  /\ k.l > 0 /\ k.l <= k.c /\ k.c <= k.h /\ k.l <= k.o /\ k.o <= k.h /\ k.v >= 0
                  /\ k.fits
            /\ Cardinality({k.opens : k \in Range(s)}) = Len(s)
            /\ Len(s) >= Periods.ema /\ Len(s) > Periods.atr /\ Len(s) >= Periods.volume
            /\ verdicts[i].is.type = {"BREAKOUT"} => Len(s) > Periods.lookback

\* The exponential average of a series lies between its least and its greatest close
\* (compute_ema): neither the seed nor the smoothing adds weight.
AverageWithinRange ==
    \A s \in {bundle.daily, bundle.weekly, bundle.monthly} :
        LET cs == Column(s, "c")
            ema == ComputeEma(cs, Periods.ema) IN
        \A i \in DOMAIN ema :
            /\ \E j \in 1..i : Ge(ema[i], Int2Q(cs[j]))
            /\ \E j \in 1..i : Ge(Int2Q(cs[j]), ema[i])

\* A pullback entry is never a close above the highs of the lookback: such a day is a
\* breakout (resolve_entry_priority), so that one close has one intent id.  Of a history
\* shorter than the configured lookback there are no highs, and a pullback may be signalled.
PullbackIsNoBreakout ==
    \A i \in DOMAIN verdicts :
        verdicts[i].is.type = {"PULLBACK"} =>
            LET s == KnownAt(i) IN
            Len(s) > Periods.lookback =>
                \E j \in (Len(s) - Periods.lookback)..(Len(s) - 1) : s[j].h >= Last(s).c

\* Entries rest on what was known: no look-ahead, no dirty or short history, averages
\* within their series, one type per close (evaluate_strategy).
EntriesAreGrounded ==
    /\ NoLookAhead /\ EntryNeedsCleanHistory
    /\ AverageWithinRange /\ PullbackIsNoBreakout
=============================================================================
