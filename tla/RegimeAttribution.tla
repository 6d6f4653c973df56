------------------------- MODULE RegimeAttribution -------------------------
(***************************************************************************)
(* Market regimes: the label of a calendar month, the transitions between   *)
(* months, the event tag of a day (research/regime), and the attribution of *)
(* a run's trades and equity curve to the labelled days                     *)
(* (research/regime_quality).                                               *)
(*                                                                          *)
(* A history is a sequence of days in calendar order.  A day has its period *)
(* <<year, month>>, its number, its close (none when the bar is missing),   *)
(* the equity snapshot and the net results of the trades that exit on it.   *)
(* Ratios are compared by cross-multiplication.  The history grows by whole *)
(* months, as the labels are made from completed months.                    *)
(***************************************************************************)
EXTENDS Integers, FiniteSets, SequencesExt, FiniteSetsExt

CONSTANTS
    Periods,        \* the months that may be observed
    MonthShapes,    \* what may happen in a month: sequences of [close, equity, pnl]
    Classifier      \* [bull, bear, low, high : <<numerator, denominator>>, minBars, window]

ASSUME ClassifierOK ==
    /\ \A q \in {Classifier.bull, Classifier.bear, Classifier.low, Classifier.high} : q[2] > 0
    /\ Classifier.minBars \in Nat /\ Classifier.window \in Nat \ {0}

VARIABLE history

rgVars == <<history>>

-----------------------------------------------------------------------------
(* labeling.py                                                             *)

Before(p, q) == p[1] < q[1] \/ (p[1] = q[1] /\ p[2] < q[2])

\* bars_from_closes: the days that have a close
Bars(h) == SelectSeq(h, LAMBDA b : b.close # {})
CloseOf(b) == CHOOSE c \in b.close : TRUE

BarsOf(h, p) == SelectSeq(Bars(h), LAMBDA b : b.p = p)

\* The daily returns of a month over one denominator: [num, den]; a day after a
\* zero close has none.
DailyReturns(bs) ==
    LET pairs == SelectSeq([i \in 1 .. Len(bs) - 1 |-> <<CloseOf(bs[i]), CloseOf(bs[i + 1])>>],
                           LAMBDA x : x[1] # 0)
        den == FoldLeft(LAMBDA acc, x : acc * x[1], 1, pairs)
    IN  [num |-> [i \in DOMAIN pairs |-> (pairs[i][2] - pairs[i][1]) * (den \div pairs[i][1])],
         den |-> den]

Sum(s) == FoldLeft(LAMBDA acc, x : acc + x, 0, s)

\* _population_stdev, squared: [num, den]; none for fewer than two values
PopulationVariance(r) ==
    LET n == Len(r.num)
    IN  IF n < 2 THEN {}
        ELSE {[num |-> n * Sum([i \in DOMAIN r.num |-> r.num[i] * r.num[i]]) - Sum(r.num) * Sum(r.num),
               den |-> n * n * r.den * r.den]}

ClassifyTrend(first, last) ==
    IF (last - first) * Classifier.bull[2] >= Classifier.bull[1] * first THEN "BULL"
    ELSE IF (last - first) * Classifier.bear[2] <= Classifier.bear[1] * first THEN "BEAR"
    ELSE "SIDEWAYS"

\* The standard deviation against a threshold is the variance against its square.
BelowSquare(v, q) == v.num * q[2] * q[2] < q[1] * q[1] * v.den

ClassifyVol(v) ==
    IF BelowSquare(v, Classifier.low) THEN "LOW_VOL"
    ELSE IF ~BelowSquare(v, Classifier.high) THEN "HIGH_VOL"
    ELSE "NORMAL_VOL"

\* _label_period
LabelPeriod(p, bs) ==
    LET first == CloseOf(Head(bs))
        v == PopulationVariance(DailyReturns(bs))
        base == [p |-> p, count |-> Len(bs)]
    IN  IF Len(bs) < Classifier.minBars \/ first = 0 \/ v = {}
        THEN base @@ [trend |-> "INSUFFICIENT", vol |-> "INSUFFICIENT", status |-> "INSUFFICIENT"]
        ELSE base @@ [trend |-> ClassifyTrend(first, CloseOf(Last(bs))),
                      vol |-> ClassifyVol(CHOOSE x \in v : TRUE), status |-> "OK"]

PeriodIds(h) == SetToSortSeq({b.p : b \in ToSet(Bars(h))}, Before)

\* label_periods: one label per observed month, in calendar order
LabelPeriods(h) ==
    FoldLeft(LAMBDA acc, p : Append(acc, LabelPeriod(p, BarsOf(h, p))), <<>>, PeriodIds(h))

LabelOf(labels, p) == CHOOSE l \in ToSet(labels) : l.p = p

\* label_days: a bar inherits the label of its month
LabelDays(bars, labels) ==
    FoldLeft(LAMBDA acc, b :
                LET l == LabelOf(labels, b.p)
                IN  Append(acc, [p |-> b.p, d |-> b.d, trend |-> l.trend, vol |-> l.vol,
                                 status |-> l.status]),
             <<>>, bars)

-----------------------------------------------------------------------------
(* transitions.py                                                          *)

NextCalendarMonth(p) == IF p[2] = 12 THEN <<p[1] + 1, 1>> ELSE <<p[1], p[2] + 1>>

MonthsAreCalendarAdjacent(p, q) == NextCalendarMonth(p) = q

\* missing_months_between walks at most 240 months.
MaxMonthsWalked == 240
MissingMonthsBetween(p, q) ==
    LET walk[n \in Nat] == IF n = 0 THEN NextCalendarMonth(p) ELSE NextCalendarMonth(walk[n - 1])
        steps == CHOOSE n \in 0 .. MaxMonthsWalked :
                    /\ n = MaxMonthsWalked \/ ~Before(walk[n], q)
                    /\ \A k \in 0 .. n - 1 : Before(walk[k], q)
    IN  IF ~Before(p, q) THEN <<>> ELSE [i \in 1 .. steps |-> walk[i - 1]]

\* zip(period_labels, period_labels[1:])
Pairs(labels) == [i \in 1 .. Len(labels) - 1 |-> <<labels[i], labels[i + 1]>>]

DetectCalendarGaps(labels) ==
    LET gaps == SelectSeq(Pairs(labels), LAMBDA x : ~MonthsAreCalendarAdjacent(x[1].p, x[2].p))
        named == [i \in DOMAIN gaps |->
                    [after |-> gaps[i][1].p, before |-> gaps[i][2].p,
                     missing |-> MissingMonthsBetween(gaps[i][1].p, gaps[i][2].p)]]
    IN  SelectSeq(named, LAMBDA g : g.missing # <<>>)

NoTransition == <<"none", "none">>

\* _trend_transition_id
TrendTransitionId(a, b) ==
    IF a = b \/ "INSUFFICIENT" \in {a, b} THEN NoTransition
    ELSE IF b = "SIDEWAYS" THEN <<"TREND", "SIDEWAYS">>
    ELSE IF a = "SIDEWAYS" THEN <<"SIDEWAYS", "TREND">>
    ELSE <<a, b>>

\* _vol_transition_id
VolTransitionId(a, b) ==
    IF a = b \/ "INSUFFICIENT" \in {a, b} THEN NoTransition ELSE <<a, b>>

DirectedTransitionId(a, b) ==
    IF a.status # "OK" \/ b.status # "OK" THEN NoTransition
    ELSE IF TrendTransitionId(a.trend, b.trend) # NoTransition
         THEN TrendTransitionId(a.trend, b.trend)
    ELSE VolTransitionId(a.vol, b.vol)

DetectPeriodTransitions(labels) ==
    LET changes == SelectSeq(Pairs(labels),
                             LAMBDA x : /\ MonthsAreCalendarAdjacent(x[1].p, x[2].p)
                                        /\ DirectedTransitionId(x[1], x[2]) # NoTransition)
    IN  [i \in DOMAIN changes |->
           [from |-> changes[i][1].p, to |-> changes[i][2].p,
            id |-> DirectedTransitionId(changes[i][1], changes[i][2])]]

\* The tag of the bar number idx (from 0) of n of a month that a transition enters
\* (comes) or leaves (goes); where both windows overlap the halves decide.
TagOf(idx, n, comes, goes) ==
    LET isOut == goes /\ idx >= n - Classifier.window
        isIn == comes /\ idx < Classifier.window
    IN  IF isIn /\ isOut THEN IF 2 * idx < n THEN "TRANSITION_IN" ELSE "TRANSITION_OUT"
        ELSE IF isIn THEN "TRANSITION_IN"
        ELSE IF isOut THEN "TRANSITION_OUT"
        ELSE "STABLE_REGIME"

\* label_day_events
LabelDayEvents(h, labels) ==
    LET ts == ToSet(DetectPeriodTransitions(labels))
        Event(day) ==
            LET month == BarsOf(h, day.p)
                idx == (CHOOSE k \in DOMAIN month : month[k].d = day.d) - 1
                tag == TagOf(idx, Len(month), \E t \in ts : t.to = day.p, \E t \in ts : t.from = day.p)
            IN  IF day.status # "OK" THEN [event |-> "INSUFFICIENT", id |-> NoTransition]
                ELSE [event |-> tag,
                      id |-> IF tag = "TRANSITION_IN" THEN (CHOOSE t \in ts : t.to = day.p).id
                             ELSE IF tag = "TRANSITION_OUT" THEN (CHOOSE t \in ts : t.from = day.p).id
                             ELSE NoTransition]
    IN  FoldLeft(LAMBDA acc, day : Append(acc, [p |-> day.p, d |-> day.d] @@ Event(day)),
                 <<>>, LabelDays(Bars(h), labels))

-----------------------------------------------------------------------------
(* regime_quality/join.py                                                  *)

\* index_day_labels: the label of each labelled day
IndexDayLabels(h) == ToSet(LabelDays(Bars(h), LabelPeriods(h)))

CellOf(l) == <<l.trend, l.vol>>

\* The cell of a day: the buckets "unlabeled" and "insufficient" beside the regimes
BucketOf(index, day) ==
    LET key == {l \in index : l.p = day.p /\ l.d = day.d}
    IN  IF key = {} THEN <<"unlabeled">>
        ELSE IF \E l \in key : l.status # "OK" THEN <<"insufficient">>
        ELSE CellOf(CHOOSE l \in key : TRUE)

\* Mutant of AttributeTrades: a trade on a day without a label is dropped.
AttributeTradesLabelled(h, index) ==
    LET closed == SelectSeq(h, LAMBDA day : day.pnl # {} /\ BucketOf(index, day) # <<"unlabeled">>)
    IN  {<<BucketOf(index, closed[i]), i, closed[i].pnl>> : i \in DOMAIN closed}

\* attribute_trades: the closed trades with their bucket and net result
AttributeTrades(h, index) ==
    LET closed == SelectSeq(h, LAMBDA day : day.pnl # {})
    IN  {<<BucketOf(index, closed[i]), i, closed[i].pnl>> : i \in DOMAIN closed}

\* attribute_equity: the tagged timeline
AttributeEquity(h, index) ==
    FoldLeft(LAMBDA acc, day : Append(acc, [cell |-> BucketOf(index, day), equity |-> day.equity]),
             <<>>, h)

\* TradeAttribution.attributed_net_pnl, excluded_net_pnl and source_net_pnl
NetPnl(trades) == MapThenSumSet(LAMBDA t : CHOOSE n \in t[3] : TRUE, trades)
AttributedNetPnl(trades, cells) == NetPnl({t \in trades : t[1] \in cells})
ExcludedNetPnl(trades) == NetPnl({t \in trades : t[1] \in {<<"unlabeled">>, <<"insufficient">>}})

-----------------------------------------------------------------------------
(* regime_quality/metrics.py                                               *)

\* _contiguous_episodes: the maximal runs of a cell
ContiguousEpisodes(timeline, cell) ==
    LET after == FoldLeft(
            LAMBDA acc, x :
                IF x.cell = cell THEN [acc EXCEPT !.current = Append(@, x)]
                ELSE IF acc.current # <<>>
                     THEN [done |-> Append(acc.done, acc.current), current |-> <<>>]
                ELSE acc,
            [done |-> <<>>, current |-> <<>>], timeline)
    IN  IF after.current = <<>> THEN after.done ELSE Append(after.done, after.current)

\* Of two fractions, with positive denominators, the first is the larger.
Deeper(a, b) == a[1] * b[2] > b[1] * a[2]

(* The deepest fall of one episode that starts above zero.  The level, a     *)
(* fraction, is rebased to 1 and follows the daily returns; the returns of   *)
(* a run of positive equities telescope, so it is the level at the start of  *)
(* the run (base) times the equity over the run's first equity (start).  A   *)
(* return from an equity of zero or less is left out, and a new run starts.  *)
EpisodeDrawdown(ep) ==
    LET restart(acc, cur) == [acc EXCEPT !.prev = cur, !.start = cur]
        follow(acc, cur) ==
            LET level == <<acc.base[1] * cur, acc.base[2] * acc.start>>
                peak  == IF Deeper(level, acc.peak) THEN level ELSE acc.peak
                fall  == <<peak[1] * level[2] - level[1] * peak[2], peak[1] * level[2]>>
            IN  [base |-> IF cur <= 0 THEN level ELSE acc.base, start |-> acc.start,
                 prev |-> cur, peak |-> peak,
                 dd |-> IF Deeper(fall, acc.dd) THEN fall ELSE acc.dd]
        step(acc, x) == IF acc.prev <= 0 THEN restart(acc, x.equity) ELSE follow(acc, x.equity)
        first == Head(ep).equity
    IN  FoldLeft(step, [base |-> <<1, 1>>, start |-> first, prev |-> first,
                        peak |-> <<1, 1>>, dd |-> <<0, 1>>], Tail(ep)).dd

\* max_drawdown_from_episodes; an episode of one point, or one that starts at an equity
\* of zero or less, has none
MaxDrawdownFromEpisodes(timeline, cell) ==
    LET eps == {e \in ToSet(ContiguousEpisodes(timeline, cell)) :
                    Len(e) >= 2 /\ Head(e).equity > 0}
    IN  IF eps = {} THEN {}
        ELSE {EpisodeDrawdown(CHOOSE e \in eps :
                \A f \in eps : ~Deeper(EpisodeDrawdown(f), EpisodeDrawdown(e)))}

-----------------------------------------------------------------------------
RegimeInit == history = <<>>

\* The next observed month, in full.
AddMonth(p, shape) ==
    /\ history # <<>> => Before(Last(history).p, p)
    /\ history' = history \o [d \in DOMAIN shape |-> shape[d] @@ [p |-> p, d |-> d]]

RegimeNext == \E p \in Periods, shape \in MonthShapes : AddMonth(p, shape)

-----------------------------------------------------------------------------
(* Properties.                                                             *)

\* No look-ahead across months: another month changes neither the label nor the
\* transitions of the months before it (labeling.py: "no cross-month look-ahead when
\* computing the month return/vol").
PastMonthsKeepLabels ==
    LET old == LabelPeriods(history)
        new == LabelPeriods(history')
    IN  /\ IsPrefix(old, new)
        /\ IsPrefix(DetectPeriodTransitions(old), DetectPeriodTransitions(new))

MonthNumber(p) == 12 * p[1] + p[2]

\* Successive observed months are neighbours or have a reported gap of exactly the
\* months between them, and a transition never bridges a gap (transitions.py: "no
\* fabricated" January-to-March "transition"), also over the end of a year.
GapsAndTransitionsExclude ==
    LET labels == LabelPeriods(history)
        gaps == ToSet(DetectCalendarGaps(labels))
        ts == ToSet(DetectPeriodTransitions(labels))
    IN  \A i \in 1 .. Len(labels) - 1 :
           LET between == MonthNumber(labels[i + 1].p) - MonthNumber(labels[i].p) - 1
               named == {g \in gaps : g.after = labels[i].p /\ g.before = labels[i + 1].p}
           IN  /\ (between = 0) <=> (named = {})
               /\ \A g \in named : {MonthNumber(m) : m \in ToSet(g.missing)}
                     = MonthNumber(labels[i].p) + 1 .. MonthNumber(labels[i + 1].p) - 1
               /\ (\E t \in ts : t.from = labels[i].p /\ t.to = labels[i + 1].p) => between = 0

\* A transition is seen on both of its sides: the last bar of the month it leaves is
\* tagged OUT and the first bar of the month it enters IN, with its id, and within a
\* month no IN tag follows an OUT tag (label_day_events, overlapping windows).
TransitionsSeenOnBothSides ==
    LET labels == LabelPeriods(history)
        events == LabelDayEvents(history, labels)
        ofMonth(p) == SelectSeq(events, LAMBDA e : e.p = p)
    IN  /\ \A t \in ToSet(DetectPeriodTransitions(labels)) :
              /\ Last(ofMonth(t.from)).event = "TRANSITION_OUT"
              /\ Last(ofMonth(t.from)).id = t.id
              /\ Head(ofMonth(t.to)).event = "TRANSITION_IN"
              /\ Head(ofMonth(t.to)).id = t.id
        /\ \A i, j \in DOMAIN events :
              events[i].p = events[j].p /\ events[i].event = "TRANSITION_OUT" /\ i < j
                 => events[j].event # "TRANSITION_IN"

\* Nothing is lost in the attribution: the cells and the two excluded buckets add up to
\* the net result of all closed trades (join.py: trades without a label are "not
\* silently dropped from reconciliation").
AttributionReconciles ==
    LET index == IndexDayLabels(history)
        trades == AttributeTrades(history, index)
        cells == {CellOf(l) : l \in {x \in index : x.status = "OK"}}
        net(day) == IF day.pnl = {} THEN 0 ELSE CHOOSE n \in day.pnl : TRUE
    IN  AttributedNetPnl(trades, cells) + ExcludedNetPnl(trades)
            = FoldLeft(LAMBDA acc, day : acc + net(day), 0, history)

\* The losses between two episodes of a regime do not count as its drawdown: no cell
\* falls deeper than the equity curve does within some run of consecutive days of that
\* cell (metrics.py: cross-regime gaps "must not inflate" it), also when the account is
\* empty for some of its days and the returns from zero are left out.
DrawdownStaysInRegime ==
    LET tl == AttributeEquity(history, IndexDayLabels(history))
        cells == {c \in {tl[i].cell : i \in DOMAIN tl} : Len(c) = 2}
    IN  \A c \in cells : \A dd \in MaxDrawdownFromEpisodes(tl, c) :
           \/ dd[1] = 0
           \/ \E i, j \in DOMAIN tl :
                 /\ i < j /\ tl[i].equity > 0 /\ \A k \in i .. j : tl[k].cell = c
                 /\ ~Deeper(dd, <<tl[i].equity - tl[j].equity, tl[i].equity>>)

\* Labels, gaps and transitions fit the calendar, and what is attributed to the regimes
\* adds up and stays in its regime (transitions.py, join.py, metrics.py).
RegimesAreSound ==
    /\ GapsAndTransitionsExclude /\ TransitionsSeenOnBothSides
    /\ AttributionReconciles /\ DrawdownStaysInRegime
=============================================================================
