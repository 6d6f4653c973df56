---------------------------- MODULE WalkForward ----------------------------
(***************************************************************************)
(* The planning of walk-forward folds (research/walk_forward.py): how a     *)
(* range of days is cut into evaluation windows behind a warm-up of whole   *)
(* calendar months, and what of the past each window may use for features   *)
(* and for labels.  Days are naturals; the calendar is given by the first   *)
(* day of every month.                                                      *)
(***************************************************************************)
EXTENDS Integers, Sequences, FiniteSets

CONSTANTS MonthStarts,      \* the first day of each month of the calendar, ascending
          PlanRequests      \* [start, end, folds, embargo, months, days (a set)]

ASSUME CalendarOK ==
    /\ MonthStarts \in Seq(Int)
    /\ \A i \in 1 .. Len(MonthStarts) - 1 : MonthStarts[i] < MonthStarts[i + 1]

VARIABLE request

wfVars == <<request>>

\* Nothing is asked.
NoRequest == [none |-> TRUE]

Months == 1 .. Len(MonthStarts) - 1
MonthStart(k) == MonthStarts[k]
MonthEnd(k) == MonthStarts[k + 1] - 1

\* A request has one number of days or none, and the calendar does not end within its warm-up.
ASSUME RequestsOK ==
    \A q \in PlanRequests :
       /\ {q.start, q.end, q.folds, q.embargo, q.months} \subseteq Int
       /\ q.days \subseteq Int /\ \A m, n \in q.days : m = n
       /\ \E k \in Months : MonthStart(k) >= q.start /\ k + q.months <= Len(MonthStarts)

\* The month in which both searches begin: the one that starts on the day or the next.
FirstMonthFrom(day) == CHOOSE k \in Months :
    /\ MonthStart(k) >= day
    /\ \A j \in Months : MonthStart(j) >= day => k <= j

\* count_completed_monthly_candles
CountCompletedMonthlyCandles(from, to) ==
    IF to < from THEN 0
    ELSE Cardinality({k \in Months : MonthStart(k) >= from /\ MonthEnd(k) <= to})

\* earliest_eval_start_for_monthly_warmup
EarliestEvalStart(start, n) == MonthEnd(FirstMonthFrom(start) + n - 1) + 1

\* The day floor of feature_warmup_days on top of it
FirstEvalStart(q) ==
    LET warm == EarliestEvalStart(q.start, q.months)
    IN  IF \E n \in q.days : q.start + n > warm THEN q.start + (CHOOSE n \in q.days : TRUE) ELSE warm

\* The arguments that plan_walk_forward_folds refuses
RequestRefused(q) ==
    \/ q.end < q.start \/ q.folds < 1 \/ q.embargo < 0 \/ q.months < 1
    \/ \E n \in q.days : n < 1
    \/ FirstEvalStart(q) > q.end
    \/ q.end - FirstEvalStart(q) + 1 < q.folds

\* The evaluable days split evenly, the first folds one day longer
FoldLength(q, i) ==
    LET total == q.end - FirstEvalStart(q) + 1
    IN  total \div q.folds + (IF i <= total % q.folds THEN 1 ELSE 0)

EvalStart(q, i) ==
    LET start[k \in 1 .. i] ==
            IF k = 1 THEN FirstEvalStart(q) ELSE start[k - 1] + FoldLength(q, k - 1)
    IN  start[i]

\* Mutant of Fold: the embargo is not taken off the labels.
FoldWithoutPurge(q, i) ==
    LET es == EvalStart(q, i)
    IN  [evalStart |-> es, evalEnd |-> es + FoldLength(q, i) - 1,
         featureStart |-> q.start, featureEnd |-> es - 1,
         labelStart |-> q.start, labelEnd |-> es - 1,
         embargoStart |-> es - q.embargo, embargoEnd |-> es - 1]

\* One WalkForwardFold; an empty embargo begins where the evaluation does.
Fold(q, i) ==
    LET es == EvalStart(q, i)
    IN  [evalStart |-> es, evalEnd |-> es + FoldLength(q, i) - 1,
         featureStart |-> q.start, featureEnd |-> es - 1,
         labelStart |-> q.start, labelEnd |-> es - q.embargo - 1,
         embargoStart |-> es - q.embargo, embargoEnd |-> es - 1]

\* The checks inside the loop
FoldRefused(q, i) ==
    LET f == Fold(q, i)
    IN  \/ CountCompletedMonthlyCandles(f.featureStart, f.featureEnd) < q.months
        \/ \E n \in q.days : f.featureEnd - f.featureStart + 1 < n
        \/ f.labelEnd < f.labelStart

\* plan_walk_forward_folds: the folds, or nothing when it raises
PlanWalkForwardFolds(q) ==
    IF RequestRefused(q) \/ \E i \in 1 .. q.folds : FoldRefused(q, i) THEN <<>>
    ELSE [i \in 1 .. q.folds |-> Fold(q, i)]

\* build_walk_forward_child_specs: a fold's child run begins with its feature context and
\* ends with its evaluation, at the last second of that day.
ChildDays(q, f) == f.featureStart .. f.evalEnd

WalkForwardInit == request \in PlanRequests

-----------------------------------------------------------------------------
(* Properties.                                                             *)

Whole(from, to) == {k \in Months : MonthStart(k) >= from /\ MonthEnd(k) <= to}

\* The folds tile the days from the first evaluation day to the end of the range, their
\* lengths differ by at most a day, the child run of a fold covers its own evaluation and
\* nothing that a later fold evaluates, and no fold's labels reach its embargo or any day
\* that it evaluates or evaluates later (plan_walk_forward_folds: "labels must not").
FoldsTileTheRange ==
    request # NoRequest =>
    LET fs == PlanWalkForwardFolds(request)
        DaysOf(f) == f.evalStart .. f.evalEnd
    IN  fs # <<>> =>
           /\ UNION {DaysOf(fs[i]) : i \in DOMAIN fs} = fs[1].evalStart .. request.end
           /\ \A i, j \in DOMAIN fs :
                 /\ i # j => DaysOf(fs[i]) \cap DaysOf(fs[j]) = {}
                 /\ Cardinality(DaysOf(fs[i])) <= Cardinality(DaysOf(fs[j])) + 1
                 /\ DaysOf(fs[i]) \subseteq ChildDays(request, fs[i])
                 /\ i < j => DaysOf(fs[j]) \cap ChildDays(request, fs[i]) = {}
                 /\ i <= j => \A d \in DaysOf(fs[j]) : d - fs[i].labelEnd > request.embargo

\* The first evaluation day is the earliest one with enough whole months before it
\* and the asked number of days, and the warm-up checks inside the loop never refuse
\* what the search before the loop has found.
WarmUpIsTheEarliest ==
    request # NoRequest =>
    LET q == request
        warm(day) == /\ Cardinality(Whole(q.start, day - 1)) >= q.months
                     /\ \A n \in q.days : day - q.start >= n
    IN  ~RequestRefused(q) =>
           /\ warm(FirstEvalStart(q))
           /\ \A day \in q.start .. FirstEvalStart(q) - 1 : ~warm(day)
           /\ \A i \in 1 .. q.folds :
                 FoldRefused(q, i) => Fold(q, i).labelEnd < q.start

\* The plan is the one asked for: folds that tile the range without a leak, begun as
\* early as the warm-up allows (plan_walk_forward_folds).
PlansAreSound == FoldsTileTheRange /\ WarmUpIsTheEarliest
=============================================================================
