----------------------------- MODULE MCDatasets -----------------------------
(***************************************************************************)
(* Instance of the dataset import, the dataset export, the regime          *)
(* attribution, the fold planning and the scores for TLC.  They share no state, so a   *)
(* behaviour of all is an interleaving of one of each, and a property that *)
(* speaks of one side only is checked on the behaviours in which only that *)
(* side moves.                                                             *)
(***************************************************************************)
EXTENDS DatasetImport, DatasetExport, RegimeAttribution, WalkForward, EvidenceScores

VARIABLE side

Candle(d, v) == [day |-> d, v |-> v]
\* In order, out of order, with a gap, with a conflicting duplicate, empty.
MCPayloads == {<<Candle(1, 0), Candle(2, 0)>>, <<Candle(2, 0), Candle(1, 0)>>,
               <<Candle(1, 0), Candle(3, 0)>>, <<Candle(1, 0), Candle(1, 1)>>, <<>>}

Row(d) == Candle(d, 0)
\* One page, two overlapping pages that disagree, a gap.
MCFetches == {<<<<Row(1), Row(2), Row(3), Row(4)>>>>,
              <<<<Row(1), Row(2)>>, <<Candle(2, 1), Row(3), Row(4)>>>>,
              <<<<Row(1), Row(3), Row(4)>>>>}
MCRanges == {{1, 2}, {2}, {2, 3}}

\* Months before and after the turn of the year, one of them rarely observed.
MCPeriods == {<<1, 11>>, <<1, 12>>, <<2, 1>>, <<2, 3>>}
Day(close, equity, pnl) == [close |-> close, equity |-> equity, pnl |-> pnl]
\* A rising, a falling and a flat month, one with too few bars, one with a day without a
\* bar, one with a zero close and a rising one that starts with an empty account.
MCMonthShapes ==
    {<<Day({2}, 4, {}), Day({3}, 5, {1}), Day({4}, 6, {})>>,
     <<Day({4}, 5, {-1}), Day({2}, 3, {-2}), Day({2}, 4, {})>>,
     <<Day({2}, 6, {}), Day({2}, 6, {}), Day({2}, 5, {-1}), Day({2}, 6, {})>>,
     <<Day({2}, 4, {3}), Day({2}, 2, {})>>,
     <<Day({2}, 3, {}), Day({}, 2, {-1}), Day({4}, 4, {}), Day({2}, 4, {})>>,
     <<Day({2}, 3, {}), Day({0}, 4, {}), Day({4}, 4, {1}), Day({4}, 5, {})>>,
     <<Day({2}, 0, {}), Day({3}, 3, {}), Day({4}, 2, {-1})>>}
MCClassifier == [bull |-> <<1, 2>>, bear |-> <<-1, 4>>, low |-> <<1, 10>>, high |-> <<1, 2>>,
                 minBars |-> 3, window |-> 3]

MCMonthStarts == <<0, 3, 5, 9, 12, 14, 18, 21>>
MCPlanRequests ==
    [start : 0 .. 4, end : 0 .. 17, folds : 0 .. 4, embargo : {0, 1, 4, 7}, months : 1 .. 2,
     days : {{}, {0}, {8}}]

\* Counts at the floors of the policy; weak pass ratios; usable, useless and missing bootstraps.
Opt(S) == {{}} \cup {{v} : v \in S}
MCEvidenceValues ==
    [trade_sample |-> {9, 30, 100}, time_coverage |-> {59, 252}, oos_folds |-> {1, 5},
     parameter_plateau |-> {8}, regime_coverage |-> {89, 95}]
MCConfidenceInputs ==
    [complete : BOOLEAN, gate : {{}, {TRUE}, {FALSE}}, testing : BOOLEAN,
     count : [trade_sample : Opt({9, 100}), time_coverage : Opt({59, 252}), oos_folds : Opt({5}),
              parameter_plateau : Opt({8}), regime_coverage : Opt({95})],
     boot : Opt({[series |-> 30, block |-> 1], [series |-> 39, block |-> 2],
                 [series |-> 3, block |-> 3], [series |-> 30, block |-> 0]}),
     weak : {{}, {"oos_folds"}, {"parameter_plateau", "regime_coverage"}}]

MCFrozenParameters == [ema |-> 5, atr |-> 3]
MCDeltas == <<<<"ema", -2>>, <<"ema", -1>>, <<"ema", 1>>, <<"lookback", 1>>, <<"atr", 1>>,
              <<"atr", 0>>>>
MCChildIds == <<"frozen", "neighbor_01", "neighbor_02", "neighbor_03", "neighbor_04", "neighbor_05">>
\* Stable, losing, too costly, failed, not listed, complete without its metrics
MCChildOutcomes ==
    {[status |-> "complete", net |-> {60}, costs |-> {10}],
     [status |-> "complete", net |-> {-10}, costs |-> {1}],
     [status |-> "complete", net |-> {0}, costs |-> {1}],
     [status |-> "failed", net |-> {}, costs |-> {}],
     [status |-> "absent", net |-> {}, costs |-> {}],
     [status |-> "complete", net |-> {5}, costs |-> {}]}
MCPnlSeries == {<<-2, 3, -1>>, <<1, -4>>, <<-1, 0>>, <<2>>}
MCCostSpecs == [entry : 0 .. 2, exit : 0 .. 2, slippage : 0 .. 2, funding : Opt(0 .. 2)]

vars == <<side, scVars, importVars, exportVars, rgVars, wfVars>>
Init ==
    /\ ImportInit /\ ExportInit /\ RegimeInit
    /\ \/ side \in {"import", "export", "regime"} /\ request = NoRequest /\ scored = NothingScored
       \/ side = "folds" /\ WalkForwardInit /\ scored = NothingScored
       \/ side = "scores" /\ ScoresInit /\ request = NoRequest
Next ==
    \/ side = "import" /\ ImportNext /\ UNCHANGED <<side, scVars, exportVars, rgVars, wfVars>>
    \/ side = "export" /\ ExportNext /\ UNCHANGED <<side, scVars, importVars, rgVars, wfVars>>
    \/ side = "regime" /\ RegimeNext /\ UNCHANGED <<side, scVars, importVars, exportVars, wfVars>>
    \/ side = "scores" /\ ScoresNext /\ UNCHANGED <<side, importVars, exportVars, rgVars, wfVars>>
Spec == Init /\ [][Next]_vars

\* What has been published or labelled is not changed by what comes later: neither by
\* another exporter nor by another month.
PastIsKept == [][SnapshotsAreFinal /\ PastMonthsKeepLabels]_vars

\* More evidence is never worse: neither for the confidence label nor for the area of
\* stable parameters.
MoreNeverHurts == [][EvidenceOnlyHelps /\ StableNeighbourNeverHurts]_vars
=============================================================================
