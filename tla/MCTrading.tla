----------------------------- MODULE MCTrading -----------------------------
(***************************************************************************)
(* Instance of the trading engines for TLC.  The risk engine is asked one   *)
(* question per behaviour, the strategy engine grows one bundle, the        *)
(* backtest runs one timeline; the three share no state, so each is         *)
(* explored alone.                                                          *)
(***************************************************************************)
EXTENDS Backtest, StrategyEngine, RiskQuestions

CONSTANTS s1, s2, s3

VARIABLE side

(* The risk engine's questions *)
Parameters(risk, portfolio, leverage) ==
    [risk |-> risk, portfolio |-> portfolio, leverage |-> leverage, maxOpen |-> 2,
     tolerance |-> 0, dailyLimit |-> {}, weeklyLimit |-> {}, drawdownLimit |-> {}]
Limited(limit) ==
    [Parameters(5, 12, 2) EXCEPT !.dailyLimit = limit, !.drawdownLimit = limit]
MCParameterSets ==
    {Parameters(5, 12, 2), Parameters(5, 5, 1), Parameters(6, 12, 2), Parameters(5, 12, NotFinite),
     Limited({2}), Limited({NotFinite})}
Limits(step, min, notional) ==
    [step |-> step, minQty |-> min, minNotional |-> notional, tick |-> 10]
MCConstraintSets == {Limits(1, 1, 0), Limits(2, 4, 100), Limits(2, 3, 0)}
Account(e, margin, loss) ==
    [equity |-> e, margin |-> margin, dailyLoss |-> loss, weeklyLoss |-> 0, peak |-> 5000]
MCAccounts ==
    {Account(e, mg, l) : e \in {0, 2000, 5000}, mg \in {0, 750, 2000}, l \in {0, 1500}}
        \cup {Account(5000, NotFinite, 0)}
Proposal(entry, stop, kind) ==
    [symbol |-> s1, side |-> "LONG", entry |-> entry, stop |-> stop, id |-> 1, kind |-> kind,
     approved |-> TRUE, data |-> "OK", bot |-> "ACTIVE", atr |-> {}]
MCProposals ==
    {Proposal(44, st, "LONG_ENTRY") : st \in {0, 15, 20, 38, 44, 50}}
        \cup {Proposal(22, 17, "LONG_ENTRY"), Proposal(44, 20, "NO_ENTRY")}
Held(s, size, trail) ==
    [symbol |-> s, entry |-> 30, size |-> size, initial |-> 20, trail |-> trail, mark |-> 40]
MCBooks == {<<>>, <<Held(s2, 3, 20)>>, <<Held(s2, 8, 20)>>, <<Held(s2, 3, 40)>>,
            <<Held(s1, 3, 20)>>, <<Held(s2, 3, 20), Held(s2, 3, 20)>>,
            <<Held(s2, 1, 20), Held(s3, 1, 20)>>}

MCQuestions == [t : MCProposals, a : MCAccounts, k : MCConstraintSets, ps : MCBooks,
                p : MCParameterSets, orders : {{}, {s1}}, done : {{}, {1}}]

(* The bundle of the strategy engine *)
Shape(o, h, l, c, v) ==
    [o |-> o, h |-> h, l |-> l, c |-> c, v |-> v, done |-> TRUE, fits |-> TRUE,
     again |-> FALSE]
MCShapes == {Shape(3, 4, 2, 3, 2), Shape(3, 6, 3, 6, 3), Shape(5, 5, 4, 5, 3),
             Shape(4, 3, 4, 4, 1),     \* impossible: its high is below its low
             [Shape(3, 6, 3, 6, 3) EXCEPT !.done = FALSE],
             [Shape(3, 6, 3, 6, 3) EXCEPT !.fits = FALSE],
             [Shape(3, 6, 3, 6, 3) EXCEPT !.again = TRUE]}
MCPeriods == [ema |-> 2, atr |-> 2, volume |-> 2, lookback |-> 4, fast |-> 1, slow |-> 2,
              monthly |-> 2, volumeMin |-> <<1, 1>>, tolerance |-> <<1, 10>>,
              stopMult |-> <<5, 2>>]
\* The default lookback is shorter: the two warm-ups disagree.
MCDefaultPeriods == [MCPeriods EXCEPT !.lookback = 2]

(* The backtest *)
MCOrder == <<s1, s2>>
MCCandles == {[open |-> 40, low |-> 40, close |-> 80], [open |-> 40, low |-> 20, close |-> 40],
              [open |-> 20, low |-> 20, close |-> 20], [open |-> 60, low |-> 50, close |-> 60]}
MCSignals == {[long |-> FALSE, type |-> "NONE", atr |-> {}],
              [long |-> TRUE, type |-> "BREAKOUT", atr |-> {7}],
              [long |-> TRUE, type |-> "PULLBACK", atr |-> {12}]}
MCConstraints == Limits(1, 1, 0)
MCParams == Parameters(5, 8, 2)
MCFunding == {<<>>, <<1, -2>>}
MCProcessed == {[symbol |-> s1, day |-> 1, type |-> "BREAKOUT"]}

vars == <<side, question, btVars, stVars>>

Init ==
    /\ \/ side = "risk" /\ RiskInit
       \/ side \in {"strategy", "backtest"} /\ question = NoQuestion
    /\ BacktestInit /\ StrategyInit

Next ==
    \/ side = "strategy" /\ StrategyNext /\ UNCHANGED <<side, question, btVars>>
    \/ side = "backtest" /\ BacktestNext /\ UNCHANGED <<side, question, stVars>>
Spec == Init /\ [][Next]_vars
=============================================================================
