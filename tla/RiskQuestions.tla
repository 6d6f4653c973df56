--------------------------- MODULE RiskQuestions ---------------------------
(***************************************************************************)
(* What the risk engine promises, stated of one question asked of it: the   *)
(* answer is the best size there is, and a refusal means there is none.     *)
(***************************************************************************)
EXTENDS RiskEngine

CONSTANT RiskQuestions      \* the questions: proposal, account, constraints, book, parameters

VARIABLE question

\* The book is a sequence of positions, and the number of slots is an integer.
WellFormed(q) == q.ps \in Seq(Range(q.ps)) /\ q.p.maxOpen \in Int
ASSUME RiskQuestionsOK == \A q \in RiskQuestions : WellFormed(q)

NoQuestion == [none |-> TRUE]
RiskInit == question \in RiskQuestions

Answer(q) == Evaluate(q.t, q.a, q.k, q.ps, q.orders, q.done, q.p)

-----------------------------------------------------------------------------
\* A loss is within its limit, where there is one.
LossAllowed(limit, loss, base) ==
    \A pct \in limit : pct \in Nat /\ loss \in Int /\ loss * Den <= pct * base

\* Nothing forbids the trade whatever its size: the numbers are in their ranges, the
\* parameters within the frozen ones, no loss limit is reached, the signal is an approved
\* long entry with a stop below it, and its symbol and a slot are free.
Allowed(q) ==
    LET t == q.t  a == q.a  k == q.k  p == q.p  ps == q.ps IN
    /\ p.risk \in 1..FrozenRisk /\ p.portfolio \in 1..FrozenPortfolioRisk
    /\ p.leverage \in 1..FrozenLeverage /\ p.maxOpen \in 1..FrozenPositions
    /\ p.tolerance \in Nat
    /\ a.equity \in Nat \ {0} /\ a.margin \in Nat
    /\ {k.tick, k.step, k.minQty} \subseteq Nat \ {0} /\ k.minNotional \in Nat
    /\ k.minQty % k.step = 0
    /\ t.side = "LONG" /\ t.kind = "LONG_ENTRY" /\ t.approved
    /\ t.data = "OK" /\ t.bot = "ACTIVE"
    /\ {t.entry, t.stop} \cup t.atr \subseteq Nat \ {0}
    /\ (t.stop \div k.tick) * k.tick < t.entry
    /\ \A i, j \in DOMAIN ps : i # j => ps[i].symbol # ps[j].symbol
    /\ \A i \in DOMAIN ps :
          /\ {ps[i].size, ps[i].initial, ps[i].trail, ps[i].mark} \subseteq Nat \ {0}
          /\ ps[i].entry \in Nat /\ ps[i].entry > ps[i].initial
          /\ ps[i].symbol # t.symbol
    /\ LossAllowed(p.dailyLimit, a.dailyLoss, a.equity)
    /\ LossAllowed(p.weeklyLimit, a.weeklyLoss, a.equity)
    /\ p.drawdownLimit # {} => /\ a.peak \in Nat \ {0}
                               /\ LossAllowed(p.drawdownLimit, a.peak - a.equity, a.peak)
    /\ t.id \notin q.done /\ t.symbol \notin q.orders /\ Len(ps) < p.maxOpen

Distance(q) == q.t.entry - (q.t.stop \div q.k.tick) * q.k.tick

\* The quantities the exchange takes whose risk, whose leverage beside the open positions
\* and whose margin are within the limits.
Fitting(q) ==
    {n \in q.k.minQty .. (q.p.leverage * q.a.equity) \div (q.t.entry * Unit) :
        /\ n % q.k.step = 0
        /\ n * Distance(q) * Unit * Den <= q.a.equity * q.p.risk
        /\ TotalNotional(q.ps) + n * q.t.entry * Unit <= q.p.leverage * q.a.equity
        /\ n * q.t.entry * Unit <= q.p.leverage * q.a.margin}

BestFit(q) == CHOOSE n \in Fitting(q) : \A m \in Fitting(q) : m <= n

\* The best size also reaches the minimum notional and keeps the portfolio risk.
BestFitAccepted(q) ==
    /\ Allowed(q)
    /\ Fitting(q) # {}
    /\ BestFit(q) * q.t.entry >= q.k.minNotional
    /\ (CurrentOpenRisk(q.ps) + BestFit(q) * Distance(q) * Unit) * Den <= q.a.equity * q.p.portfolio

\* The risk engine answers with the best size there is: approved exactly when nothing
\* forbids the trade and the largest quantity that fits every limit also reaches the
\* minimum notional and keeps the portfolio risk, and then with that quantity
\* (RiskEngine.evaluate: the caps taken one after the other lose nothing).
ApprovedIsBestFit ==
    question # NoQuestion =>
        /\ Answer(question).approved <=> BestFitAccepted(question)
        /\ BestFitAccepted(question) => Answer(question).quantity = BestFit(question)
=============================================================================
