----------------------------- MODULE RiskEngine -----------------------------
(***************************************************************************)
(* The risk engine (risk_engine/engine.py): one pure evaluation of a trade  *)
(* proposal against an account, the exchange constraints of its symbol, the *)
(* open positions, the pending entries and the frozen parameters.           *)
(*                                                                         *)
(* Prices and quantities are integers, amounts of money integers in         *)
(* 1/Unit of price times quantity, percentages integers over Den, so that   *)
(* every quotient of the code is compared exactly by cross-multiplication.  *)
(* NotFinite stands for a NaN or an infinite Decimal.                       *)
(***************************************************************************)
EXTENDS Integers, Sequences, FiniteSets, SequencesExt

CONSTANTS
    Unit,                   \* account units per unit of price times quantity
    Den,                    \* denominator of the percentages
    FrozenRisk,             \* DEFAULT_RISK_PER_TRADE_PCT, over Den
    FrozenPortfolioRisk,    \* DEFAULT_MAX_PORTFOLIO_RISK_PCT, over Den
    FrozenLeverage,         \* DEFAULT_MAX_LEVERAGE
    FrozenPositions,        \* DEFAULT_MAX_OPEN_POSITIONS
    NotFinite               \* model value

ASSUME RiskConstants ==
    /\ {Unit, Den, FrozenRisk, FrozenPortfolioRisk, FrozenLeverage, FrozenPositions}
          \subseteq Nat \ {0}
    /\ NotFinite \notin Int

IsFinite(v) == v \in Int
Positive(v) == IsFinite(v) /\ v > 0

\* to_integral_value(ROUND_DOWN) truncates towards zero.
Truncate(a, b) == IF a >= 0 THEN a \div b ELSE -((-a) \div b)
FloorToStep(num, den, step) == Truncate(num, den * step) * step
RoundToTick(price, tick) == Truncate(price, tick) * tick

-----------------------------------------------------------------------------
(* validation.py: each check is the set of the reason codes it returns.    *)
DATA == "RC_REJECT_DATA"
If(bad, code) == IF bad THEN {code} ELSE {}

ValidateParameters(p) ==
    If(\/ \E lim \in {<<p.risk, FrozenRisk>>, <<p.portfolio, FrozenPortfolioRisk>>,
                      <<p.leverage, FrozenLeverage>>} :
              ~Positive(lim[1]) \/ lim[1] > lim[2]
       \/ p.maxOpen <= 0 \/ p.maxOpen > FrozenPositions
       \/ ~IsFinite(p.tolerance) \/ p.tolerance < 0, DATA)

ValidateAccount(a) == If(~Positive(a.equity) \/ ~IsFinite(a.margin) \/ a.margin < 0, DATA)

\* validate_symbol_constraints_core of the trading constraints
ValidateConstraints(k) ==
    If(\/ \E v \in {k.tick, k.step, k.minQty} : ~Positive(v)
       \/ ~IsFinite(k.minNotional) \/ k.minNotional < 0
       \/ k.minQty < k.step \/ k.minQty % k.step # 0, DATA)

ValidateProposal(t) ==
    If(\/ t.side # "LONG" \/ ~Positive(t.entry) \/ ~Positive(t.stop)
       \/ \E v \in t.atr : ~Positive(v)
       \/ t.data # "OK" \/ t.bot # "ACTIVE", DATA)
    \cup If(t.kind # "LONG_ENTRY" \/ ~t.approved, "RC_REJECT_NO_SIGNAL")

ValidateOpenPositions(ps) ==
    If(\/ \E i, j \in DOMAIN ps : i # j /\ ps[i].symbol = ps[j].symbol
       \/ \E i \in DOMAIN ps :
             \/ \E v \in {ps[i].entry, ps[i].size, ps[i].initial, ps[i].trail, ps[i].mark} :
                    ~Positive(v)
             \/ ps[i].initial >= ps[i].entry, DATA)

\* One enabled limit on a loss: a limit is the set of its value, empty where disabled.
LossReached(limit, loss, base) ==
    \E pct \in limit : \/ ~IsFinite(pct) \/ pct < 0 \/ ~IsFinite(loss)
                       \/ loss > 0 /\ loss * Den > pct * base

\* The drawdown limit compares with the peak instead of the equity.
CheckLossLimits(a, p) ==
    If(\/ LossReached(p.dailyLimit, a.dailyLoss, a.equity)
       \/ LossReached(p.weeklyLimit, a.weeklyLoss, a.equity)
       \/ /\ p.drawdownLimit # {}
          /\ \/ ~Positive(a.peak)
             \/ LossReached(p.drawdownLimit, a.peak - a.equity, a.peak), DATA)

ValidateLongStop(entry, stop) == If(stop >= entry, DATA)

-----------------------------------------------------------------------------
(* sizing.py and portfolio.py                                              *)
SumOver(f(_), ps) == SumFunction([i \in DOMAIN ps |-> f(ps[i])])

OpenRisk(pos) ==
    LET stop == IF pos.initial >= pos.trail THEN pos.initial ELSE pos.trail IN
    IF stop >= pos.entry THEN 0 ELSE pos.size * (pos.entry - stop) * Unit
CurrentOpenRisk(ps) == SumOver(OpenRisk, ps)
TotalNotional(ps) == SumOver(LAMBDA pos : pos.size * pos.mark * Unit, ps)

\* Risk budget and risk of a quantity, as numerators over Den.
RiskBudget(equity, p) == equity * p.risk
RiskOf(qty, distance) == qty * distance * Unit * Den

WithinTradeRisk(qty, distance, equity, p) ==
    /\ RiskOf(qty, distance) <= RiskBudget(equity, p)
    /\ RiskOf(qty, distance) * Den <= RiskBudget(equity, p) * (Den + p.tolerance)

\* apply_risk_cap_after_rounding: step down until the risk fits; 0 where it returns None.
ApplyRiskCap(quantity, distance, equity, k, p) ==
    LET Reduced[q \in Nat] ==
          IF q < k.minQty THEN 0
          ELSE IF WithinTradeRisk(q, distance, equity, p) THEN q
          ELSE Reduced[q - k.step]
    IN  Reduced[quantity]

ComputePositionSizing(equity, distance, k, p) ==
    ApplyRiskCap(FloorToStep(RiskBudget(equity, p), Den * distance * Unit, k.step),
                 distance, equity, k, p)

Smaller(a, b) == IF a <= b THEN a ELSE b

\* Mutant: the positions already open are forgotten.
CapForLeverageAlone(quantity, entry, equity, notional, k, p) ==
    Smaller(quantity, FloorToStep(p.leverage * equity, entry * Unit, k.step))

CapForLeverage(quantity, entry, equity, notional, k, p) ==
    LET room == p.leverage * equity - notional IN
    IF notional + quantity * entry * Unit <= p.leverage * equity THEN quantity
    ELSE IF room <= 0 THEN 0
    ELSE Smaller(quantity, FloorToStep(room, entry * Unit, k.step))

CapForMargin(quantity, entry, margin, k, p) ==
    LET room == margin * p.leverage IN
    IF quantity * entry * Unit <= room THEN quantity
    ELSE IF room <= 0 THEN 0
    ELSE Smaller(quantity, FloorToStep(room, entry * Unit, k.step))

\* build_portfolio_snapshot and the three gates on it.
PortfolioGates(t, a, ps, qty, distance, p) ==
    LET projectedRisk == CurrentOpenRisk(ps) + qty * distance * Unit
        notional == qty * t.entry * Unit IN
    IF projectedRisk * Den > a.equity * p.portfolio THEN {"RC_REJECT_RISK_PORTFOLIO"}
    ELSE If(\/ TotalNotional(ps) + notional > p.leverage * a.equity
            \/ notional > a.margin * p.leverage, "RC_REJECT_LEVERAGE")

-----------------------------------------------------------------------------
Reject(codes) == [approved |-> FALSE, reasons |-> codes]

\* The checks on the book, in the order of their early returns.
BookReasons(t, ps, orders, processed, p) ==
    IF t.id \in processed THEN {DATA}
    ELSE IF \/ \E i \in DOMAIN ps : ps[i].symbol = t.symbol
            \/ t.symbol \in orders THEN {"RC_REJECT_DUPLICATE_SYMBOL"}
    ELSE If(Len(ps) >= p.maxOpen, "RC_REJECT_MAX_POSITIONS")

\* The sizing: the quantity after every cap, and why it is rejected.
SizedQuantity(t, a, k, ps, distance, p) ==
    LET sized == ComputePositionSizing(a.equity, distance, k, p)
        levered == CapForLeverage(sized, t.entry, a.equity, TotalNotional(ps), k, p)
    IN  ApplyRiskCap(CapForMargin(levered, t.entry, a.margin, k, p),
                     distance, a.equity, k, p)

SizingReasons(t, a, k, ps, distance, p) ==
    LET qty == SizedQuantity(t, a, k, ps, distance, p) IN
    IF ComputePositionSizing(a.equity, distance, k, p) = 0 THEN {"RC_REJECT_RISK_TRADE"}
    ELSE IF qty = 0 THEN {"RC_REJECT_LEVERAGE"}
    ELSE If(qty * t.entry * Unit < k.minNotional * Unit, "RC_REJECT_RISK_TRADE")

\* RiskEngine.evaluate; orders is the set of symbols with a pending entry order.
Evaluate(t, a, k, ps, orders, processed, p) ==
    LET stop == RoundToTick(t.stop, k.tick)
        distance == t.entry - stop
        qty == SizedQuantity(t, a, k, ps, distance, p) IN
    IF ValidateParameters(p) # {} THEN Reject(ValidateParameters(p))
    ELSE IF ValidateAccount(a) # {} THEN Reject(ValidateAccount(a))
    ELSE IF ValidateConstraints(k) # {} THEN Reject(ValidateConstraints(k))
    ELSE IF ValidateProposal(t) # {} THEN Reject(ValidateProposal(t))
    ELSE IF ValidateOpenPositions(ps) # {} THEN Reject(ValidateOpenPositions(ps))
    ELSE IF CheckLossLimits(a, p) # {} THEN Reject(CheckLossLimits(a, p))
    ELSE IF ValidateLongStop(t.entry, stop) # {} THEN Reject(ValidateLongStop(t.entry, stop))
    ELSE IF BookReasons(t, ps, orders, processed, p) # {}
         THEN Reject(BookReasons(t, ps, orders, processed, p))
    ELSE IF SizingReasons(t, a, k, ps, distance, p) # {}
         THEN Reject(SizingReasons(t, a, k, ps, distance, p))
    ELSE IF PortfolioGates(t, a, ps, qty, distance, p) # {}
         THEN Reject(PortfolioGates(t, a, ps, qty, distance, p))
    ELSE [approved |-> TRUE, reasons |-> {"RC_RISK_APPROVED"},
          quantity |-> qty, stop |-> stop]

=============================================================================
