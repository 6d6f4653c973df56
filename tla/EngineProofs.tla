---------------------------- MODULE EngineProofs ----------------------------
(***************************************************************************)
(* The engines.  For every price range, multiplier and tick: the paper stop *)
(* is at or below the backtest's stop and neither ever falls.  For every    *)
(* question: the risk engine approves the largest size there is, or there   *)
(* is none.  For every run: the backtester's books are right, and the       *)
(* strategy engine's entries rest on what was known at their close.         *)
(***************************************************************************)
EXTENDS TrailingStops, Backtest, StrategyEngine, RiskQuestions,
        FiniteSetTheorems, WellFoundedInduction, TLAPS

\* The inductive invariant: both stops lie on ticks, the paper worker lags, and
\* a gap exit the backtester has not seen yet is one it will see.
IInv ==
    /\ TypeOK
    /\ RoundDownToTick(initial) = initial
    /\ RoundDownToTick(bt.trail) = bt.trail
    /\ RoundDownToTick(paper.stop) = paper.stop
    /\ initial <= paper.stop
    /\ initial <= bt.trail
    /\ bt.effective = bt.trail
    /\ bt.open => paper.stop <= bt.trail /\ paper.highest <= bt.highest
    /\ bt.open /\ ~paper.open => moment = "low" /\ GapStop(candle, bt.effective)

\* Division by the tick.
LEMMA Division ==
    ASSUME NEW p \in Nat
    PROVE  /\ p \div Tick \in Nat
           /\ Tick * (p \div Tick) <= p
           /\ p < Tick * (p \div Tick) + Tick
BY TrailingConstants, SMTT(30)

\* Products with the tick are monotone.
LEMMA TickProduct ==
    ASSUME NEW a \in Nat, NEW b \in Nat, a <= b
    PROVE  Tick * a <= Tick * b
BY TrailingConstants, SMTT(30)

\* round_to_tick yields a natural not above the price ...
LEMMA RoundType ==
    ASSUME NEW p \in Nat
    PROVE  RoundDownToTick(p) \in Nat /\ RoundDownToTick(p) <= p
<1>1. p \div Tick \in Nat /\ Tick * (p \div Tick) <= p
  BY Division
<1>2. Tick \in Nat
  BY TrailingConstants
<1>3. RoundDownToTick(p) = Tick * (p \div Tick)
  BY <1>1, <1>2 DEF RoundDownToTick
<1>4. Tick * (p \div Tick) \in Nat
  BY <1>1, <1>2
<1>5. QED
  BY <1>1, <1>3, <1>4

\* ... keeps the order of prices ...
LEMMA RoundMonotone ==
    ASSUME NEW p \in Nat, NEW q \in Nat, p <= q
    PROVE  RoundDownToTick(p) <= RoundDownToTick(q)
<1> DEFINE a == p \div Tick
           b == q \div Tick
<1>1. a \in Nat /\ b \in Nat /\ Tick \in Nat
  BY Division, TrailingConstants
<1>2. a <= b
  <2>1. SUFFICES ASSUME b + 1 <= a PROVE FALSE
    BY <1>1
  <2>2. Tick * (b + 1) <= Tick * a
    BY <1>1, <2>1, TickProduct
  <2>3. Tick * (b + 1) = Tick * b + Tick
    BY <1>1
  <2>4. Tick * a <= p /\ q < Tick * b + Tick
    BY Division
  <2>5. Tick * a \in Nat /\ Tick * b \in Nat
    BY <1>1
  <2>6. QED
    BY <1>1, <2>2, <2>3, <2>4, <2>5
<1>3. Tick * a <= Tick * b
  BY <1>1, <1>2, TickProduct
<1>4. RoundDownToTick(p) = Tick * a /\ RoundDownToTick(q) = Tick * b
  BY <1>1 DEF RoundDownToTick
<1>5. QED
  BY <1>3, <1>4

\* ... and leaves a price on a tick alone.
LEMMA RoundTwice ==
    ASSUME NEW p \in Nat
    PROVE  RoundDownToTick(RoundDownToTick(p)) = RoundDownToTick(p)
<1> DEFINE a == p \div Tick
<1>1. a \in Nat /\ Tick \in Nat \ {0}
  BY Division, TrailingConstants
<1>2. RoundDownToTick(p) = Tick * a /\ Tick * a \in Nat
  BY <1>1 DEF RoundDownToTick
<1>3. (Tick * a) \div Tick = a
  <2> DEFINE b == (Tick * a) \div Tick
  <2>1. b \in Nat /\ Tick * b <= Tick * a /\ Tick * a < Tick * b + Tick
    BY <1>2, Division
  <2>2. ~(a + 1 <= b)
    <3>1. SUFFICES ASSUME a + 1 <= b PROVE FALSE
      OBVIOUS
    <3>2. Tick * (a + 1) <= Tick * b
      BY <1>1, <2>1, <3>1, TickProduct
    <3>3. Tick * (a + 1) = Tick * a + Tick
      BY <1>1
    <3>4. Tick * b \in Nat
      BY <1>1, <2>1
    <3>5. QED
      BY <1>1, <1>2, <2>1, <3>2, <3>3, <3>4
  <2>3. ~(b + 1 <= a)
    <3>1. SUFFICES ASSUME b + 1 <= a PROVE FALSE
      OBVIOUS
    <3>2. Tick * (b + 1) <= Tick * a
      BY <1>1, <2>1, <3>1, TickProduct
    <3>3. Tick * (b + 1) = Tick * b + Tick
      BY <1>1, <2>1
    <3>4. Tick * b \in Nat
      BY <1>1, <2>1
    <3>5. QED
      BY <1>1, <1>2, <2>1, <3>2, <3>3, <3>4
  <2>4. QED
    BY <1>1, <2>1, <2>2, <2>3
<1>4. QED
  BY <1>1, <1>2, <1>3 DEF RoundDownToTick

-----------------------------------------------------------------------------
\* What update_trailing_stop returns: a stop on a tick, above the initial stop and
\* not below the stop it was given.
LEMMA TrailStopFacts ==
    ASSUME IInv, NEW trail \in Nat, RoundDownToTick(trail) = trail, initial <= trail,
           NEW highest \in Nat, NEW atr \in Nat,
           NEW t, t = TrailStop(trail, highest, atr)
    PROVE  /\ t \in Nat /\ RoundDownToTick(t) = t
           /\ initial <= t /\ trail <= t
           /\ EffectiveStop(t) = t
<1> DEFINE c == highest - TrailAtrMult * atr
           m == Higher(Higher(trail, c), initial)
<1>1. initial \in Nat /\ RoundDownToTick(initial) = initial
  BY DEF IInv, TypeOK
<1>2. c \in Int
  BY TrailingConstants
<1>3. m \in Nat /\ trail <= m /\ initial <= m
  <2> HIDE DEF c
  <2> QED BY <1>1, <1>2 DEF Higher
<1>4. t = RoundDownToTick(m)
  BY DEF TrailStop
<1> HIDE DEF m, c
<1>5. t \in Nat /\ RoundDownToTick(t) = t
  BY <1>3, <1>4, RoundType, RoundTwice
<1>6. initial <= t /\ trail <= t
  <2>1. RoundDownToTick(initial) <= RoundDownToTick(m) /\ RoundDownToTick(trail) <= RoundDownToTick(m)
    BY <1>1, <1>3, RoundMonotone
  <2>2. QED
    BY <1>1, <1>4, <2>1
<1>7. EffectiveStop(t) = t
  BY <1>1, <1>5, <1>6 DEF EffectiveStop, Higher
<1>8. QED
  BY <1>5, <1>6, <1>7

\* ... and the larger its inputs, the larger its result.
LEMMA TrailStopMonotone ==
    ASSUME IInv, NEW s1 \in Nat, NEW s2 \in Nat, s1 <= s2,
           NEW h1 \in Nat, NEW h2 \in Nat, h1 <= h2, NEW atr \in Nat
    PROVE  TrailStop(s1, h1, atr) <= TrailStop(s2, h2, atr)
<1> DEFINE d == TrailAtrMult * atr
           m1 == Higher(Higher(s1, h1 - d), initial)
           m2 == Higher(Higher(s2, h2 - d), initial)
<1>1. initial \in Nat
  BY DEF IInv, TypeOK
<1>2. d \in Nat
  BY TrailingConstants
<1>3. m1 \in Nat /\ m2 \in Nat /\ m1 <= m2
  <2> HIDE DEF d
  <2> QED BY <1>1, <1>2 DEF Higher
<1>4. TrailStop(s1, h1, atr) = RoundDownToTick(m1) /\ TrailStop(s2, h2, atr) = RoundDownToTick(m2)
  BY DEF TrailStop
<1> HIDE DEF m1, m2
<1>5. QED
  BY <1>3, <1>4, RoundMonotone

-----------------------------------------------------------------------------
\* The entry fill establishes the invariant.
LEMMA InitIInv == Init => IInv
<1> SUFFICES ASSUME Init PROVE IInv
  OBVIOUS
<1>1. PICK fill \in Prices, atr \in Atrs :
        /\ fill > InitialAtrMult * atr
        /\ initial = RoundDownToTick(fill - InitialAtrMult * atr)
        /\ LET trail == RoundDownToTick(Higher(fill - TrailAtrMult * atr, initial))
           IN  /\ paper = [open |-> TRUE, stop |-> EffectiveStop(trail), highest |-> fill]
               /\ bt = [open |-> TRUE, trail |-> trail,
                        effective |-> EffectiveStop(trail), highest |-> fill]
  BY DEF Init
<1> DEFINE first == fill - InitialAtrMult * atr
           m == Higher(fill - TrailAtrMult * atr, initial)
           trail == RoundDownToTick(m)
<1>2. fill \in Nat /\ atr \in Nat
  BY TrailingConstants
<1>3. first \in Nat /\ fill - TrailAtrMult * atr \in Int
  BY <1>1, <1>2, TrailingConstants
<1>4. initial \in Nat /\ RoundDownToTick(initial) = initial
  <2> HIDE DEF first
  <2>1. initial = RoundDownToTick(first)
    BY <1>1 DEF first
  <2>2. QED
    BY <1>3, <2>1, RoundType, RoundTwice
<1>5. m \in Nat /\ initial <= m
  BY <1>3, <1>4 DEF Higher
<1>6. /\ paper = [open |-> TRUE, stop |-> EffectiveStop(trail), highest |-> fill]
      /\ bt = [open |-> TRUE, trail |-> trail,
               effective |-> EffectiveStop(trail), highest |-> fill]
  BY <1>1
<1> HIDE DEF m
<1>7. trail \in Nat /\ RoundDownToTick(trail) = trail /\ initial <= trail
  <2>1. RoundDownToTick(initial) <= RoundDownToTick(m)
    BY <1>4, <1>5, RoundMonotone
  <2>2. QED
    BY <1>4, <1>5, <2>1, RoundType, RoundTwice
<1> HIDE DEF trail
<1>8. EffectiveStop(trail) = trail
  BY <1>4, <1>7 DEF EffectiveStop, Higher
<1>9. TypeOK
  BY <1>2, <1>4, <1>6, <1>7, <1>8 DEF Init, TypeOK
<1>10. QED
  BY <1>2, <1>4, <1>6, <1>7, <1>8, <1>9 DEF IInv

\* A new candle: a gap through the paper stop is a gap through the backtest's.
LEMMA DayOpensIInv == IInv /\ DayOpens => IInv'
<1> SUFFICES ASSUME IInv, DayOpens PROVE IInv'
  OBVIOUS
<1>1. /\ paper'.stop = paper.stop /\ paper'.highest = paper.highest
      /\ paper'.open = (paper.open /\ ~GapStop(candle', paper.stop))
      /\ paper' \in [open : BOOLEAN, stop : Nat, highest : Nat]
  BY DEF IInv, TypeOK, DayOpens
<1>2. candle' \in StopCandles /\ initial' = initial /\ bt' = bt /\ moment' = "low"
  BY DEF DayOpens
<1>3. moment = "open"
  BY DEF DayOpens
<1>4. TypeOK'
  BY <1>1, <1>2 DEF IInv, TypeOK
<1>5. candle'.open \in Nat /\ paper.stop \in Nat /\ bt.effective \in Nat
  BY <1>2, TrailingConstants DEF IInv, TypeOK, StopCandles
<1>6. bt.open /\ ~paper'.open => GapStop(candle', bt.effective)
  BY <1>1, <1>3, <1>5 DEF IInv, GapStop
<1>7. QED
  BY <1>1, <1>2, <1>4, <1>6 DEF IInv, RoundDownToTick, GapStop

\* The day's low: what stops the paper position stops the backtest's too.
LEMMA DayTradesIInv == IInv /\ DayTrades => IInv'
<1> SUFFICES ASSUME IInv, DayTrades PROVE IInv'
  OBVIOUS
<1>1. /\ paper'.stop = paper.stop /\ paper'.highest = paper.highest
      /\ paper'.open = (paper.open /\ ~LowStop(candle, paper.stop))
      /\ paper' \in [open : BOOLEAN, stop : Nat, highest : Nat]
  BY DEF IInv, TypeOK, DayTrades
<1>2. /\ bt'.trail = bt.trail /\ bt'.effective = bt.effective /\ bt'.highest = bt.highest
      /\ bt'.open = (bt.open /\ ~GapStop(candle, bt.effective) /\ ~LowStop(candle, bt.effective))
      /\ bt' \in [open : BOOLEAN, trail : Nat, effective : Nat, highest : Nat]
  BY DEF IInv, TypeOK, DayTrades
<1>3. candle' = candle /\ initial' = initial /\ moment' = "close" /\ moment = "low"
  BY DEF DayTrades
<1>4. TypeOK'
  BY <1>1, <1>2, <1>3 DEF IInv, TypeOK
<1>5. candle.low \in Nat /\ paper.stop \in Nat /\ bt.effective \in Nat
  BY TrailingConstants DEF IInv, TypeOK, StopCandles
<1>6. bt'.open => paper'.open
  BY <1>1, <1>2, <1>5 DEF IInv, LowStop
<1>7. QED
  BY <1>1, <1>2, <1>3, <1>4, <1>6 DEF IInv, RoundDownToTick

\* The daily close, missed or not.
LEMMA DayClosesIInv ==
    ASSUME IInv, NEW atr \in Atrs, NEW missed \in BOOLEAN, DayCloses(atr, missed)
    PROVE  IInv' /\ paper'.stop >= paper.stop /\ bt'.effective >= bt.effective
<1> DEFINE close == candle.close
           hp == HighestClose(paper.highest, close)
           hb == HighestClose(bt.highest, close)
           sp == TrailStop(paper.stop, hp, atr)
           sb == TrailStop(bt.trail, hb, atr)
<1>1. /\ close \in Nat /\ atr \in Nat
      /\ paper \in [open : BOOLEAN, stop : Nat, highest : Nat]
      /\ bt \in [open : BOOLEAN, trail : Nat, effective : Nat, highest : Nat]
      /\ initial \in Nat
  BY TrailingConstants DEF IInv, TypeOK, StopCandles
<1>2. hp \in Nat /\ hb \in Nat /\ (bt.open => hp <= hb)
  BY <1>1 DEF IInv, HighestClose, Higher
<1>0. /\ paper.stop \in Nat /\ RoundDownToTick(paper.stop) = paper.stop /\ initial <= paper.stop
      /\ bt.trail \in Nat /\ RoundDownToTick(bt.trail) = bt.trail /\ initial <= bt.trail
  BY <1>1 DEF IInv
<1> HIDE DEF hp, hb
<1>3. /\ sp \in Nat /\ RoundDownToTick(sp) = sp /\ initial <= sp /\ EffectiveStop(sp) = sp
      /\ paper.stop <= sp
  <2> HIDE DEF sp
  <2>1. sp = TrailStop(paper.stop, hp, atr)
    BY DEF sp
  <2>2. QED
    BY <1>0, <1>1, <1>2, <2>1, TrailStopFacts
<1>4. /\ sb \in Nat /\ RoundDownToTick(sb) = sb /\ initial <= sb /\ EffectiveStop(sb) = sb
      /\ bt.trail <= sb
  <2> HIDE DEF sb
  <2>1. sb = TrailStop(bt.trail, hb, atr)
    BY DEF sb
  <2>2. QED
    BY <1>0, <1>1, <1>2, <2>1, TrailStopFacts
<1>5. bt.open => sp <= sb
  BY <1>1, <1>2, TrailStopMonotone DEF IInv
<1>6. bt' = IF bt.open
            THEN [bt EXCEPT !.trail = sb, !.effective = EffectiveStop(sb), !.highest = hb]
            ELSE bt
  BY DEF DayCloses, BacktesterUpdate, hb
<1>7. \/ paper' = paper
      \/ paper' = [paper EXCEPT !.stop = EffectiveStop(sp), !.highest = hp]
  BY DEF DayCloses, PaperUpdate, hp
<1>8. candle' = candle /\ initial' = initial /\ moment' = "open" /\ moment = "close"
  BY DEF DayCloses
<1> HIDE DEF sp, sb
<1>9. /\ paper' \in [open : BOOLEAN, stop : Nat, highest : Nat]
      /\ paper'.open = paper.open
      /\ \/ paper'.stop = paper.stop /\ paper'.highest = paper.highest
         \/ paper'.stop = sp /\ paper'.highest = hp
  BY <1>1, <1>2, <1>3, <1>7
<1>10. /\ bt' \in [open : BOOLEAN, trail : Nat, effective : Nat, highest : Nat]
       /\ bt'.open = bt.open
       /\ bt.open => bt'.trail = sb /\ bt'.effective = sb /\ bt'.highest = hb
       /\ ~bt.open => bt' = bt
  BY <1>1, <1>2, <1>4, <1>6
<1>11. TypeOK'
  BY <1>8, <1>9, <1>10 DEF IInv, TypeOK
<1>12. bt.open => bt.highest <= hb
  BY <1>1 DEF HighestClose, Higher, hb
<1>13. bt'.open => paper'.stop <= bt'.trail /\ paper'.highest <= bt'.highest
  BY <1>1, <1>2, <1>3, <1>4, <1>5, <1>9, <1>10, <1>12 DEF IInv
<1>14. bt'.effective >= bt.effective /\ paper'.stop >= paper.stop
  BY <1>1, <1>3, <1>4, <1>9, <1>10 DEF IInv
<1>15. /\ RoundDownToTick(bt'.trail) = bt'.trail /\ bt'.effective = bt'.trail
       /\ RoundDownToTick(paper'.stop) = paper'.stop
       /\ initial <= paper'.stop /\ initial <= bt'.trail
  BY <1>3, <1>4, <1>9, <1>10 DEF IInv
<1>16. bt.open => paper.open
  BY <1>8 DEF IInv
<1>17. QED
  BY <1>8, <1>9, <1>10, <1>11, <1>13, <1>14, <1>15, <1>16 DEF IInv, RoundDownToTick

\* Every step keeps the invariant.
LEMMA NextIInv == IInv /\ [Next]_vars => IInv'
<1> SUFFICES ASSUME IInv, [Next]_vars PROVE IInv'
  OBVIOUS
<1>1. CASE Next
  BY <1>1, DayOpensIInv, DayTradesIInv, DayClosesIInv DEF Next
<1>2. CASE UNCHANGED vars
  BY <1>2 DEF vars, IInv, TypeOK, RoundDownToTick, GapStop
<1>3. QED
  BY <1>1, <1>2

\* The invariant holds in every reachable state.
THEOREM Invariance == Spec => []IInv
BY InitIInv, NextIInv, PTL DEF Spec

\* Every price stays a natural number.
THEOREM TypeCorrect == Spec => []TypeOK
<1>1. IInv => TypeOK
  BY DEF IInv
<1>2. QED
  BY Invariance, <1>1, PTL

\* The paper worker is never stopped out of a position the backtest still holds, and
\* its stop lies between the initial stop and the backtest's stop.
THEOREM PaperFollows == Spec => []PaperFollowsBacktest
<1>1. IInv => PaperFollowsBacktest
  BY DEF IInv, PaperFollowsBacktest, PaperOutlivesBacktest, PaperStopAtMostBacktest
<1>2. QED
  BY Invariance, <1>1, PTL

\* update_trailing_stop never lowers a stop, whatever the ATR and the tick.
THEOREM Ratchet == Spec => StopsRatchet
<1>1. IInv /\ [Next]_vars => [paper'.stop >= paper.stop /\ bt'.effective >= bt.effective]_vars
  <2> SUFFICES ASSUME IInv, Next
               PROVE  paper'.stop >= paper.stop /\ bt'.effective >= bt.effective
    OBVIOUS
  <2>0. /\ paper \in [open : BOOLEAN, stop : Nat, highest : Nat]
        /\ bt \in [open : BOOLEAN, trail : Nat, effective : Nat, highest : Nat]
    BY DEF IInv, TypeOK
  <2>1. CASE DayOpens \/ DayTrades
    BY <2>0, <2>1 DEF DayOpens, DayTrades
  <2>2. ASSUME NEW atr \in Atrs, NEW missed \in BOOLEAN, DayCloses(atr, missed)
        PROVE  paper'.stop >= paper.stop /\ bt'.effective >= bt.effective
    BY <2>2, DayClosesIInv
  <2>3. QED
    BY <2>1, <2>2 DEF Next
<1>2. QED
  BY Invariance, <1>1, PTL DEF Spec, StopsRatchet

-----------------------------------------------------------------------------
(* The risk engine: what its arithmetic computes.                          *)

\* Division by a positive number.
LEMMA Quotient ==
    ASSUME NEW a \in Nat, NEW b \in Nat, b > 0
    PROVE  /\ a \div b \in Nat
           /\ b * (a \div b) <= a
           /\ a < b * (a \div b) + b
<1>1. PICK d \in Int : d = a \div b
  OBVIOUS
<1>2. PICK m \in Int : m = a % b /\ 0 <= m /\ m < b
  OBVIOUS
<1>3. a = b * d + m
  BY <1>1, <1>2
<1>4. d >= 0
  <2>1. ASSUME d <= -1 PROVE FALSE
    <3>1. b * d <= -b
      BY <2>1
    <3>. QED
      BY <1>2, <1>3, <3>1
  <2>. QED
    BY <2>1
<1>. QED
  BY <1>1, <1>2, <1>3, <1>4

\* A quantity is a whole number of steps.
Steps(n, step) == \E m \in Nat : n = m * step

\* Whole numbers of steps are those without a remainder.
LEMMA StepsAreMultiples ==
    ASSUME NEW n \in Nat, NEW step \in Nat, step > 0
    PROVE  n % step = 0 <=> Steps(n, step)
<1>1. PICK d \in Int : d = n \div step
  OBVIOUS
<1>2. PICK r \in Int : r = n % step /\ 0 <= r /\ r < step
  OBVIOUS
<1>3. n = step * d + r
  BY <1>1, <1>2
<1>4. d \in Nat
  BY <1>1, Quotient
<1>5. ASSUME n % step = 0 PROVE Steps(n, step)
  <2>1. n = d * step
    BY <1>2, <1>3, <1>5
  <2>. QED
    BY <1>4, <2>1 DEF Steps
<1>6. ASSUME Steps(n, step) PROVE n % step = 0
  <2>1. PICK m \in Nat : n = m * step
    BY <1>6 DEF Steps
  <2>2. r = (m - d) * step
    BY <1>3, <1>4, <2>1
  <2>3. CASE m - d <= 0
    <3>1. (m - d) * step <= 0
      BY <1>4, <2>3
    <3>. QED
      BY <1>2, <2>2, <3>1
  <2>4. CASE m - d >= 1
    <3>1. (m - d) * step >= step
      BY <1>4, <2>4
    <3>. QED
      BY <1>2, <2>2, <3>1
  <2>. QED
    BY <1>4, <2>3, <2>4
<1>. QED
  BY <1>5, <1>6

\* Rounding down to the step gives the largest whole number of steps whose cost the
\* amount covers (round_down_to_step).
LEMMA FloorIsLargest ==
    ASSUME NEW num \in Nat, NEW c \in Nat, c > 0, NEW step \in Nat, step > 0
    PROVE  /\ FloorToStep(num, c, step) \in Nat
           /\ Steps(FloorToStep(num, c, step), step)
           /\ FloorToStep(num, c, step) * c <= num
           /\ \A n \in Nat : Steps(n, step) /\ n * c <= num => n <= FloorToStep(num, c, step)
<1> DEFINE b == c * step
           d == num \div b
<1>1. b \in Nat /\ b > 0
  OBVIOUS
<1>2. d \in Nat /\ b * d <= num /\ num < b * d + b
  BY <1>1, Quotient
<1>3. FloorToStep(num, c, step) = d * step
  BY DEF FloorToStep, Truncate
<1>4. d * step \in Nat
  BY <1>2
<1>5. (d * step) * c <= num
  BY <1>2
<1>6. ASSUME NEW n \in Nat, Steps(n, step), n * c <= num PROVE n <= d * step
  <2>1. PICK m \in Nat : n = m * step
    BY <1>6 DEF Steps
  <2> HIDE DEF d
  <2>2. CASE m <= d
    BY <1>2, <2>1, <2>2
  <2>3. CASE m >= d + 1
    <3>1. b * m >= b * (d + 1)
      <4> HIDE DEF b
      <4>. QED
        BY <1>1, <1>2, <2>3
    <3>2. b * (d + 1) = b * d + b
      BY <1>2
    <3>3. b * m = n * c
      BY <2>1
    <3> HIDE DEF b
    <3>. QED
      BY <1>1, <1>2, <1>6, <3>1, <3>2, <3>3
  <2>. QED
    BY <1>2, <2>2, <2>3
<1> HIDE DEF d
<1>. QED
  BY <1>2, <1>3, <1>4, <1>5, <1>6 DEF Steps

\* One turn of the loop of apply_risk_cap_after_rounding, as a function of all quantities.
CapTurn(f, distance, equity, k, p) ==
    [q \in Nat |-> IF q < k.minQty THEN 0
                   ELSE IF WithinTradeRisk(q, distance, equity, p) THEN q
                   ELSE f[q - k.step]]

\* The loop ends: the function it computes is the largest quantity on the way down that
\* fits, or zero.
LEMMA CapLoopEnds ==
    ASSUME NEW distance, NEW equity, NEW k, NEW p,
           k.step \in Nat, k.step > 0, k.minQty \in Nat, k.minQty >= k.step
    PROVE  \E f : f = CapTurn(f, distance, equity, k, p)
<1> DEFINE W(v) == WithinTradeRisk(v, distance, equity, p)
           s == k.step
           mq == k.minQty
           Down(q) == {v \in Nat : v >= mq /\ v <= q /\ W(v) /\ \E j \in Nat : v + j * s = q}
           Top(S) == IF S = {} THEN 0 ELSE CHOOSE m \in S : \A n \in S : n <= m
           f == [q \in Nat |-> Top(Down(q))]
           Value(q) == IF q < mq THEN 0 ELSE IF W(q) THEN q ELSE f[q - s]
<1>1. s \in Nat /\ s > 0 /\ mq \in Nat /\ mq >= s
  OBVIOUS
<1> HIDE DEF W, s, mq
<1>2. ASSUME NEW q \in Nat PROVE f[q] = Value(q)
  <2>1. f[q] = Top(Down(q))
    BY Zenon
  <2>2. CASE q < mq
    <3>1. Down(q) = {}
      BY <1>1, <2>2
    <3> HIDE DEF Down
    <3>. QED
      BY <2>1, <2>2, <3>1
  <2>3. CASE q >= mq /\ W(q)
    <3>1. q \in Down(q)
      <4>1. q + 0 * s = q
        BY <1>1
      <4>. QED
        BY <2>3, <4>1
    <3>2. \A n \in Down(q) : n \in Nat /\ n <= q
      OBVIOUS
    <3> HIDE DEF Down
    <3>3. Top(Down(q)) = q
      BY <3>1, <3>2
    <3> HIDE DEF f, Top
    <3>. QED
      BY <2>1, <2>3, <3>3, <1>1
  <2>4. CASE q >= mq /\ ~W(q)
    <3>1. q - s \in Nat
      BY <1>1, <2>4
    <3>2. ASSUME NEW v \in Down(q) PROVE v \in Down(q - s)
      <4>1. PICK j \in Nat : v + j * s = q
        OBVIOUS
      <4>2. v # q
        BY <2>4
      <4>3. j # 0
        BY <4>1, <4>2, <1>1
      <4>4. j - 1 \in Nat /\ (j - 1) * s = j * s - s
        BY <4>3, <1>1
      <4>5. v + (j - 1) * s = q - s /\ (j - 1) * s >= 0
        BY <4>1, <4>4, <1>1
      <4>6. (j - 1) * s \in Int
        BY <4>4, <1>1
      <4>7. v <= q - s
        BY <4>5, <4>6, <1>1
      <4>. QED
        BY <4>4, <4>5, <4>7
    <3>3. ASSUME NEW v \in Down(q - s) PROVE v \in Down(q)
      <4>1. PICK j \in Nat : v + j * s = q - s
        OBVIOUS
      <4>2. j + 1 \in Nat /\ (j + 1) * s = j * s + s
        BY <1>1
      <4>3. v + (j + 1) * s = q
        BY <4>1, <4>2, <1>1
      <4>4. v \in Nat /\ v >= mq /\ W(v) /\ v <= q - s
        OBVIOUS
      <4>5. v <= q
        BY <4>4, <1>1
      <4> DEFINE i == j + 1
      <4>6. i \in Nat /\ v + i * s = q
        BY <4>2, <4>3
      <4> HIDE DEF i
      <4>. QED
        BY <4>4, <4>5, <4>6
    <3> HIDE DEF Down
    <3>4. Down(q) = Down(q - s)
      BY <3>2, <3>3
    <3>5. f[q - s] = Top(Down(q - s))
      BY <3>1, Zenon
    <3> HIDE DEF f, Top
    <3>. QED
      BY <2>1, <2>4, <3>4, <3>5, <1>1
  <2> HIDE DEF f
  <2>. QED
    BY <2>2, <2>3, <2>4, <1>1
<1>3. f = [q \in Nat |-> Value(q)]
  <2> HIDE DEF Value, Top, Down
  <2>1. f = [q \in Nat |-> f[q]]
    BY Zenon
  <2> HIDE DEF f
  <2>. QED
    BY <1>2, <2>1, Zenon
<1>4. f = CapTurn(f, distance, equity, k, p)
  <2> HIDE DEF f
  <2>. QED
    BY <1>3 DEF CapTurn, W, s, mq
<1>. QED
  BY <1>4

\* The risk cap leaves a quantity alone that fits, and drops one below the minimum.
LEMMA RiskCap ==
    ASSUME NEW distance, NEW equity, NEW k, NEW p, NEW n \in Nat,
           k.step \in Nat, k.step > 0, k.minQty \in Nat, k.minQty >= k.step
    PROVE  /\ n < k.minQty => ApplyRiskCap(n, distance, equity, k, p) = 0
           /\ n >= k.minQty /\ WithinTradeRisk(n, distance, equity, p)
                 => ApplyRiskCap(n, distance, equity, k, p) = n
<1> DEFINE f == CHOOSE g : g = CapTurn(g, distance, equity, k, p)
<1>1. f = CapTurn(f, distance, equity, k, p)
  BY CapLoopEnds
<1>2. ApplyRiskCap(n, distance, equity, k, p) = f[n]
  BY DEF ApplyRiskCap, CapTurn
<1> HIDE DEF f
<1>3. f[n] = IF n < k.minQty THEN 0
             ELSE IF WithinTradeRisk(n, distance, equity, p) THEN n ELSE f[n - k.step]
  <2>1. CapTurn(f, distance, equity, k, p)[n] =
            IF n < k.minQty THEN 0
            ELSE IF WithinTradeRisk(n, distance, equity, p) THEN n ELSE f[n - k.step]
    BY Zenon DEF CapTurn
  <2>. QED
    BY <1>1, <2>1
<1>. QED
  BY <1>2, <1>3

\* What a cap promises: r is a whole number of steps up to n, affordable if it is not zero,
\* and nothing affordable up to n is larger.
CapOK(r, n, step, c, room) ==
    /\ r \in Nat /\ Steps(r, step) /\ r <= n
    /\ r = 0 \/ r * c <= room
    /\ \A x \in Nat : Steps(x, step) /\ x <= n /\ x * c <= room => x <= r

\* A cap that keeps what is affordable and otherwise rounds the room down.
LEMMA CapWorks ==
    ASSUME NEW n \in Nat, NEW step \in Nat, step > 0, Steps(n, step), NEW c \in Nat, c > 0,
           NEW room \in Int, NEW r,
           r = IF n * c <= room THEN n
               ELSE IF room <= 0 THEN 0 ELSE Smaller(n, FloorToStep(room, c, step))
    PROVE  CapOK(r, n, step, c, room)
<1>1. Steps(0, step)
  <2>1. 0 = 0 * step
    OBVIOUS
  <2>. QED
    BY <2>1 DEF Steps
<1>2. CASE n * c <= room
  <2>1. r = n
    BY <1>2
  <2>2. r \in Nat /\ Steps(r, step) /\ r <= n /\ r * c <= room
    <3>1. n <= n
      OBVIOUS
    <3>. QED
      BY <1>2, <2>1, <3>1, Zenon
  <2>3. \A x \in Nat : Steps(x, step) /\ x <= n /\ x * c <= room => x <= r
    BY <2>1, Zenon
  <2>. QED
    BY <2>2, <2>3, Zenon DEF CapOK
<1>3. CASE ~(n * c <= room) /\ room <= 0
  <2>1. r = 0
    BY <1>3
  <2>2. ASSUME NEW x \in Nat, x * c <= room PROVE x <= 0
    <3>1. ASSUME x >= 1 PROVE FALSE
      <4>1. x * c >= c /\ x * c \in Int
        BY <3>1
      <4>. QED
        BY <1>3, <2>2, <4>1
    <3>. QED
      BY <3>1
  <2>3. 0 \in Nat /\ 0 <= n
    OBVIOUS
  <2>. QED
    BY <1>1, <2>1, <2>2, <2>3, Zenon DEF CapOK
<1>4. CASE ~(n * c <= room) /\ ~(room <= 0)
  <2>1. room \in Nat
    BY <1>4
  <2> DEFINE g == FloorToStep(room, c, step)
  <2>2. /\ g \in Nat /\ Steps(g, step) /\ g * c <= room
        /\ \A x \in Nat : Steps(x, step) /\ x * c <= room => x <= g
    BY <2>1, FloorIsLargest
  <2>3. r = Smaller(n, g)
    BY <1>4
  <2> HIDE DEF g
  <2>4. CASE n <= g
    <3>1. n * c <= g * c /\ n * c \in Int /\ g * c \in Int
      BY <2>2, <2>4
    <3>. QED
      BY <1>4, <2>2, <3>1
  <2>5. CASE ~(n <= g)
    <3>1. r = g
      BY <2>3, <2>5 DEF Smaller
    <3>. QED
      BY <2>2, <2>5, <3>1 DEF CapOK
  <2>. QED
    BY <2>4, <2>5
<1>. QED
  BY <1>2, <1>3, <1>4

\* cap_quantity_for_leverage and cap_quantity_for_margin are such caps.
LEMMA LeverageCap ==
    ASSUME NEW n \in Nat, NEW entry \in Nat, entry > 0, NEW equity \in Nat, NEW notional \in Nat,
           NEW k, NEW p, k.step \in Nat, k.step > 0, p.leverage \in Nat, Steps(n, k.step)
    PROVE  CapOK(CapForLeverage(n, entry, equity, notional, k, p), n, k.step, entry * Unit,
                 p.leverage * equity - notional)
<1> DEFINE c == entry * Unit
           m == p.leverage * equity
           room == m - notional
<1>1. Unit \in Nat /\ Unit > 0
  BY RiskConstants
<1>2. c \in Nat /\ c > 0 /\ m \in Int /\ room \in Int
  BY <1>1
<1>3. (n * entry) * Unit = n * c
  BY <1>1
<1>4. CapForLeverage(n, entry, equity, notional, k, p) =
          IF notional + (n * entry) * Unit <= m THEN n
          ELSE IF room <= 0 THEN 0 ELSE Smaller(n, FloorToStep(room, c, k.step))
  BY DEF CapForLeverage
<1> HIDE DEF c, m
<1>5. n * c \in Int
  BY <1>2
<1>6. notional + (n * entry) * Unit <= m <=> n * c <= room
  BY <1>2, <1>3, <1>5
<1>7. CapForLeverage(n, entry, equity, notional, k, p) =
          IF n * c <= room THEN n
          ELSE IF room <= 0 THEN 0 ELSE Smaller(n, FloorToStep(room, c, k.step))
  BY <1>4, <1>6
<1>8. CapOK(CapForLeverage(n, entry, equity, notional, k, p), n, k.step, c, room)
  <2> HIDE DEF room
  <2>. QED
    BY <1>2, <1>7, CapWorks
<1>. QED
  BY <1>8 DEF c, m

\* The cap for the margin.
LEMMA MarginCap ==
    ASSUME NEW n \in Nat, NEW entry \in Nat, entry > 0, NEW margin \in Nat,
           NEW k, NEW p, k.step \in Nat, k.step > 0, p.leverage \in Nat, Steps(n, k.step)
    PROVE  CapOK(CapForMargin(n, entry, margin, k, p), n, k.step, entry * Unit,
                 p.leverage * margin)
<1> DEFINE c == entry * Unit
           room == p.leverage * margin
<1>1. Unit \in Nat /\ Unit > 0
  BY RiskConstants
<1>2. c \in Nat /\ c > 0 /\ room \in Int
  BY <1>1
<1>3. (n * entry) * Unit = n * c /\ margin * p.leverage = room
  BY <1>1
<1>4. CapForMargin(n, entry, margin, k, p) =
          IF n * c <= room THEN n
          ELSE IF room <= 0 THEN 0 ELSE Smaller(n, FloorToStep(room, c, k.step))
  BY <1>3 DEF CapForMargin
<1>5. CapOK(CapForMargin(n, entry, margin, k, p), n, k.step, c, room)
  <2> HIDE DEF room, c
  <2>. QED
    BY <1>2, <1>4, CapWorks
<1>. QED
  BY <1>5

\* A quantity within the risk budget is within it after rounding, tolerance included.
LEMMA BudgetIsEnough ==
    ASSUME NEW n \in Nat, NEW distance \in Nat, NEW equity \in Nat, NEW p,
           p.risk \in Nat, p.tolerance \in Nat,
           n * (Den * distance * Unit) <= RiskBudget(equity, p)
    PROVE  WithinTradeRisk(n, distance, equity, p)
<1>1. Unit \in Nat /\ Den \in Nat
  BY RiskConstants
<1> DEFINE b == RiskBudget(equity, p)
           r == RiskOf(n, distance)
<1>2. b \in Nat
  BY DEF RiskBudget
<1>3. r = n * (Den * distance * Unit)
  BY <1>1 DEF RiskOf
<1>4. r \in Nat
  BY <1>1 DEF RiskOf
<1>5. r <= b
  BY <1>3
<1> HIDE DEF b, r
<1>6. r * Den <= b * Den /\ b * Den \in Nat /\ r * Den \in Nat
  BY <1>1, <1>2, <1>4, <1>5
<1>7. b * (Den + p.tolerance) = b * Den + b * p.tolerance /\ b * p.tolerance \in Nat
  BY <1>1, <1>2
<1>8. r * Den <= b * (Den + p.tolerance)
  BY <1>6, <1>7
<1>. QED
  BY <1>5, <1>8 DEF WithinTradeRisk, b, r

\* The numbers of a question that may be asked.
Numbers(t, a, k, ps, distance, p) ==
    /\ t.entry \in Nat /\ t.entry > 0 /\ distance \in Nat /\ distance > 0
    /\ a.equity \in Nat /\ a.margin \in Nat
    /\ k.step \in Nat /\ k.step > 0 /\ k.minQty \in Nat /\ k.minQty >= k.step
    /\ p.risk \in Nat /\ p.tolerance \in Nat /\ p.leverage \in Nat
    /\ TotalNotional(ps) \in Nat

\* A quantity fits all limits of a size.
Fits(n, t, a, k, ps, distance, p) ==
    /\ n \in Nat /\ n >= k.minQty /\ Steps(n, k.step)
    /\ n * (Den * distance * Unit) <= RiskBudget(a.equity, p)
    /\ n * (t.entry * Unit) <= p.leverage * a.equity - TotalNotional(ps)
    /\ n * (t.entry * Unit) <= p.leverage * a.margin

\* The caps, taken one after the other, end at the largest quantity that fits all of them.
LEMMA SizedIsLargest ==
    ASSUME NEW t, NEW a, NEW k, NEW ps, NEW distance, NEW p, Numbers(t, a, k, ps, distance, p)
    PROVE  LET qty == SizedQuantity(t, a, k, ps, distance, p) IN
           /\ qty \in Nat
           /\ qty # 0 => Fits(qty, t, a, k, ps, distance, p)
           /\ \A n : Fits(n, t, a, k, ps, distance, p) => n <= qty
           /\ ComputePositionSizing(a.equity, distance, k, p) = 0 => qty = 0
<1> DEFINE b == RiskBudget(a.equity, p)
           d == Den * distance * Unit
           c == t.entry * Unit
           lr == p.leverage * a.equity - TotalNotional(ps)
           mr == p.leverage * a.margin
           x == FloorToStep(b, d, k.step)
           sized == ComputePositionSizing(a.equity, distance, k, p)
           levered == CapForLeverage(sized, t.entry, a.equity, TotalNotional(ps), k, p)
           m == CapForMargin(levered, t.entry, a.margin, k, p)
           qty == SizedQuantity(t, a, k, ps, distance, p)
           F(n) == Fits(n, t, a, k, ps, distance, p)
<1>1. /\ k.step \in Nat /\ k.step > 0 /\ k.minQty \in Nat /\ k.minQty >= k.step /\ k.minQty > 0
      /\ a.equity \in Nat /\ a.margin \in Nat /\ t.entry \in Nat /\ t.entry > 0
      /\ distance \in Nat /\ distance > 0 /\ p.leverage \in Nat /\ p.risk \in Nat
      /\ p.tolerance \in Nat /\ TotalNotional(ps) \in Nat
      /\ Unit \in Nat /\ Unit > 0 /\ Den \in Nat /\ Den > 0
  BY RiskConstants DEF Numbers
<1>2. /\ b \in Nat /\ d \in Nat /\ d > 0 /\ c \in Nat /\ c > 0 /\ lr \in Int /\ mr \in Nat
  <2>1. Den * distance \in Nat /\ Den * distance > 0
    BY <1>1
  <2>2. d \in Nat /\ d > 0
    <3> DEFINE e == Den * distance
    <3> HIDE DEF e
    <3>1. e \in Nat /\ e > 0 => e * Unit \in Nat /\ e * Unit > 0
      BY <1>1
    <3>. QED
      BY <2>1, <3>1 DEF e
  <2>. QED
    BY <1>1, <2>2 DEF RiskBudget
<1>3. /\ x \in Nat /\ Steps(x, k.step) /\ x * d <= b
      /\ \A n \in Nat : Steps(n, k.step) /\ n * d <= b => n <= x
  <2> HIDE DEF b, d
  <2>. QED
    BY <1>1, <1>2, FloorIsLargest
<1>5. ASSUME NEW n \in Nat, n <= x PROVE n * d <= b
  <2> HIDE DEF b, d, x
  <2>1. n * d <= x * d /\ n * d \in Int /\ x * d \in Int
    BY <1>2, <1>3, <1>5
  <2>. QED
    BY <1>2, <1>3, <2>1
<1>6. ASSUME NEW n \in Nat, n <= x
      PROVE  ApplyRiskCap(n, distance, a.equity, k, p) = IF n < k.minQty THEN 0 ELSE n
  <2>1. WithinTradeRisk(n, distance, a.equity, p)
    BY <1>1, <1>5, <1>6, BudgetIsEnough
  <2>. QED
    BY <1>1, <2>1, RiskCap
<1>7. sized = IF x < k.minQty THEN 0 ELSE x
  <2>1. sized = ApplyRiskCap(x, distance, a.equity, k, p)
    BY DEF ComputePositionSizing
  <2> HIDE DEF x, sized
  <2>. QED
    BY <1>1, <1>3, <1>6, <2>1
<1>8. Steps(0, k.step)
  <2>1. 0 = 0 * k.step
    BY <1>1
  <2>. QED
    BY <2>1 DEF Steps
<1>9. sized \in Nat /\ Steps(sized, k.step) /\ sized <= x
  <2> HIDE DEF x, sized
  <2>. QED
    BY <1>1, <1>3, <1>7, <1>8
<1>10. CapOK(levered, sized, k.step, c, lr)
  <2> HIDE DEF sized
  <2>. QED
    BY <1>1, <1>9, LeverageCap
<1>11. levered \in Nat /\ Steps(levered, k.step) /\ levered <= sized
  BY <1>10 DEF CapOK
<1>12. CapOK(m, levered, k.step, c, mr)
  <2> HIDE DEF levered
  <2>. QED
    BY <1>1, <1>11, MarginCap
<1>13. m \in Nat /\ Steps(m, k.step) /\ m <= levered
  BY <1>12 DEF CapOK
<1>14. qty = ApplyRiskCap(m, distance, a.equity, k, p)
  BY DEF SizedQuantity
<1> HIDE DEF x, sized, levered, m, qty, b, c, d, lr, mr
<1>15. m <= x
  BY <1>3, <1>9, <1>11, <1>13
<1>16. qty = IF m < k.minQty THEN 0 ELSE m
  BY <1>6, <1>13, <1>14, <1>15
<1>17. \A n : F(n) <=> /\ n \in Nat /\ n >= k.minQty /\ Steps(n, k.step)
                       /\ n * d <= b /\ n * c <= lr /\ n * c <= mr
  BY DEF Fits, d, c, b, lr, mr
<1>18. ASSUME qty # 0 PROVE F(qty)
  <2>1. qty = m /\ m >= k.minQty /\ m > 0
    BY <1>1, <1>13, <1>16, <1>18
  <2>2. m * c <= mr /\ levered > 0
    BY <1>11, <1>12, <1>13, <2>1 DEF CapOK
  <2>3. levered * c <= lr
    BY <1>10, <1>11, <2>2 DEF CapOK
  <2>4. m * c <= levered * c /\ m * c \in Int /\ levered * c \in Int
    BY <1>2, <1>11, <1>13
  <2>5. m * c <= lr
    BY <1>2, <2>3, <2>4
  <2>6. m * d <= b
    BY <1>5, <1>13, <1>15
  <2>. QED
    BY <1>13, <1>17, <2>1, <2>2, <2>5, <2>6
<1>19. ASSUME NEW n, F(n) PROVE n <= qty
  <2>1. /\ n \in Nat /\ n >= k.minQty /\ Steps(n, k.step)
        /\ n * d <= b /\ n * c <= lr /\ n * c <= mr
    BY <1>17, <1>19
  <2>2. n <= x
    BY <1>3, <2>1
  <2>3. n <= sized
    BY <1>1, <1>3, <1>7, <2>1, <2>2
  <2>4. n <= levered
    BY <1>10, <2>1, <2>3 DEF CapOK
  <2>5. n <= m
    BY <1>12, <2>1, <2>4 DEF CapOK
  <2>. QED
    BY <1>1, <1>13, <1>16, <2>1, <2>5
<1>20. ASSUME sized = 0 PROVE qty = 0
  BY <1>1, <1>9, <1>11, <1>13, <1>16, <1>20
<1>21. qty \in Nat
  BY <1>13, <1>16
<1>. QED
  BY <1>18, <1>19, <1>20, <1>21 DEF qty, sized

\* A finite set of integers has its largest element.
LEMMA MaxExists ==
    ASSUME NEW S, IsFiniteSet(S), S # {}, S \subseteq Int
    PROVE  Max(S) \in S /\ \A y \in S : y <= Max(S)
<1> DEFINE Card == {n \in Nat : \E T \in SUBSET S : /\ T # {} /\ Cardinality(T) = n
                                                   /\ ~\E x \in T : \A y \in T : x >= y}
<1>1. \A T \in SUBSET S : IsFiniteSet(T) /\ Cardinality(T) \in Nat
  BY FS_Subset, FS_CardinalityType
<1>2. Card = {}
  <2>1. SUFFICES ASSUME Card # {} PROVE FALSE
    OBVIOUS
  <2>2. PICK n \in Card : \A m \in Card : ~ (<<m, n>> \in OpToRel(<, Nat))
    BY <2>1, WFMin, NatLessThanWellFounded, Zenon
  <2>3. \A m \in Card : ~ (m < n)
    BY <2>2 DEF OpToRel
  <2>4. PICK T \in SUBSET S : /\ T # {} /\ Cardinality(T) = n
                              /\ ~\E x \in T : \A y \in T : x >= y
    OBVIOUS
  <2>5. PICK x \in T : TRUE
    BY <2>4
  <2>6. Cardinality(T \ {x}) = n - 1 /\ n - 1 \in Nat /\ n - 1 < n /\ T \ {x} \in SUBSET S
    <3>1. Cardinality(T \ {x}) = n - 1 /\ n \in Nat
      BY <1>1, <2>4, <2>5, FS_RemoveElement
    <3>2. T \ {x} \in SUBSET S
      OBVIOUS
    <3>3. Cardinality(T \ {x}) \in Nat
      BY <1>1, <3>2
    <3>. QED
      BY <3>1, <3>2, <3>3
  <2>7. T \ {x} # {}
    <3>1. ASSUME T \ {x} = {} PROVE FALSE
      <4>1. \A y \in T : y = x
        BY <3>1
      <4>2. x \in Int
        BY <2>4, <2>5
      <4>. QED
        BY <4>1, <4>2, <2>4, <2>5
    <3>. QED
      BY <3>1
  <2>8. n - 1 \notin Card
    <3> HIDE DEF Card
    <3>. QED
      BY <2>3, <2>6
  <2>9. PICK z \in T \ {x} : \A y \in T \ {x} : z >= y
    BY <2>6, <2>7, <2>8
  <2>10. x \in Int /\ z \in Int /\ \A y \in T : y \in Int
    BY <2>4, <2>5, <2>9
  <2>11. CASE z >= x
    BY <2>4, <2>9, <2>11
  <2>12. CASE ~(z >= x)
    <3>1. \A y \in T : x >= y
      BY <2>9, <2>10, <2>12
    <3>. QED
      BY <3>1, <2>4, <2>5
  <2>. QED
    BY <2>11, <2>12
<1>3. \E x \in S : \A y \in S : x >= y
  BY <1>1, <1>2
<1>4. Max(S) \in S /\ \A y \in S : Max(S) >= y
  BY <1>3 DEF Max
<1>. QED
  BY <1>4

\* The element that the fold takes first, and one turn of the fold.
Pick(s) == CHOOSE x \in s : TRUE

SumStep(f, D, g) ==
    [s \in SUBSET D |-> IF s = {} THEN 0 ELSE f[Pick(s)] + g[s \ {Pick(s)}]]

\* The element that is picked is one of the set.
LEMMA PickIn == ASSUME NEW s, s # {} PROVE Pick(s) \in s
BY DEF Pick

\* Induction on the subsets of a finite set.
LEMMA SubsetInduction ==
    ASSUME NEW D, IsFiniteSet(D), NEW Q,
           \A s \in SUBSET D : (\A y \in s : s \ {y} \in Q) => s \in Q
    PROVE  \A s \in SUBSET D : s \in Q
<1> DEFINE B == {n \in Nat : \E s \in SUBSET D : s \notin Q /\ Cardinality(s) = n}
<1>1. SUFFICES ASSUME NEW s \in SUBSET D, s \notin Q PROVE FALSE
  OBVIOUS
<1>2. B \subseteq Nat /\ B # {}
  <2>1. Cardinality(s) \in Nat
    BY FS_Subset, FS_CardinalityType
  <2>2. Cardinality(s) \in B
    BY <1>1, <2>1
  <2>. QED
    BY <2>2
<1>3. PICK n \in B : \A m \in B : ~ (<<m, n>> \in OpToRel(<, Nat))
  BY <1>2, WFMin, NatLessThanWellFounded, Zenon
<1>4. \A m \in B : ~ (m < n)
  BY <1>2, <1>3 DEF OpToRel
<1>5. PICK t \in SUBSET D : t \notin Q /\ Cardinality(t) = n
  OBVIOUS
<1>6. ASSUME NEW y \in t PROVE t \ {y} \in Q
  <2>1. IsFiniteSet(t) /\ IsFiniteSet(t \ {y})
    BY FS_Subset, FS_RemoveElement
  <2>2. Cardinality(t \ {y}) = n - 1 /\ Cardinality(t \ {y}) \in Nat
    BY <2>1, <1>5, FS_RemoveElement, FS_CardinalityType
  <2>3. Cardinality(t \ {y}) \notin B
    <3> HIDE DEF B
    <3>. QED
      BY <2>2, <1>2, <1>4
  <2>. QED
    BY <2>2, <2>3
<1>. QED
  BY <1>5, <1>6

\* The fold's recursive function exists: it is built one cardinality at a time.
LEMMA SumFcnExists ==
    ASSUME NEW D, IsFiniteSet(D), NEW f
    PROVE  \E g : g = SumStep(f, D, g)
<1> DEFINE Layer(n) == {s \in SUBSET D : Cardinality(s) <= n}
           Sums(n, g) == g = [s \in Layer(n) |-> IF s = {} THEN 0
                                                 ELSE f[Pick(s)] + g[s \ {Pick(s)}]]
           B == {n \in Nat : ~\E g : Sums(n, g)}
<1>1. \A s \in SUBSET D : IsFiniteSet(s) /\ Cardinality(s) \in Nat
  BY FS_Subset, FS_CardinalityType
<1>2. \A s \in SUBSET D : s # {} => /\ Pick(s) \in s /\ s \ {Pick(s)} \in SUBSET D
                                    /\ Cardinality(s \ {Pick(s)}) = Cardinality(s) - 1
  BY <1>1, PickIn, FS_RemoveElement
<1>3. \E g : Sums(0, g)
  <2>1. Layer(0) = {{}}
    BY <1>1, FS_EmptySet
  <2>2. Sums(0, [s \in Layer(0) |-> 0])
    BY <2>1
  <2>. QED
    BY <2>2
<1>4. ASSUME NEW n \in Nat, NEW g, Sums(n, g) PROVE \E h : Sums(n + 1, h)
  <2> DEFINE h == [s \in Layer(n + 1) |-> IF s = {} THEN 0
                                          ELSE f[Pick(s)] + g[s \ {Pick(s)}]]
  <2>1. \A s \in Layer(n) : s \in Layer(n + 1) /\ h[s] = g[s]
    <3>1. ASSUME NEW s \in Layer(n) PROVE s \in Layer(n + 1)
      BY <1>1
    <3>2. ASSUME NEW s \in Layer(n)
          PROVE  g[s] = IF s = {} THEN 0 ELSE f[Pick(s)] + g[s \ {Pick(s)}]
      BY <1>4, Zenon
    <3>3. ASSUME NEW s \in Layer(n + 1)
          PROVE  h[s] = IF s = {} THEN 0 ELSE f[Pick(s)] + g[s \ {Pick(s)}]
      BY Zenon
    <3> HIDE DEF h, Layer
    <3>. QED
      BY <3>1, <3>2, <3>3
  <2>2. \A s \in Layer(n + 1) : s # {} => s \ {Pick(s)} \in Layer(n)
    BY <1>1, <1>2
  <2>3. \A s \in Layer(n + 1) : s # {} => h[s \ {Pick(s)}] = g[s \ {Pick(s)}]
    <3> HIDE DEF h, Layer
    <3>. QED
      BY <2>1, <2>2
  <2>4. h = [s \in Layer(n + 1) |-> IF s = {} THEN 0 ELSE f[Pick(s)] + h[s \ {Pick(s)}]]
    <3>1. \A s \in Layer(n + 1) :
             h[s] = IF s = {} THEN 0 ELSE f[Pick(s)] + h[s \ {Pick(s)}]
      BY <2>3, Zenon
    <3>. QED
      BY <3>1, Zenon
  <2>. QED
    BY <2>4
<1>5. B = {}
  <2>1. SUFFICES ASSUME B # {} PROVE FALSE
    OBVIOUS
  <2>2. PICK n \in B : \A m \in B : ~ (<<m, n>> \in OpToRel(<, Nat))
    BY <2>1, WFMin, NatLessThanWellFounded, Zenon
  <2>3. \A m \in B : ~ (m < n)
    BY <2>2 DEF OpToRel
  <2>4. n # 0
    BY <1>3
  <2>5. n \in Nat /\ n - 1 \in Nat /\ n - 1 < n /\ (n - 1) + 1 = n
    BY <2>4
  <2>6. n - 1 \notin B
    <3> HIDE DEF B
    <3>. QED
      BY <2>3, <2>5
  <2>7. PICK g : Sums(n - 1, g)
    <3> HIDE DEF Sums
    <3>. QED
      BY <2>5, <2>6
  <2>8. PICK h : Sums((n - 1) + 1, h)
    <3> HIDE DEF Sums
    <3>. QED
      BY <1>4, <2>5, <2>7
  <2>9. \E k : Sums(n, k)
    <3> HIDE DEF Sums
    <3>. QED
      BY <2>5, <2>8
  <2>. QED
    BY <2>9
<1>6. PICK n \in Nat : n = Cardinality(D)
  BY FS_CardinalityType
<1>7. Layer(n) = SUBSET D
  BY <1>6, FS_Subset
<1>8. PICK g : Sums(n, g)
  <2> HIDE DEF Sums
  <2>. QED
    BY <1>5
<1>9. g = SumStep(f, D, g)
  <2> HIDE DEF Layer
  <2>. QED
    BY <1>7, <1>8 DEF SumStep
<1>. QED
  BY <1>9

\* The sum is the value of a function that satisfies the fold's equation.
LEMMA SumByFold ==
    ASSUME NEW S, IsFiniteSet(S), NEW f
    PROVE  \E g : g = SumStep(f, S, g) /\ SumFunctionOnSet(f, S) = g[S]
<1> DEFINE g == CHOOSE h : h = SumStep(f, S, h)
<1>1. g = SumStep(f, S, g)
  BY SumFcnExists
<1>2. SumFunctionOnSet(f, S) = g[S]
  BY DEF SumFunctionOnSet, FoldFunctionOnSet, MapThenFoldSet, SumStep, Pick
<1> HIDE DEF g
<1>. QED
  BY <1>1, <1>2

\* One turn of the fold.
LEMMA FoldTurn ==
    ASSUME NEW D, NEW f, NEW g, g = SumStep(f, D, g), NEW s \in SUBSET D
    PROVE  g[s] = IF s = {} THEN 0 ELSE f[Pick(s)] + g[s \ {Pick(s)}]
<1>1. SumStep(f, D, g)[s] = IF s = {} THEN 0 ELSE f[Pick(s)] + g[s \ {Pick(s)}]
  BY Zenon DEF SumStep
<1>. QED
  BY <1>1

\* Two folds agree on the subsets where they add the same terms.
LEMMA FoldsAgree ==
    ASSUME NEW D, NEW f, NEW g, g = SumStep(f, D, g),
           NEW S \in SUBSET D, IsFiniteSet(S), NEW k, NEW h, h = SumStep(k, S, h),
           \A x \in S : f[x] = k[x]
    PROVE  \A s \in SUBSET S : g[s] = h[s]
<1> DEFINE Q == {s \in SUBSET S : g[s] = h[s]}
<1>1. ASSUME NEW s \in SUBSET S, \A y \in s : s \ {y} \in Q PROVE s \in Q
  <2>1. /\ g[s] = IF s = {} THEN 0 ELSE f[Pick(s)] + g[s \ {Pick(s)}]
        /\ h[s] = IF s = {} THEN 0 ELSE k[Pick(s)] + h[s \ {Pick(s)}]
    BY FoldTurn
  <2>2. CASE s = {}
    BY <2>1, <2>2
  <2>3. CASE s # {}
    <3>1. Pick(s) \in s
      BY <2>3, PickIn
    <3>2. g[s \ {Pick(s)}] = h[s \ {Pick(s)}] /\ f[Pick(s)] = k[Pick(s)]
      BY <1>1, <3>1
    <3>. QED
      BY <2>1, <2>3, <3>2
  <2>. QED
    BY <2>2, <2>3
<1> HIDE DEF Q
<1>2. \A s \in SUBSET S : s \in Q
  BY <1>1, SubsetInduction
<1>. QED
  BY <1>2 DEF Q

\* One fold computes the sums over all subsets.
LEMMA SumsAreFold ==
    ASSUME NEW D, IsFiniteSet(D), NEW f
    PROVE  \E g : g = SumStep(f, D, g) /\ \A s \in SUBSET D : SumFunctionOnSet(f, s) = g[s]
<1>1. PICK g : g = SumStep(f, D, g)
  BY SumFcnExists
<1>2. ASSUME NEW s \in SUBSET D PROVE SumFunctionOnSet(f, s) = g[s]
  <2>1. IsFiniteSet(s)
    BY FS_Subset
  <2>2. PICK h : h = SumStep(f, s, h) /\ SumFunctionOnSet(f, s) = h[s]
    BY <2>1, SumByFold
  <2>3. s \in SUBSET s
    OBVIOUS
  <2>4. g[s] = h[s]
    BY <1>1, <2>1, <2>2, <2>3, FoldsAgree
  <2>. QED
    BY <2>2, <2>4
<1>. QED
  BY <1>1, <1>2

\* The empty sum, the type of a sum, and a sum with one term more, in whatever order
\* the fold takes its elements.
LEMMA SumLaws ==
    ASSUME NEW D, IsFiniteSet(D), NEW f, \A x \in D : f[x] \in Int
    PROVE  /\ SumFunctionOnSet(f, {}) = 0
           /\ \A s \in SUBSET D : SumFunctionOnSet(f, s) \in Int
           /\ \A s \in SUBSET D : \A x \in D \ s :
                 SumFunctionOnSet(f, s \cup {x}) = SumFunctionOnSet(f, s) + f[x]
<1>1. PICK g : g = SumStep(f, D, g) /\ \A s \in SUBSET D : SumFunctionOnSet(f, s) = g[s]
  BY SumsAreFold
<1>2. ASSUME NEW s \in SUBSET D
      PROVE  g[s] = IF s = {} THEN 0 ELSE f[Pick(s)] + g[s \ {Pick(s)}]
  <2>1. g = SumStep(f, D, g)
    BY <1>1
  <2>2. SumStep(f, D, g)[s] = IF s = {} THEN 0 ELSE f[Pick(s)] + g[s \ {Pick(s)}]
    BY Zenon DEF SumStep
  <2>. QED
    BY <2>1, <2>2, Zenon
<1>3. g[{}] = 0
  <2>1. PICK s \in SUBSET D : s = {}
    OBVIOUS
  <2>2. g[s] = IF s = {} THEN 0 ELSE f[Pick(s)] + g[s \ {Pick(s)}]
    BY <1>2
  <2>. QED
    BY <2>1, <2>2
<1>4. \A s \in SUBSET D : g[s] \in Int
  <2> DEFINE Q == {s \in SUBSET D : g[s] \in Int}
  <2>1. ASSUME NEW s \in SUBSET D, \A y \in s : s \ {y} \in Q PROVE s \in Q
    <3>1. CASE s = {}
      BY <3>1, <1>3
    <3>2. CASE s # {}
      <4>1. Pick(s) \in s
        BY <3>2, PickIn
      <4>2. g[s \ {Pick(s)}] \in Int /\ f[Pick(s)] \in Int
        BY <2>1, <4>1
      <4>3. g[s] = f[Pick(s)] + g[s \ {Pick(s)}]
        BY <1>2, <3>2
      <4>. QED
        BY <4>2, <4>3
    <3>. QED
      BY <3>1, <3>2
  <2> HIDE DEF Q
  <2>2. \A s \in SUBSET D : s \in Q
    BY <2>1, SubsetInduction
  <2>. QED
    BY <2>2 DEF Q
<1>5. \A s \in SUBSET D : \A x \in D \ s : g[s \cup {x}] = g[s] + f[x]
  <2> DEFINE Q == {s \in SUBSET D : \A x \in D \ s : g[s \cup {x}] = g[s] + f[x]}
  <2>1. ASSUME NEW s \in SUBSET D, \A y \in s : s \ {y} \in Q,
               NEW x \in D \ s
        PROVE  g[s \cup {x}] = g[s] + f[x]
    <3>1. PICK t \in SUBSET D : t = s \cup {x}
      OBVIOUS
    <3>2. PICK y : y = Pick(t)
      OBVIOUS
    <3>3. y \in t /\ g[t] = f[y] + g[t \ {y}]
      BY <3>1, <3>2, <1>2, PickIn
    <3>4. g[s] \in Int /\ f[x] \in Int /\ f[y] \in Int
      BY <3>1, <3>3, <1>4
    <3>5. CASE y = x
      <4>1. t \ {y} = s
        BY <3>1, <3>5
      <4>2. g[t] = f[x] + g[s]
        BY <3>3, <3>5, <4>1
      <4>3. g[t] = g[s] + f[x]
        BY <3>4, <4>2
      <4>. QED
        BY <3>1, <4>3
    <3>6. CASE y # x
      <4>1. y \in s
        BY <3>1, <3>3, <3>6
      <4>2. PICK r \in SUBSET D : r = s \ {y}
        OBVIOUS
      <4>3. t \ {y} = r \cup {x} /\ s = r \cup {y} /\ x \in D \ r /\ y \in D \ r
        BY <3>1, <3>6, <4>1, <4>2
      <4>4. r \in Q
        BY <2>1, <4>1, <4>2
      <4>5. g[r \cup {x}] = g[r] + f[x] /\ g[r \cup {y}] = g[r] + f[y]
        BY <4>3, <4>4
      <4>6. g[r] \in Int
        BY <1>4
      <4>7. g[t] = f[y] + (g[r] + f[x]) /\ g[s] = g[r] + f[y]
        BY <3>3, <4>3, <4>5
      <4>8. g[t] = g[s] + f[x]
        BY <3>4, <4>6, <4>7
      <4>. QED
        BY <3>1, <4>8
    <3>. QED
      BY <3>5, <3>6
  <2>2. ASSUME NEW s \in SUBSET D, \A y \in s : s \ {y} \in Q PROVE s \in Q
    BY <2>1, <2>2
  <2> HIDE DEF Q
  <2>3. \A s \in SUBSET D : s \in Q
    BY <2>2, SubsetInduction
  <2>. QED
    BY <2>3 DEF Q
<1>6. ASSUME NEW s \in SUBSET D, NEW x \in D \ s
      PROVE  SumFunctionOnSet(f, s \cup {x}) = SumFunctionOnSet(f, s) + f[x]
  <2>1. PICK t \in SUBSET D : t = s \cup {x}
    OBVIOUS
  <2>2. SumFunctionOnSet(f, t) = g[t] /\ SumFunctionOnSet(f, s) = g[s]
    BY <1>1
  <2>. QED
    BY <1>5, <2>1, <2>2
<1>. QED
  BY <1>1, <1>3, <1>4, <1>6

\* Only the terms of the set count.
LEMMA SumSame ==
    ASSUME NEW S, IsFiniteSet(S), NEW f, NEW k, \A x \in S : f[x] = k[x]
    PROVE  SumFunctionOnSet(f, S) = SumFunctionOnSet(k, S)
<1>1. PICK g : g = SumStep(f, S, g) /\ SumFunctionOnSet(f, S) = g[S]
  BY SumByFold
<1>2. PICK h : h = SumStep(k, S, h) /\ SumFunctionOnSet(k, S) = h[S]
  BY SumByFold
<1>3. S \in SUBSET S
  OBVIOUS
<1>4. g[S] = h[S]
  BY <1>1, <1>2, <1>3, FoldsAgree
<1>. QED
  BY <1>1, <1>2, <1>4

\* A sum of naturals is a natural.
LEMMA SumIsNatural ==
    ASSUME NEW s, IsFiniteSet(DOMAIN s), \A i \in DOMAIN s : s[i] \in Nat
    PROVE  SumFunction(s) \in Nat
<1> DEFINE D == DOMAIN s
           Q == {S \in SUBSET D : SumFunctionOnSet(s, S) \in Nat}
<1>1. ASSUME NEW S \in SUBSET D, \A y \in S : S \ {y} \in Q PROVE S \in Q
  <2>1. CASE S = {}
    <3>1. SumFunctionOnSet(s, {}) = 0
      BY SumLaws
    <3>. QED
      BY <2>1, <3>1
  <2>2. CASE S # {}
    <3>1. PICK y \in S : TRUE
      BY <2>2
    <3>2. PICK r \in SUBSET D : r = S \ {y}
      OBVIOUS
    <3>3. S = r \cup {y} /\ y \in D \ r /\ SumFunctionOnSet(s, r) \in Nat /\ s[y] \in Nat
      BY <1>1, <3>1, <3>2
    <3>4. SumFunctionOnSet(s, r \cup {y}) = SumFunctionOnSet(s, r) + s[y]
      BY <3>3, SumLaws
    <3>. QED
      BY <3>3, <3>4
  <2>. QED
    BY <2>1, <2>2
<1> HIDE DEF Q
<1>2. \A S \in SUBSET D : S \in Q
  BY <1>1, SubsetInduction
<1>3. D \in Q
  BY <1>2
<1>. QED
  BY <1>3 DEF Q, SumFunction

\* What the book adds up to, when its positions are valid.
LEMMA BookSums ==
    ASSUME NEW q, NEW n \in Nat, DOMAIN q.ps = 1..n,
           \A i \in 1..n : {q.ps[i].size, q.ps[i].entry, q.ps[i].initial, q.ps[i].trail, q.ps[i].mark}
                              \subseteq Nat
    PROVE  TotalNotional(q.ps) \in Nat /\ CurrentOpenRisk(q.ps) \in Nat
<1>1. Unit \in Nat
  BY RiskConstants
<1> DEFINE f == [i \in DOMAIN q.ps |-> q.ps[i].size * q.ps[i].mark * Unit]
           h == [i \in DOMAIN q.ps |-> OpenRisk(q.ps[i])]
<1>2. \A i \in 1..n : q.ps[i].size * q.ps[i].mark * Unit \in Nat
  BY <1>1
<1>3. ASSUME NEW i \in 1..n PROVE OpenRisk(q.ps[i]) \in Nat
  <2> DEFINE pos == q.ps[i]
             stop == IF pos.initial >= pos.trail THEN pos.initial ELSE pos.trail
  <2>1. pos.size \in Nat /\ pos.entry \in Nat /\ stop \in Nat
    OBVIOUS
  <2>2. OpenRisk(pos) = IF stop >= pos.entry THEN 0 ELSE pos.size * (pos.entry - stop) * Unit
    BY DEF OpenRisk
  <2> HIDE DEF pos, stop
  <2>3. CASE stop >= pos.entry
    BY <2>2, <2>3 DEF pos
  <2>4. CASE ~(stop >= pos.entry)
    <3>1. pos.entry - stop \in Nat
      BY <2>1, <2>4
    <3>2. pos.size * (pos.entry - stop) * Unit \in Nat
      BY <1>1, <2>1, <3>1
    <3>. QED
      BY <2>2, <2>4, <3>2 DEF pos
  <2>. QED
    BY <2>3, <2>4
<1>4. DOMAIN f = 1..n /\ \A i \in 1..n : f[i] \in Nat
  BY <1>2
<1>5. DOMAIN h = 1..n /\ \A i \in 1..n : h[i] \in Nat
  BY <1>3
<1>6. TotalNotional(q.ps) = SumFunction(f) /\ CurrentOpenRisk(q.ps) = SumFunction(h)
  BY DEF TotalNotional, CurrentOpenRisk, SumOver
<1>7. IsFiniteSet(1..n)
  BY FS_Interval
<1> HIDE DEF f, h
<1>. QED
  BY <1>4, <1>5, <1>6, <1>7, SumIsNatural

-----------------------------------------------------------------------------
(* The checks of the evaluation let a trade through exactly when it is      *)
(* allowed.                                                                 *)

\* A check that raises one code is silent when it finds nothing.
LEMMA Silent ==
    ASSUME NEW bad, NEW code
    PROVE  If(bad, code) = {} <=> ~bad
BY DEF If

\* validate_parameters
LEMMA ParametersPass ==
    ASSUME NEW q, WellFormed(q)
    PROVE  ValidateParameters(q.p) = {} <=>
              /\ q.p.risk \in 1..FrozenRisk /\ q.p.portfolio \in 1..FrozenPortfolioRisk
              /\ q.p.leverage \in 1..FrozenLeverage /\ q.p.maxOpen \in 1..FrozenPositions
              /\ q.p.tolerance \in Nat
<1> DEFINE p == q.p
           lims == {<<p.risk, FrozenRisk>>, <<p.portfolio, FrozenPortfolioRisk>>,
                    <<p.leverage, FrozenLeverage>>}
           bad == \E lim \in lims : ~Positive(lim[1]) \/ lim[1] > lim[2]
           badOpen == p.maxOpen <= 0 \/ p.maxOpen > FrozenPositions
           badTolerance == ~IsFinite(p.tolerance) \/ p.tolerance < 0
<1>1. ValidateParameters(q.p) = {} <=> ~(bad \/ badOpen \/ badTolerance)
  BY Silent DEF ValidateParameters
<1>2. ASSUME NEW v, NEW f, f \in Nat
      PROVE  ~(~Positive(v) \/ v > f) <=> v \in 1..f
  BY <1>2 DEF Positive, IsFinite
<1>3. FrozenRisk \in Nat /\ FrozenPortfolioRisk \in Nat /\ FrozenLeverage \in Nat /\ FrozenPositions \in Nat
  BY RiskConstants
<1>4. ~bad <=> /\ p.risk \in 1..FrozenRisk /\ p.portfolio \in 1..FrozenPortfolioRisk
               /\ p.leverage \in 1..FrozenLeverage
  <2>1. bad <=> \/ ~Positive(p.risk) \/ p.risk > FrozenRisk
                \/ ~Positive(p.portfolio) \/ p.portfolio > FrozenPortfolioRisk
                \/ ~Positive(p.leverage) \/ p.leverage > FrozenLeverage
    OBVIOUS
  <2>. QED
    BY <1>2, <1>3, <2>1, Zenon
<1>5. p.maxOpen \in Int
  BY DEF WellFormed
<1>6. ~badOpen <=> p.maxOpen \in 1..FrozenPositions
  BY <1>3, <1>5
<1>7. ~badTolerance <=> p.tolerance \in Nat
  BY DEF IsFinite
<1> HIDE DEF bad, badOpen, badTolerance
<1>. QED
  BY <1>1, <1>4, <1>6, <1>7

\* validate_account_state
LEMMA AccountPasses ==
    ASSUME NEW a
    PROVE  ValidateAccount(a) = {} <=> a.equity \in Nat \ {0} /\ a.margin \in Nat
<1>1. ValidateAccount(a) = {} <=> ~(~Positive(a.equity) \/ ~IsFinite(a.margin) \/ a.margin < 0)
  BY Silent DEF ValidateAccount
<1>2. Positive(a.equity) <=> a.equity \in Nat \ {0}
  BY DEF Positive, IsFinite
<1>3. ~(~IsFinite(a.margin) \/ a.margin < 0) <=> a.margin \in Nat
  BY DEF IsFinite
<1>. QED
  BY <1>1, <1>2, <1>3

\* validate_symbol_constraints_core
LEMMA ConstraintsPass ==
    ASSUME NEW k
    PROVE  ValidateConstraints(k) = {} <=>
              /\ {k.tick, k.step, k.minQty} \subseteq Nat \ {0} /\ k.minNotional \in Nat
              /\ k.minQty % k.step = 0
<1> DEFINE bad == \E v \in {k.tick, k.step, k.minQty} : ~Positive(v)
           badNotional == ~IsFinite(k.minNotional) \/ k.minNotional < 0
           badStep == k.minQty < k.step \/ k.minQty % k.step # 0
<1>1. ValidateConstraints(k) = {} <=> ~(bad \/ badNotional \/ badStep)
  BY Silent DEF ValidateConstraints
<1>2. ~bad <=> {k.tick, k.step, k.minQty} \subseteq Nat \ {0}
  <2>1. \A v : Positive(v) <=> v \in Nat \ {0}
    BY DEF Positive, IsFinite
  <2>. QED
    BY <2>1
<1>3. ~badNotional <=> k.minNotional \in Nat
  BY DEF IsFinite
<1>4. ASSUME {k.tick, k.step, k.minQty} \subseteq Nat \ {0}
      PROVE  ~badStep <=> k.minQty % k.step = 0
  <2>1. k.step \in Nat /\ k.step > 0 /\ k.minQty \in Nat /\ k.minQty > 0
    BY <1>4
  <2>2. ASSUME k.minQty % k.step = 0 PROVE k.minQty >= k.step
    <3>1. PICK m \in Nat : k.minQty = m * k.step
      BY <2>1, <2>2, StepsAreMultiples DEF Steps
    <3>2. m >= 1
      <4>1. ASSUME m = 0 PROVE FALSE
        BY <2>1, <3>1, <4>1
      <4>. QED
        BY <4>1
    <3>3. m * k.step >= k.step
      BY <2>1, <3>2
    <3>. QED
      BY <3>1, <3>3
  <2>. QED
    BY <2>1, <2>2
<1> HIDE DEF bad, badNotional, badStep
<1>. QED
  BY <1>1, <1>2, <1>3, <1>4

\* validate_trade_proposal
LEMMA ProposalPasses ==
    ASSUME NEW t
    PROVE  ValidateProposal(t) = {} <=>
              /\ t.side = "LONG" /\ t.kind = "LONG_ENTRY" /\ t.approved
              /\ t.data = "OK" /\ t.bot = "ACTIVE"
              /\ {t.entry, t.stop} \cup t.atr \subseteq Nat \ {0}
<1> DEFINE bad == \/ t.side # "LONG" \/ ~Positive(t.entry) \/ ~Positive(t.stop)
                  \/ \E v \in t.atr : ~Positive(v)
                  \/ t.data # "OK" \/ t.bot # "ACTIVE"
           noSignal == t.kind # "LONG_ENTRY" \/ ~t.approved
<1>1. ValidateProposal(t) = If(bad, DATA) \cup If(noSignal, "RC_REJECT_NO_SIGNAL")
  BY DEF ValidateProposal
<1>2. ValidateProposal(t) = {} <=> ~bad /\ ~noSignal
  <2> HIDE DEF bad, noSignal
  <2>1. If(bad, DATA) = {} <=> ~bad
    BY Silent
  <2>2. If(noSignal, "RC_REJECT_NO_SIGNAL") = {} <=> ~noSignal
    BY Silent
  <2>. QED
    BY <1>1, <2>1, <2>2
<1>3. \A v : Positive(v) <=> v \in Nat \ {0}
  BY DEF Positive, IsFinite
<1>4. {t.entry, t.stop} \cup t.atr \subseteq Nat \ {0} <=>
          Positive(t.entry) /\ Positive(t.stop) /\ \A v \in t.atr : Positive(v)
  BY <1>3
<1>. QED
  BY <1>2, <1>4, Zenon

\* validate_open_positions
LEMMA PositionsPass ==
    ASSUME NEW ps
    PROVE  ValidateOpenPositions(ps) = {} <=>
              /\ \A i, j \in DOMAIN ps : i # j => ps[i].symbol # ps[j].symbol
              /\ \A i \in DOMAIN ps :
                    /\ {ps[i].size, ps[i].initial, ps[i].trail, ps[i].mark} \subseteq Nat \ {0}
                    /\ ps[i].entry \in Nat /\ ps[i].entry > ps[i].initial
<1> DEFINE twice == \E i, j \in DOMAIN ps : i # j /\ ps[i].symbol = ps[j].symbol
           bad(i) == \/ \E v \in {ps[i].entry, ps[i].size, ps[i].initial, ps[i].trail, ps[i].mark} :
                            ~Positive(v)
                     \/ ps[i].initial >= ps[i].entry
           good(i) == /\ {ps[i].size, ps[i].initial, ps[i].trail, ps[i].mark} \subseteq Nat \ {0}
                      /\ ps[i].entry \in Nat /\ ps[i].entry > ps[i].initial
<1>1. ValidateOpenPositions(ps) = {} <=> ~(twice \/ \E i \in DOMAIN ps : bad(i))
  BY Silent DEF ValidateOpenPositions
<1>2. \A v : Positive(v) <=> v \in Nat \ {0}
  BY DEF Positive, IsFinite
<1>3. ASSUME NEW i PROVE ~bad(i) <=> good(i)
  <2>1. ~bad(i) <=> /\ {ps[i].entry, ps[i].size, ps[i].initial, ps[i].trail, ps[i].mark} \subseteq Nat \ {0}
                    /\ ~(ps[i].initial >= ps[i].entry)
    BY <1>2
  <2>. QED
    BY <2>1
<1> HIDE DEF bad, good
<1>4. (\A i \in DOMAIN ps : good(i)) <=> ~\E i \in DOMAIN ps : bad(i)
  BY <1>3
<1>. QED
  BY <1>1, <1>4, Zenon DEF good

\* One limit on a loss.
LEMMA LossPasses ==
    ASSUME NEW limit, NEW loss, NEW base \in Nat
    PROVE  ~LossReached(limit, loss, base) <=> LossAllowed(limit, loss, base)
<1>1. Den \in Nat
  BY RiskConstants
<1>2. ASSUME NEW pct
      PROVE  ~(\/ ~IsFinite(pct) \/ pct < 0 \/ ~IsFinite(loss)
               \/ loss > 0 /\ loss * Den > pct * base)
             <=> pct \in Nat /\ loss \in Int /\ loss * Den <= pct * base
  <2>1. CASE ~(pct \in Nat /\ loss \in Int)
    BY <2>1 DEF IsFinite
  <2>2. CASE pct \in Nat /\ loss \in Int
    <3>1. loss * Den \in Int /\ pct * base \in Int /\ pct * base >= 0
      BY <1>1, <2>2
    <3>2. loss <= 0 => loss * Den <= 0
      BY <1>1, <2>2
    <3> DEFINE x == loss * Den
               y == pct * base
    <3> HIDE DEF x, y
    <3>3. x \in Int /\ y \in Int /\ y >= 0 /\ (loss <= 0 => x <= 0)
      BY <3>1, <3>2 DEF x, y
    <3>4. ~(loss > 0 /\ x > y) <=> x <= y
      BY <2>2, <3>3
    <3>5. IsFinite(pct) /\ ~(pct < 0) /\ IsFinite(loss)
      BY <2>2 DEF IsFinite
    <3>. QED
      BY <2>2, <3>4, <3>5 DEF x, y
  <2>. QED
    BY <2>1, <2>2
<1>. QED
  BY <1>2, Zenon DEF LossReached, LossAllowed

\* check_loss_limits
LEMMA LossesPass ==
    ASSUME NEW a, NEW p, a.equity \in Nat
    PROVE  CheckLossLimits(a, p) = {} <=>
              /\ LossAllowed(p.dailyLimit, a.dailyLoss, a.equity)
              /\ LossAllowed(p.weeklyLimit, a.weeklyLoss, a.equity)
              /\ p.drawdownLimit # {} =>
                    /\ a.peak \in Nat \ {0}
                    /\ LossAllowed(p.drawdownLimit, a.peak - a.equity, a.peak)
<1> DEFINE daily == LossReached(p.dailyLimit, a.dailyLoss, a.equity)
           weekly == LossReached(p.weeklyLimit, a.weeklyLoss, a.equity)
           fall == LossReached(p.drawdownLimit, a.peak - a.equity, a.peak)
           drawdown == p.drawdownLimit # {} /\ (~Positive(a.peak) \/ fall)
<1>1. CheckLossLimits(a, p) = {} <=> ~(daily \/ weekly \/ drawdown)
  BY Silent DEF CheckLossLimits
<1>2. ~daily <=> LossAllowed(p.dailyLimit, a.dailyLoss, a.equity)
  BY LossPasses
<1>3. ~weekly <=> LossAllowed(p.weeklyLimit, a.weeklyLoss, a.equity)
  BY LossPasses
<1>4. Positive(a.peak) <=> a.peak \in Nat \ {0}
  BY DEF Positive, IsFinite
<1>5. a.peak \in Nat \ {0} =>
          (~fall <=> LossAllowed(p.drawdownLimit, a.peak - a.equity, a.peak))
  BY LossPasses
<1> HIDE DEF daily, weekly, fall
<1>. QED
  BY <1>1, <1>2, <1>3, <1>4, <1>5, Zenon

\* The checks on the book.
LEMMA BookPasses ==
    ASSUME NEW t, NEW ps, NEW orders, NEW processed, NEW p, Len(ps) \in Int, p.maxOpen \in Int
    PROVE  BookReasons(t, ps, orders, processed, p) = {} <=>
              /\ \A i \in DOMAIN ps : ps[i].symbol # t.symbol
              /\ t.id \notin processed /\ t.symbol \notin orders /\ Len(ps) < p.maxOpen
<1>1. ~(Len(ps) >= p.maxOpen) <=> Len(ps) < p.maxOpen
  OBVIOUS
<1> DEFINE full == Len(ps) >= p.maxOpen
<1>2. If(full, "RC_REJECT_MAX_POSITIONS") = {} <=> ~full
  BY Silent
<1>3. {DATA} # {} /\ {"RC_REJECT_DUPLICATE_SYMBOL"} # {}
  OBVIOUS
<1>4. BookReasons(t, ps, orders, processed, p) =
          IF t.id \in processed THEN {DATA}
          ELSE IF \/ \E i \in DOMAIN ps : ps[i].symbol = t.symbol
                  \/ t.symbol \in orders THEN {"RC_REJECT_DUPLICATE_SYMBOL"}
          ELSE If(full, "RC_REJECT_MAX_POSITIONS")
  BY DEF BookReasons
<1> HIDE DEF full
<1>. QED
  BY <1>1, <1>2, <1>3, <1>4 DEF full

\* The stop that the engine rounds to the tick.
LEMMA StopRounds ==
    ASSUME NEW stop \in Nat, NEW tick \in Nat, tick > 0
    PROVE  /\ RoundToTick(stop, tick) = (stop \div tick) * tick
           /\ (stop \div tick) * tick \in Nat
<1>1. stop \div tick \in Nat
  BY Quotient
<1>2. RoundToTick(stop, tick) = (stop \div tick) * tick
  BY DEF RoundToTick, Truncate
<1>. QED
  BY <1>1, <1>2

\* The checks before the sizing, in the order of the evaluation.
Passed(q) ==
    /\ ValidateParameters(q.p) = {} /\ ValidateAccount(q.a) = {}
    /\ ValidateConstraints(q.k) = {} /\ ValidateProposal(q.t) = {}
    /\ ValidateOpenPositions(q.ps) = {} /\ CheckLossLimits(q.a, q.p) = {}
    /\ ValidateLongStop(q.t.entry, RoundToTick(q.t.stop, q.k.tick)) = {}
    /\ BookReasons(q.t, q.ps, q.orders, q.done, q.p) = {}

\* They let a trade through exactly when nothing forbids it.
LEMMA PassedIsAllowed ==
    ASSUME NEW q, WellFormed(q)
    PROVE  Passed(q) <=> Allowed(q)
<1> DEFINE stop == RoundToTick(q.t.stop, q.k.tick)
           params == /\ q.p.risk \in 1..FrozenRisk /\ q.p.portfolio \in 1..FrozenPortfolioRisk
                     /\ q.p.leverage \in 1..FrozenLeverage /\ q.p.maxOpen \in 1..FrozenPositions
                     /\ q.p.tolerance \in Nat
           account == q.a.equity \in Nat \ {0} /\ q.a.margin \in Nat
           limits == /\ {q.k.tick, q.k.step, q.k.minQty} \subseteq Nat \ {0} /\ q.k.minNotional \in Nat
                     /\ q.k.minQty % q.k.step = 0
           signal == /\ q.t.side = "LONG" /\ q.t.kind = "LONG_ENTRY" /\ q.t.approved
                     /\ q.t.data = "OK" /\ q.t.bot = "ACTIVE"
                     /\ {q.t.entry, q.t.stop} \cup q.t.atr \subseteq Nat \ {0}
           below == (q.t.stop \div q.k.tick) * q.k.tick < q.t.entry
           book == /\ \A i, j \in DOMAIN q.ps : i # j => q.ps[i].symbol # q.ps[j].symbol
                   /\ \A i \in DOMAIN q.ps :
                         /\ {q.ps[i].size, q.ps[i].initial, q.ps[i].trail, q.ps[i].mark} \subseteq Nat \ {0}
                         /\ q.ps[i].entry \in Nat /\ q.ps[i].entry > q.ps[i].initial
           losses == /\ LossAllowed(q.p.dailyLimit, q.a.dailyLoss, q.a.equity)
                     /\ LossAllowed(q.p.weeklyLimit, q.a.weeklyLoss, q.a.equity)
                     /\ q.p.drawdownLimit # {} =>
                           /\ q.a.peak \in Nat \ {0}
                           /\ LossAllowed(q.p.drawdownLimit, q.a.peak - q.a.equity, q.a.peak)
           slot == /\ \A i \in DOMAIN q.ps : q.ps[i].symbol # q.t.symbol
                   /\ q.t.id \notin q.done /\ q.t.symbol \notin q.orders /\ Len(q.ps) < q.p.maxOpen
<1>1. Allowed(q) <=> params /\ account /\ limits /\ signal /\ below /\ book /\ losses /\ slot
  BY Zenon DEF Allowed
<1>2. ValidateParameters(q.p) = {} <=> params
  BY ParametersPass
<1>3. ValidateAccount(q.a) = {} <=> account
  BY AccountPasses
<1>4. ValidateConstraints(q.k) = {} <=> limits
  BY ConstraintsPass
<1>5. ValidateProposal(q.t) = {} <=> signal
  BY ProposalPasses
<1>6. ValidateOpenPositions(q.ps) = {} <=> book
  BY PositionsPass
<1>7. account => (CheckLossLimits(q.a, q.p) = {} <=> losses)
  <2>1. account => q.a.equity \in Nat
    OBVIOUS
  <2> HIDE DEF losses, account
  <2>. QED
    BY <2>1, LossesPass DEF losses
<1>8. limits /\ signal => (ValidateLongStop(q.t.entry, stop) = {} <=> below)
  <2>1. SUFFICES ASSUME limits, signal
                 PROVE  ValidateLongStop(q.t.entry, stop) = {} <=> below
    OBVIOUS
  <2>2. q.t.stop \in Nat /\ q.t.entry \in Nat /\ q.k.tick \in Nat /\ q.k.tick > 0
    BY <2>1
  <2>3. stop = (q.t.stop \div q.k.tick) * q.k.tick /\ stop \in Nat
    BY <2>2, StopRounds
  <2>4. ValidateLongStop(q.t.entry, stop) = {} <=> ~(stop >= q.t.entry)
    BY Silent DEF ValidateLongStop
  <2> HIDE DEF stop
  <2>. QED
    BY <2>2, <2>3, <2>4
<1>9. BookReasons(q.t, q.ps, q.orders, q.done, q.p) = {} <=> slot
  <2>1. Len(q.ps) \in Int /\ q.p.maxOpen \in Int
    BY DEF WellFormed
  <2>. QED
    BY <2>1, BookPasses
<1> HIDE DEF params, account, limits, signal, below, book, losses, slot, stop
<1>10. Passed(q) <=> /\ ValidateParameters(q.p) = {} /\ ValidateAccount(q.a) = {}
                     /\ ValidateConstraints(q.k) = {} /\ ValidateProposal(q.t) = {}
                     /\ ValidateOpenPositions(q.ps) = {} /\ CheckLossLimits(q.a, q.p) = {}
                     /\ ValidateLongStop(q.t.entry, stop) = {}
                     /\ BookReasons(q.t, q.ps, q.orders, q.done, q.p) = {}
  BY DEF Passed, stop
<1>. QED
  BY <1>1, <1>2, <1>3, <1>4, <1>5, <1>6, <1>7, <1>8, <1>9, <1>10, Zenon

\* The numbers of an allowed question.
LEMMA AllowedNumbers ==
    ASSUME NEW q, WellFormed(q), Allowed(q)
    PROVE  /\ Numbers(q.t, q.a, q.k, q.ps, Distance(q), q.p)
           /\ Distance(q) = q.t.entry - RoundToTick(q.t.stop, q.k.tick)
           /\ CurrentOpenRisk(q.ps) \in Nat /\ q.p.portfolio \in Nat
           /\ q.k.minNotional \in Nat /\ q.k.minQty > 0
<1>1. /\ q.t.entry \in Nat /\ q.t.entry > 0 /\ q.t.stop \in Nat
      /\ q.a.equity \in Nat /\ q.a.margin \in Nat
      /\ q.k.tick \in Nat /\ q.k.tick > 0 /\ q.k.step \in Nat /\ q.k.step > 0
      /\ q.k.minQty \in Nat /\ q.k.minQty > 0 /\ q.k.minNotional \in Nat
      /\ q.p.risk \in Nat /\ q.p.tolerance \in Nat /\ q.p.leverage \in Nat /\ q.p.portfolio \in Nat
      /\ (q.t.stop \div q.k.tick) * q.k.tick < q.t.entry /\ q.k.minQty % q.k.step = 0
  <2>1. /\ q.p.risk \in 1..FrozenRisk /\ q.p.portfolio \in 1..FrozenPortfolioRisk
        /\ q.p.leverage \in 1..FrozenLeverage /\ q.p.tolerance \in Nat
    BY Zenon DEF Allowed
  <2>2. q.a.equity \in Nat \ {0} /\ q.a.margin \in Nat
    BY Zenon DEF Allowed
  <2>3. {q.k.tick, q.k.step, q.k.minQty} \subseteq Nat \ {0} /\ q.k.minNotional \in Nat
    BY Zenon DEF Allowed
  <2>4. {q.t.entry, q.t.stop} \cup q.t.atr \subseteq Nat \ {0}
    BY Zenon DEF Allowed
  <2>5. (q.t.stop \div q.k.tick) * q.k.tick < q.t.entry /\ q.k.minQty % q.k.step = 0
    BY Zenon DEF Allowed
  <2>6. q.p.risk \in Nat /\ q.p.leverage \in Nat /\ q.p.portfolio \in Nat
    BY <2>1
  <2>7. /\ q.k.tick \in Nat /\ q.k.tick > 0 /\ q.k.step \in Nat /\ q.k.step > 0
        /\ q.k.minQty \in Nat /\ q.k.minQty > 0
    BY <2>3
  <2>8. q.t.entry \in Nat /\ q.t.entry > 0 /\ q.t.stop \in Nat
    BY <2>4
  <2>. QED
    BY <2>1, <2>2, <2>3, <2>5, <2>6, <2>7, <2>8
<1>2. /\ RoundToTick(q.t.stop, q.k.tick) = (q.t.stop \div q.k.tick) * q.k.tick
      /\ (q.t.stop \div q.k.tick) * q.k.tick \in Nat
  BY <1>1, StopRounds
<1>3. Distance(q) \in Nat /\ Distance(q) > 0
  <2> DEFINE s == (q.t.stop \div q.k.tick) * q.k.tick
  <2>1. s \in Nat /\ s < q.t.entry
    BY <1>1, <1>2
  <2>2. Distance(q) = q.t.entry - s
    BY DEF Distance
  <2> HIDE DEF s
  <2>. QED
    BY <1>1, <2>1, <2>2
<1>4. q.k.minQty >= q.k.step
  <2>1. PICK m \in Nat : q.k.minQty = m * q.k.step
    BY <1>1, StepsAreMultiples DEF Steps
  <2>2. m # 0
    BY <1>1, <2>1
  <2>3. m * q.k.step >= q.k.step
    BY <1>1, <2>2
  <2>. QED
    BY <2>1, <2>3
<1>6. PICK n \in Nat : DOMAIN q.ps = 1..n
  BY DEF WellFormed
<1>7. \A i \in 1..n : {q.ps[i].size, q.ps[i].entry, q.ps[i].initial, q.ps[i].trail, q.ps[i].mark}
                          \subseteq Nat
  <2>1. \A i \in DOMAIN q.ps :
          /\ {q.ps[i].size, q.ps[i].initial, q.ps[i].trail, q.ps[i].mark} \subseteq Nat \ {0}
          /\ q.ps[i].entry \in Nat
    BY Zenon DEF Allowed
  <2>. QED
    BY <1>6, <2>1
<1>8. TotalNotional(q.ps) \in Nat /\ CurrentOpenRisk(q.ps) \in Nat
  BY <1>6, <1>7, BookSums
<1>9. Distance(q) = q.t.entry - RoundToTick(q.t.stop, q.k.tick)
  BY <1>2 DEF Distance
<1>. QED
  BY <1>1, <1>3, <1>4, <1>8, <1>9 DEF Numbers

\* The quantities of the property are the quantities that fit.
LEMMA FittingFits ==
    ASSUME NEW q, WellFormed(q), Allowed(q), NEW n
    PROVE  n \in Fitting(q) <=> Fits(n, q.t, q.a, q.k, q.ps, Distance(q), q.p)
<1> DEFINE dist == Distance(q)
           c == q.t.entry * Unit
           l == q.p.leverage * q.a.equity
           top == l \div c
           d == Den * dist * Unit
           b == q.a.equity * q.p.risk
           mr == q.p.leverage * q.a.margin
           tn == TotalNotional(q.ps)
<1>1. /\ q.t.entry \in Nat /\ q.t.entry > 0 /\ dist \in Nat /\ dist > 0
      /\ q.a.equity \in Nat /\ q.a.margin \in Nat
      /\ q.k.step \in Nat /\ q.k.step > 0 /\ q.k.minQty \in Nat
      /\ q.p.risk \in Nat /\ q.p.leverage \in Nat /\ tn \in Nat
  BY AllowedNumbers DEF Numbers
<1>2. Unit \in Nat /\ Unit > 0 /\ Den \in Nat
  BY RiskConstants
<1> HIDE DEF dist, tn
<1>3. c \in Nat /\ c > 0 /\ l \in Nat /\ b \in Nat /\ mr \in Nat
  BY <1>1, <1>2
<1>4. n \in Fitting(q) <=>
          /\ n \in q.k.minQty .. top
          /\ n % q.k.step = 0 /\ n * dist * Unit * Den <= b
          /\ tn + n * q.t.entry * Unit <= l /\ n * q.t.entry * Unit <= mr
  BY Zenon DEF Fitting, dist, tn
<1>5. Fits(n, q.t, q.a, q.k, q.ps, dist, q.p) <=>
          /\ n \in Nat /\ n >= q.k.minQty /\ Steps(n, q.k.step)
          /\ n * d <= b /\ n * c <= l - tn /\ n * c <= mr
  BY DEF Fits, RiskBudget, tn
<1>6. top \in Nat /\ c * top <= l /\ l < c * top + c
  <2> HIDE DEF c, l
  <2>. QED
    BY <1>3, Quotient
<1>7. ASSUME NEW j \in Nat
      PROVE  j * dist * Unit * Den = j * d /\ j * q.t.entry * Unit = j * c /\ j * c \in Nat
  BY <1>1, <1>2
<1>8. ASSUME NEW j \in Nat, j * c <= l PROVE j <= top
  <2> HIDE DEF c, l, top
  <2>1. ASSUME j >= top + 1 PROVE FALSE
    <3>1. c * j >= c * (top + 1)
      BY <1>3, <1>6, <2>1
    <3>2. c * (top + 1) = c * top + c /\ c * j = j * c
      BY <1>3, <1>6
    <3>3. c * top \in Int /\ j * c \in Int
      BY <1>3, <1>6
    <3>. QED
      BY <1>3, <1>6, <1>8, <3>1, <3>2, <3>3
  <2>. QED
    BY <1>6, <2>1
<1> HIDE DEF c, l, top, d, b, mr
<1>9. ASSUME n \in Fitting(q) PROVE Fits(n, q.t, q.a, q.k, q.ps, dist, q.p)
  <2>1. n \in Nat /\ n >= q.k.minQty
    BY <1>1, <1>4, <1>6, <1>9
  <2>2. /\ n % q.k.step = 0 /\ n * dist * Unit * Den <= b
        /\ tn + n * q.t.entry * Unit <= l /\ n * q.t.entry * Unit <= mr
    BY <1>4, <1>9
  <2>3. Steps(n, q.k.step)
    BY <1>1, <2>1, <2>2, StepsAreMultiples
  <2>4. n * dist * Unit * Den = n * d /\ n * q.t.entry * Unit = n * c /\ n * c \in Nat
    BY <1>7, <2>1
  <2>5. n * c <= l - tn
    BY <1>1, <1>3, <2>2, <2>4
  <2>. QED
    BY <1>5, <2>1, <2>2, <2>3, <2>4, <2>5
<1>10. ASSUME Fits(n, q.t, q.a, q.k, q.ps, dist, q.p) PROVE n \in Fitting(q)
  <2>1. /\ n \in Nat /\ n >= q.k.minQty /\ Steps(n, q.k.step)
        /\ n * d <= b /\ n * c <= l - tn /\ n * c <= mr
    BY <1>5, <1>10
  <2>2. n % q.k.step = 0
    BY <1>1, <2>1, StepsAreMultiples
  <2>3. n * dist * Unit * Den = n * d /\ n * q.t.entry * Unit = n * c /\ n * c \in Nat
    BY <1>7, <2>1
  <2>4. tn + n * c <= l /\ n * c <= l
    BY <1>1, <1>3, <2>1, <2>3
  <2>5. n <= top
    BY <1>8, <2>1, <2>4
  <2>6. n \in q.k.minQty .. top
    BY <1>1, <1>6, <2>1, <2>5
  <2>. QED
    BY <1>4, <2>1, <2>2, <2>3, <2>4, <2>6
<1>. QED
  BY <1>9, <1>10 DEF dist

\* The caps end at the best fit, and at zero when nothing fits.
LEMMA SizedIsBestFit ==
    ASSUME NEW q, WellFormed(q), Allowed(q)
    PROVE  LET qty == SizedQuantity(q.t, q.a, q.k, q.ps, Distance(q), q.p) IN
           /\ qty \in Nat
           /\ qty = 0 <=> Fitting(q) = {}
           /\ qty # 0 => qty = BestFit(q) /\ Fits(qty, q.t, q.a, q.k, q.ps, Distance(q), q.p)
           /\ ComputePositionSizing(q.a.equity, Distance(q), q.k, q.p) = 0 => qty = 0
<1> DEFINE qty == SizedQuantity(q.t, q.a, q.k, q.ps, Distance(q), q.p)
           F(n) == Fits(n, q.t, q.a, q.k, q.ps, Distance(q), q.p)
<1>1. Numbers(q.t, q.a, q.k, q.ps, Distance(q), q.p) /\ q.k.minQty > 0
  BY AllowedNumbers
<1>2. /\ qty \in Nat /\ (qty # 0 => F(qty)) /\ (\A n : F(n) => n <= qty)
      /\ ComputePositionSizing(q.a.equity, Distance(q), q.k, q.p) = 0 => qty = 0
  BY <1>1, SizedIsLargest
<1>3. \A n : n \in Fitting(q) <=> F(n)
  BY FittingFits
<1>4. \A n : F(n) => n \in Nat /\ n > 0
  BY <1>1 DEF Fits, Numbers
<1> HIDE DEF qty, F
<1>5. qty = 0 <=> Fitting(q) = {}
  <2>1. ASSUME qty = 0, NEW n \in Fitting(q) PROVE FALSE
    <3>1. F(n) /\ n <= 0 /\ n \in Nat /\ n > 0
      BY <1>2, <1>3, <1>4, <2>1
    <3>. QED
      BY <3>1
  <2>. QED
    BY <1>2, <1>3, <2>1
<1>6. ASSUME qty # 0 PROVE qty = BestFit(q)
  <2>1. qty \in Fitting(q) /\ \A m \in Fitting(q) : m <= qty
    BY <1>2, <1>3, <1>6
  <2>2. BestFit(q) \in Fitting(q) /\ \A m \in Fitting(q) : m <= BestFit(q)
    BY <2>1 DEF BestFit
  <2>3. BestFit(q) \in Nat /\ BestFit(q) <= qty /\ qty <= BestFit(q)
    BY <1>3, <1>4, <2>1, <2>2
  <2>. QED
    BY <1>2, <2>3
<1>. QED
  BY <1>2, <1>5, <1>6 DEF qty, F

\* The engine approves exactly when every check in its order is silent, and then with
\* the sized quantity (RiskEngine.evaluate).
LEMMA AnswerApproves ==
    ASSUME NEW q
    PROVE  LET dist == q.t.entry - RoundToTick(q.t.stop, q.k.tick)
               qty == SizedQuantity(q.t, q.a, q.k, q.ps, dist, q.p)
               ok == /\ Passed(q) /\ SizingReasons(q.t, q.a, q.k, q.ps, dist, q.p) = {}
                     /\ PortfolioGates(q.t, q.a, q.ps, qty, dist, q.p) = {}
           IN  /\ Answer(q).approved <=> ok
               /\ ok => Answer(q).quantity = qty
<1> DEFINE stop == RoundToTick(q.t.stop, q.k.tick)
           dist == q.t.entry - stop
           qty == SizedQuantity(q.t, q.a, q.k, q.ps, dist, q.p)
           c1 == ValidateParameters(q.p)
           c2 == ValidateAccount(q.a)
           c3 == ValidateConstraints(q.k)
           c4 == ValidateProposal(q.t)
           c5 == ValidateOpenPositions(q.ps)
           c6 == CheckLossLimits(q.a, q.p)
           c7 == ValidateLongStop(q.t.entry, stop)
           c8 == BookReasons(q.t, q.ps, q.orders, q.done, q.p)
           c9 == SizingReasons(q.t, q.a, q.k, q.ps, dist, q.p)
           c10 == PortfolioGates(q.t, q.a, q.ps, qty, dist, q.p)
<1>1. Answer(q) = IF c1 # {} THEN Reject(c1) ELSE IF c2 # {} THEN Reject(c2)
                  ELSE IF c3 # {} THEN Reject(c3) ELSE IF c4 # {} THEN Reject(c4)
                  ELSE IF c5 # {} THEN Reject(c5) ELSE IF c6 # {} THEN Reject(c6)
                  ELSE IF c7 # {} THEN Reject(c7) ELSE IF c8 # {} THEN Reject(c8)
                  ELSE IF c9 # {} THEN Reject(c9) ELSE IF c10 # {} THEN Reject(c10)
                  ELSE [approved |-> TRUE, reasons |-> {"RC_RISK_APPROVED"},
                        quantity |-> qty, stop |-> stop]
  BY Zenon DEF Answer, Evaluate
<1>2. Passed(q) <=> /\ c1 = {} /\ c2 = {} /\ c3 = {} /\ c4 = {}
                    /\ c5 = {} /\ c6 = {} /\ c7 = {} /\ c8 = {}
  BY DEF Passed
<1>3. \A c : Reject(c).approved = FALSE
  BY DEF Reject
<1> HIDE DEF c1, c2, c3, c4, c5, c6, c7, c8, c9, c10, qty, stop
<1>4. CASE Passed(q) /\ c9 = {} /\ c10 = {}
  <2>1. Answer(q) = [approved |-> TRUE, reasons |-> {"RC_RISK_APPROVED"},
                     quantity |-> qty, stop |-> stop]
    BY <1>1, <1>2, <1>4, Zenon
  <2>2. Answer(q).approved = TRUE /\ Answer(q).quantity = qty
    BY <2>1
  <2>. QED
    BY <1>4, <2>2 DEF qty, stop, c9, c10
<1>5. CASE ~(Passed(q) /\ c9 = {} /\ c10 = {})
  <2>1. \E c : Answer(q) = Reject(c)
    BY <1>1, <1>2, <1>5, Zenon
  <2>2. Answer(q).approved = FALSE
    BY <1>3, <2>1, Zenon
  <2>. QED
    BY <1>5, <2>2 DEF qty, stop, c9, c10
<1>. QED
  BY <1>4, <1>5

\* The gates after the sizing ask no more than the best fit promises: of the leverage and
\* the margin they can find nothing, since the size was capped for them.
LEMMA GatesAfterSizing ==
    ASSUME NEW q, WellFormed(q), Allowed(q)
    PROVE  LET dist == Distance(q)
               qty == SizedQuantity(q.t, q.a, q.k, q.ps, dist, q.p)
           IN  /\ SizingReasons(q.t, q.a, q.k, q.ps, dist, q.p) = {}
               /\ PortfolioGates(q.t, q.a, q.ps, qty, dist, q.p) = {}
               <=>
               /\ qty # 0 /\ qty * q.t.entry >= q.k.minNotional
               /\ (CurrentOpenRisk(q.ps) + qty * dist * Unit) * Den <= q.a.equity * q.p.portfolio
<1> DEFINE dist == Distance(q)
           qty == SizedQuantity(q.t, q.a, q.k, q.ps, dist, q.p)
           small == qty * q.t.entry * Unit < q.k.minNotional * Unit
           risky == (CurrentOpenRisk(q.ps) + qty * dist * Unit) * Den > q.a.equity * q.p.portfolio
           notional == qty * q.t.entry * Unit
           heavy == \/ TotalNotional(q.ps) + notional > q.p.leverage * q.a.equity
                    \/ notional > q.a.margin * q.p.leverage
           none == ComputePositionSizing(q.a.equity, dist, q.k, q.p) = 0
<1>1. /\ qty \in Nat /\ (none => qty = 0)
      /\ qty # 0 => Fits(qty, q.t, q.a, q.k, q.ps, dist, q.p)
  BY SizedIsBestFit
<1>2. /\ q.t.entry \in Nat /\ dist \in Nat /\ q.a.equity \in Nat /\ q.a.margin \in Nat
      /\ q.p.leverage \in Nat /\ q.p.portfolio \in Nat /\ q.k.minNotional \in Nat
      /\ TotalNotional(q.ps) \in Nat /\ CurrentOpenRisk(q.ps) \in Nat
  BY AllowedNumbers DEF Numbers
<1>3. Unit \in Nat /\ Unit > 0 /\ Den \in Nat
  BY RiskConstants
<1>4. SizingReasons(q.t, q.a, q.k, q.ps, dist, q.p) =
          IF none THEN {"RC_REJECT_RISK_TRADE"} ELSE IF qty = 0 THEN {"RC_REJECT_LEVERAGE"}
          ELSE If(small, "RC_REJECT_RISK_TRADE")
  BY Zenon DEF SizingReasons
<1>5. PortfolioGates(q.t, q.a, q.ps, qty, dist, q.p) =
          IF risky THEN {"RC_REJECT_RISK_PORTFOLIO"} ELSE If(heavy, "RC_REJECT_LEVERAGE")
  BY Zenon DEF PortfolioGates
<1>6. If(small, "RC_REJECT_RISK_TRADE") = {} <=> ~small
  BY Silent
<1>7. If(heavy, "RC_REJECT_LEVERAGE") = {} <=> ~heavy
  BY Silent
<1> HIDE DEF qty, dist
<1>8. ~small <=> qty * q.t.entry >= q.k.minNotional
  <2> DEFINE v == qty * q.t.entry
  <2>1. v \in Nat
    BY <1>1, <1>2
  <2> HIDE DEF v
  <2>2. v >= q.k.minNotional => v * Unit >= q.k.minNotional * Unit
    BY <1>2, <1>3, <2>1
  <2>3. v < q.k.minNotional => v * Unit < q.k.minNotional * Unit
    BY <1>2, <1>3, <2>1
  <2>4. v * Unit \in Nat /\ q.k.minNotional * Unit \in Nat
    BY <1>2, <1>3, <2>1
  <2>5. ~(v * Unit < q.k.minNotional * Unit) <=> v >= q.k.minNotional
    BY <1>2, <2>1, <2>2, <2>3, <2>4
  <2>. QED
    BY <2>5 DEF v
<1>9. ~risky <=> (CurrentOpenRisk(q.ps) + qty * dist * Unit) * Den <= q.a.equity * q.p.portfolio
  <2> DEFINE r == (CurrentOpenRisk(q.ps) + qty * dist * Unit) * Den
             b == q.a.equity * q.p.portfolio
  <2>1. r \in Nat /\ b \in Nat
    BY <1>1, <1>2, <1>3
  <2> HIDE DEF r, b
  <2>2. ~(r > b) <=> r <= b
    BY <2>1
  <2>. QED
    BY <2>2 DEF r, b
<1>10. ASSUME qty # 0 PROVE ~heavy
  <2> DEFINE c == qty * (q.t.entry * Unit)
             l == q.p.leverage * q.a.equity
             m == q.p.leverage * q.a.margin
  <2>1. c <= l - TotalNotional(q.ps) /\ c <= m
    BY <1>1, <1>10 DEF Fits
  <2>2. notional = c /\ q.a.margin * q.p.leverage = m
    BY <1>1, <1>2, <1>3
  <2>3. c \in Nat /\ l \in Nat /\ m \in Nat
    BY <1>1, <1>2, <1>3
  <2>4. heavy <=> TotalNotional(q.ps) + c > l \/ c > m
    BY <2>2
  <2> HIDE DEF c, l, m, heavy
  <2>. QED
    BY <1>2, <2>1, <2>3, <2>4
<1> HIDE DEF small, risky, heavy, none
<1>11. SizingReasons(q.t, q.a, q.k, q.ps, dist, q.p) = {} <=> ~none /\ qty # 0 /\ ~small
  BY <1>4, <1>6
<1>12. PortfolioGates(q.t, q.a, q.ps, qty, dist, q.p) = {} <=> ~risky /\ ~heavy
  BY <1>5, <1>7
<1>13. /\ SizingReasons(q.t, q.a, q.k, q.ps, dist, q.p) = {}
       /\ PortfolioGates(q.t, q.a, q.ps, qty, dist, q.p) = {}
       <=> qty # 0 /\ ~small /\ ~risky
  BY <1>1, <1>10, <1>11, <1>12
<1>. QED
  BY <1>8, <1>9, <1>13 DEF qty, dist

\* The risk engine approves exactly the trades that nothing forbids and that have a size
\* within every limit, and with the largest such size, for every question and all frozen
\* parameters (RiskEngine.evaluate).
LEMMA AnswerIsBestFit ==
    ASSUME NEW q, WellFormed(q)
    PROVE  /\ Answer(q).approved <=> BestFitAccepted(q)
           /\ BestFitAccepted(q) => Answer(q).quantity = BestFit(q)
<1> DEFINE dist == q.t.entry - RoundToTick(q.t.stop, q.k.tick)
           qty == SizedQuantity(q.t, q.a, q.k, q.ps, dist, q.p)
           ok == /\ Passed(q) /\ SizingReasons(q.t, q.a, q.k, q.ps, dist, q.p) = {}
                 /\ PortfolioGates(q.t, q.a, q.ps, qty, dist, q.p) = {}
<1>2. (Answer(q).approved <=> ok) /\ (ok => Answer(q).quantity = qty)
  BY AnswerApproves
<1>3. Passed(q) <=> Allowed(q)
  BY PassedIsAllowed
<1>4. CASE ~Allowed(q)
  BY <1>2, <1>3, <1>4 DEF BestFitAccepted
<1>5. CASE Allowed(q)
  <2>1. dist = Distance(q)
    BY <1>5, AllowedNumbers
  <2> HIDE DEF dist
  <2>2. /\ qty = 0 <=> Fitting(q) = {}
        /\ qty # 0 => qty = BestFit(q)
    BY <1>5, <2>1, SizedIsBestFit
  <2>3. /\ SizingReasons(q.t, q.a, q.k, q.ps, dist, q.p) = {}
        /\ PortfolioGates(q.t, q.a, q.ps, qty, dist, q.p) = {}
        <=>
        /\ qty # 0 /\ qty * q.t.entry >= q.k.minNotional
        /\ (CurrentOpenRisk(q.ps) + qty * dist * Unit) * Den <= q.a.equity * q.p.portfolio
    BY <1>5, <2>1, GatesAfterSizing
  <2> HIDE DEF qty
  <2>4. ok <=> /\ qty # 0 /\ qty * q.t.entry >= q.k.minNotional
               /\ (CurrentOpenRisk(q.ps) + qty * dist * Unit) * Den <= q.a.equity * q.p.portfolio
    BY <1>3, <1>5, <2>3
  <2>5. BestFitAccepted(q) <=>
            /\ Fitting(q) # {} /\ BestFit(q) * q.t.entry >= q.k.minNotional
            /\ (CurrentOpenRisk(q.ps) + BestFit(q) * dist * Unit) * Den <= q.a.equity * q.p.portfolio
    BY <1>5, <2>1 DEF BestFitAccepted
  <2> HIDE DEF ok
  <2>6. ok <=> BestFitAccepted(q)
    <3>1. CASE qty = 0
      BY <2>2, <2>4, <2>5, <3>1, Zenon
    <3>2. CASE qty # 0
      BY <2>2, <2>4, <2>5, <3>2, Zenon
    <3>. QED
      BY <3>1, <3>2
  <2>7. ok => qty = BestFit(q)
    BY <2>2, <2>4
  <2>. QED
    BY <1>2, <2>6, <2>7
<1>. QED
  BY <1>4, <1>5

\* The risk engine answers every question with the best size there is (RiskEngine.evaluate).
THEOREM AnswersAreBestFit == RiskInit => ApprovedIsBestFit
BY RiskQuestionsOK, AnswerIsBestFit DEF RiskInit, ApprovedIsBestFit

-----------------------------------------------------------------------------
(* The backtester's books.                                                   *)

\* A sum with nothing in it, and the type of a sum.
LEMMA SumType ==
    ASSUME NEW f, IsFiniteSet(DOMAIN f), \A x \in DOMAIN f : f[x] \in Int
    PROVE  SumFunction(f) \in Int /\ (DOMAIN f = {} => SumFunction(f) = 0)
<1> DEFINE D == DOMAIN f
<1>1. SumFunctionOnSet(f, {}) = 0 /\ \A s \in SUBSET D : SumFunctionOnSet(f, s) \in Int
  BY SumLaws
<1>2. D \in SUBSET D
  OBVIOUS
<1>. QED
  BY <1>1, <1>2 DEF SumFunction

\* A sum with one term more.
LEMMA SumAdd ==
    ASSUME NEW f, NEW h, NEW x, IsFiniteSet(DOMAIN f), x \notin DOMAIN f,
           DOMAIN h = DOMAIN f \cup {x}, h[x] \in Int,
           \A y \in DOMAIN f : f[y] \in Int /\ h[y] = f[y]
    PROVE  SumFunction(h) = SumFunction(f) + h[x]
<1> DEFINE D == DOMAIN f
           E == DOMAIN h
<1>1. IsFiniteSet(E) /\ D \in SUBSET E /\ x \in E \ D
  BY FS_AddElement
<1>2. \A y \in E : h[y] \in Int
  OBVIOUS
<1>3. SumFunctionOnSet(h, D \cup {x}) = SumFunctionOnSet(h, D) + h[x]
  BY <1>1, <1>2, SumLaws
<1>4. SumFunctionOnSet(h, D) = SumFunctionOnSet(f, D)
  BY SumSame
<1>. QED
  BY <1>3, <1>4 DEF SumFunction

\* A sum with one term changed.
LEMMA SumChange ==
    ASSUME NEW f, NEW h, NEW x, IsFiniteSet(DOMAIN f), x \in DOMAIN f,
           DOMAIN h = DOMAIN f, h[x] \in Int,
           \A y \in DOMAIN f : f[y] \in Int /\ (y # x => h[y] = f[y])
    PROVE  SumFunction(h) = SumFunction(f) - f[x] + h[x]
<1> DEFINE D == DOMAIN f
<1>1. PICK s \in SUBSET D : s = D \ {x}
  OBVIOUS
<1>2. D = s \cup {x} /\ x \in D \ s /\ IsFiniteSet(s)
  BY <1>1, FS_Subset
<1>3. \A y \in D : h[y] \in Int
  OBVIOUS
<1>4. SumFunctionOnSet(h, s \cup {x}) = SumFunctionOnSet(h, s) + h[x]
  BY <1>2, <1>3, SumLaws
<1>5. /\ SumFunctionOnSet(f, s \cup {x}) = SumFunctionOnSet(f, s) + f[x]
      /\ SumFunctionOnSet(f, s) \in Int
  BY <1>2, SumLaws
<1>6. SumFunctionOnSet(h, s) = SumFunctionOnSet(f, s)
  BY <1>1, <1>2, SumSame
<1>7. SumFunction(h) = SumFunctionOnSet(f, s) + h[x] /\ SumFunction(f) = SumFunctionOnSet(f, s) + f[x]
  BY <1>2, <1>4, <1>5, <1>6 DEF SumFunction
<1>. QED
  BY <1>3, <1>5, <1>7

\* What is true at the start and carried from each step to the next is true throughout.
LEMMA StepInduction ==
    ASSUME NEW n \in Nat, NEW I, 0 \in I, \A k \in 1..n : k - 1 \in I => k \in I
    PROVE  \A k \in 0..n : k \in I
<1> DEFINE B == {k \in 0..n : k \notin I}
<1>1. SUFFICES ASSUME B # {} PROVE FALSE
  OBVIOUS
<1>2. B \subseteq Nat
  OBVIOUS
<1>3. PICK k \in B : \A j \in B : ~ (<<j, k>> \in OpToRel(<, Nat))
  BY <1>1, <1>2, WFMin, NatLessThanWellFounded, Zenon
<1>4. \A j \in B : ~ (j < k)
  BY <1>2, <1>3 DEF OpToRel
<1>5. k \in 1..n /\ k - 1 \in 0..n /\ k - 1 < k
  OBVIOUS
<1>6. k - 1 \notin B
  <2> HIDE DEF B
  <2>. QED
    BY <1>4, <1>5
<1>. QED
  BY <1>5, <1>6

\* One turn of a loop over the symbols, and the fold's equation.
LoopStep(loop, input, r, s) == IF s \in DOMAIN candles THEN Handle(loop, input, r, s) ELSE r
Turns(loop, input, D, g) ==
    [s \in SUBSET D |->
        IF s = {} THEN rt ELSE LoopStep(loop, input, g[s \ {Max(s)}], SymbolOrder[Max(s)])]

\* The fold's recursive function exists: it is built one cardinality at a time.
LEMMA TurnsExist ==
    ASSUME NEW D, IsFiniteSet(D), D \subseteq Int, NEW loop, NEW input
    PROVE  \E g : g = Turns(loop, input, D, g)
<1> DEFINE Layer(n) == {s \in SUBSET D : Cardinality(s) <= n}
           Value(g, s) == IF s = {} THEN rt
                          ELSE LoopStep(loop, input, g[s \ {Max(s)}], SymbolOrder[Max(s)])
           Runs(n, g) == g = [s \in Layer(n) |-> Value(g, s)]
           B == {n \in Nat : ~\E g : Runs(n, g)}
<1>1. \A s \in SUBSET D : IsFiniteSet(s) /\ Cardinality(s) \in Nat
  BY FS_Subset, FS_CardinalityType
<1>2. \A s \in SUBSET D : s # {} => /\ Max(s) \in s /\ s \ {Max(s)} \in SUBSET D
                                    /\ Cardinality(s \ {Max(s)}) = Cardinality(s) - 1
  BY <1>1, MaxExists, FS_RemoveElement
<1>3. \E g : Runs(0, g)
  <2>1. Layer(0) = {{}}
    BY <1>1, FS_EmptySet
  <2>2. Runs(0, [s \in Layer(0) |-> rt])
    BY <2>1
  <2>. QED
    BY <2>2
<1>4. ASSUME NEW n \in Nat, NEW g, Runs(n, g) PROVE \E h : Runs(n + 1, h)
  <2> DEFINE h == [s \in Layer(n + 1) |-> Value(g, s)]
  <2>1. \A s \in Layer(n) : s \in Layer(n + 1) /\ h[s] = g[s]
    <3>1. ASSUME NEW s \in Layer(n) PROVE s \in Layer(n + 1)
      BY <1>1
    <3>2. ASSUME NEW s \in Layer(n)
          PROVE  g[s] = Value(g, s)
      BY <1>4, Zenon
    <3>3. ASSUME NEW s \in Layer(n + 1)
          PROVE  h[s] = Value(g, s)
      BY Zenon
    <3> HIDE DEF h, Layer, Value
    <3>. QED
      BY <3>1, <3>2, <3>3
  <2>2. \A s \in Layer(n + 1) : s # {} => s \ {Max(s)} \in Layer(n)
    BY <1>1, <1>2
  <2>3. \A s \in Layer(n + 1) : s # {} => h[s \ {Max(s)}] = g[s \ {Max(s)}]
    <3> HIDE DEF h, Layer
    <3>. QED
      BY <2>1, <2>2
  <2>4. h = [s \in Layer(n + 1) |-> Value(h, s)]
    <3>1. \A s \in Layer(n + 1) : h[s] = Value(h, s)
      BY <2>3, Zenon
    <3>. QED
      BY <3>1, Zenon
  <2>. QED
    BY <2>4
<1>5. B = {}
  <2>1. SUFFICES ASSUME B # {} PROVE FALSE
    OBVIOUS
  <2>2. PICK n \in B : \A m \in B : ~ (<<m, n>> \in OpToRel(<, Nat))
    BY <2>1, WFMin, NatLessThanWellFounded, Zenon
  <2>3. \A m \in B : ~ (m < n)
    BY <2>2 DEF OpToRel
  <2> HIDE DEF Runs
  <2>4. n # 0
    BY <1>3
  <2>5. n \in Nat /\ n - 1 \in Nat /\ n - 1 < n /\ (n - 1) + 1 = n
    BY <2>4
  <2>6. n - 1 \notin B
    <3> HIDE DEF B
    <3>. QED
      BY <2>3, <2>5
  <2>7. PICK g : Runs(n - 1, g)
    BY <2>5, <2>6
  <2>8. PICK h : Runs((n - 1) + 1, h)
    BY <1>4, <2>5, <2>7
  <2>9. \E k : Runs(n, k)
    BY <2>5, <2>8
  <2>. QED
    BY <2>9
<1>6. PICK n \in Nat : n = Cardinality(D)
  BY FS_CardinalityType
<1>7. Layer(n) = SUBSET D
  BY <1>6, FS_Subset
<1>8. PICK g : Runs(n, g)
  <2> HIDE DEF Runs
  <2>. QED
    BY <1>5
<1>9. g = Turns(loop, input, D, g)
  <2> HIDE DEF Layer
  <2>. QED
    BY <1>7, <1>8 DEF Turns
<1>. QED
  BY <1>9

\* A loop over the symbols, turn by turn.
LEMMA LoopSteps ==
    ASSUME NEW loop, NEW input
    PROVE  \E h : /\ h[0] = rt
                  /\ \A k \in 1..Len(SymbolOrder) :
                        h[k] = LoopStep(loop, input, h[k - 1], SymbolOrder[k])
                  /\ ForEachSymbol(loop, input) = h[Len(SymbolOrder)]
<1> DEFINE n == Len(SymbolOrder)
           g == CHOOSE f : f = Turns(loop, input, 1..n, f)
           h == [k \in 0..n |-> g[1..k]]
<1>1. n \in Nat /\ DOMAIN SymbolOrder = 1..n /\ IsFiniteSet(1..n) /\ 1..n \subseteq Int
  BY BacktestNumbers, FS_Interval
<1>2. g = Turns(loop, input, 1..n, g)
  BY <1>1, TurnsExist
<1>3. ForEachSymbol(loop, input) = g[1..n]
  BY <1>1 DEF ForEachSymbol, FoldLeft, MapThenFoldSet, Turns, LoopStep
<1> HIDE DEF g
<1>4. ASSUME NEW s \in SUBSET (1..n)
      PROVE  g[s] = IF s = {} THEN rt ELSE LoopStep(loop, input, g[s \ {Max(s)}], SymbolOrder[Max(s)])
  <2>1. Turns(loop, input, 1..n, g)[s] =
            IF s = {} THEN rt ELSE LoopStep(loop, input, g[s \ {Max(s)}], SymbolOrder[Max(s)])
    BY Zenon DEF Turns
  <2>. QED
    BY <1>2, <2>1
<1>5. h[0] = rt
  <2>1. 1..0 = {} /\ {} \in SUBSET (1..n)
    OBVIOUS
  <2>2. g[{}] = rt
    BY <1>4, <2>1
  <2>. QED
    BY <1>1, <2>1, <2>2
<1>6. ASSUME NEW k \in 1..n PROVE h[k] = LoopStep(loop, input, h[k - 1], SymbolOrder[k])
  <2>1. 1..k \in SUBSET (1..n) /\ 1..k # {} /\ k - 1 \in 0..n /\ k \in 0..n
    <3> HIDE DEF n
    <3>1. k \in Nat /\ 1 <= k /\ k <= n
      BY <1>1
    <3>2. k - 1 \in 0..n /\ k \in 0..n /\ k \in 1..k
      BY <1>1, <3>1
    <3>3. \A i \in 1..k : i \in 1..n
      BY <1>1, <3>1
    <3>. QED
      BY <3>2, <3>3
  <2>2. Max(1..k) = k
    <3>1. IsFiniteSet(1..k) /\ 1..k \subseteq Int /\ k \in 1..k
      BY <1>1, <2>1, FS_Subset
    <3>2. Max(1..k) \in 1..k /\ k <= Max(1..k)
      BY <3>1, <2>1, MaxExists
    <3>. QED
      BY <3>2
  <2>3. (1..k) \ {k} = 1..(k - 1)
    BY <1>1
  <2>4. g[1..k] = LoopStep(loop, input, g[1..(k - 1)], SymbolOrder[k])
    BY <1>4, <2>1, <2>2, <2>3
  <2>. QED
    BY <2>1, <2>4
<1>7. h[n] = g[1..n]
  BY <1>1
<1> HIDE DEF h
<1>. QED
  BY <1>3, <1>5, <1>6, <1>7

\* For each key, the sum of the elements that have it.
KeySums(D, f, K, key) == [k \in K |-> SumFunction([i \in D |-> IF key[i] = k THEN f[i] ELSE 0])]

\* The sums by key add up to the sum of all elements.
LEMMA SumByKey ==
    ASSUME NEW D, IsFiniteSet(D), NEW f, \A i \in D : f[i] \in Int,
           NEW K, IsFiniteSet(K), NEW key, \A i \in D : key[i] \in K
    PROVE  SumFunction(KeySums(D, f, K, key)) = SumFunctionOnSet(f, D)
<1> DEFINE part(k) == [i \in D |-> IF key[i] = k THEN f[i] ELSE 0]
           table(s) == [k \in K |-> SumFunctionOnSet(part(k), s)]
           Q == {s \in SUBSET D : SumFunction(table(s)) = SumFunctionOnSet(f, s)}
<1>1. \A k : \A i \in D : part(k)[i] \in Int /\ part(k)[i] = IF key[i] = k THEN f[i] ELSE 0
  OBVIOUS
<1>2. /\ SumFunctionOnSet(f, {}) = 0
      /\ \A s \in SUBSET D : SumFunctionOnSet(f, s) \in Int
      /\ \A s \in SUBSET D : \A x \in D \ s :
            SumFunctionOnSet(f, s \cup {x}) = SumFunctionOnSet(f, s) + f[x]
  BY SumLaws
<1> HIDE DEF part
<1>3. ASSUME NEW k
      PROVE  /\ SumFunctionOnSet(part(k), {}) = 0
             /\ \A s \in SUBSET D : SumFunctionOnSet(part(k), s) \in Int
             /\ \A s \in SUBSET D : \A x \in D \ s :
                   SumFunctionOnSet(part(k), s \cup {x}) = SumFunctionOnSet(part(k), s) + part(k)[x]
  <2>1. PICK h : h = part(k)
    OBVIOUS
  <2>2. \A i \in D : h[i] \in Int
    BY <1>1, <2>1
  <2>. QED
    BY <2>1, <2>2, SumLaws
<1>4. \A s : DOMAIN table(s) = K /\ \A k \in K : table(s)[k] = SumFunctionOnSet(part(k), s)
  OBVIOUS
<1> HIDE DEF table
<1>5. {} \in Q
  <2>1. {} \in SUBSET D /\ \A k \in K : table({})[k] = 0
    BY <1>3, <1>4
  <2>2. SumFunction(table({})) = 0
    <3>1. PICK z : z = [k \in K |-> 0]
      OBVIOUS
    <3>2. \A k \in K : table({})[k] = z[k]
      BY <2>1, <3>1
    <3>3. SumFunctionOnSet(table({}), K) = SumFunctionOnSet(z, K)
      BY <3>2, SumSame
    <3>4. SumFunctionOnSet(z, K) = 0
      <4> DEFINE Z == {s \in SUBSET K : SumFunctionOnSet(z, s) = 0}
      <4>1. \A x \in K : z[x] = 0
        BY <3>1
      <4>2. /\ SumFunctionOnSet(z, {}) = 0
            /\ \A s \in SUBSET K : \A x \in K \ s :
                  SumFunctionOnSet(z, s \cup {x}) = SumFunctionOnSet(z, s) + z[x]
        BY <4>1, SumLaws
      <4>3. ASSUME NEW s \in SUBSET K, \A y \in s : s \ {y} \in Z PROVE s \in Z
        <5>1. CASE s = {}
          BY <4>2, <5>1
        <5>2. CASE s # {}
          <6>1. PICK y \in s : TRUE
            BY <5>2
          <6>2. PICK r \in SUBSET K : r = s \ {y}
            OBVIOUS
          <6>3. s = r \cup {y} /\ y \in K \ r /\ SumFunctionOnSet(z, r) = 0 /\ z[y] = 0
            BY <4>1, <4>3, <6>1, <6>2
          <6>4. SumFunctionOnSet(z, r \cup {y}) = SumFunctionOnSet(z, r) + z[y]
            BY <4>2, <6>3
          <6>. QED
            BY <6>3, <6>4
        <5>. QED
          BY <5>1, <5>2
      <4>4. K \in SUBSET K
        OBVIOUS
      <4> HIDE DEF Z
      <4>5. K \in Z
        BY <4>3, <4>4, SubsetInduction
      <4>. QED
        BY <4>5 DEF Z
    <3>. QED
      BY <1>4, <3>3, <3>4 DEF SumFunction
  <2>. QED
    BY <1>2, <2>1, <2>2
<1>6. ASSUME NEW s \in SUBSET D, \A y \in s : s \ {y} \in Q, s # {} PROVE s \in Q
  <2>1. PICK y \in s : TRUE
    BY <1>6
  <2>2. PICK r \in SUBSET D : r = s \ {y}
    OBVIOUS
  <2>3. s = r \cup {y} /\ y \in D \ r /\ SumFunction(table(r)) = SumFunctionOnSet(f, r)
    BY <1>6, <2>1, <2>2
  <2>4. PICK x \in K : x = key[y]
    BY <2>3
  <2>5. \A k \in K : /\ table(s)[k] = table(r)[k] + (IF k = x THEN f[y] ELSE 0)
                     /\ table(r)[k] \in Int
    BY <1>1, <1>3, <1>4, <2>3, <2>4
  <2>6. f[y] \in Int /\ SumFunctionOnSet(f, s) = SumFunctionOnSet(f, r) + f[y]
        /\ SumFunctionOnSet(f, r) \in Int
    BY <1>2, <2>3
  <2>7. SumFunction(table(s)) = SumFunction(table(r)) - table(r)[x] + table(s)[x]
    <3>1. PICK a, b : a = table(r) /\ b = table(s)
      OBVIOUS
    <3>2. /\ IsFiniteSet(DOMAIN a) /\ x \in DOMAIN a /\ DOMAIN b = DOMAIN a /\ b[x] \in Int
          /\ \A k \in DOMAIN a : a[k] \in Int /\ (k # x => b[k] = a[k])
      BY <1>4, <2>4, <2>5, <2>6, <3>1
    <3>. QED
      BY <3>1, <3>2, SumChange
  <2>8. table(s)[x] = table(r)[x] + f[y] /\ table(r)[x] \in Int
    BY <2>4, <2>5
  <2>. QED
    BY <2>3, <2>6, <2>7, <2>8
<1> HIDE DEF Q
<1>7. D \in Q
  <2>1. \A s \in SUBSET D : (\A y \in s : s \ {y} \in Q) => s \in Q
    BY <1>5, <1>6
  <2>2. D \in SUBSET D
    OBVIOUS
  <2>. QED
    BY <2>1, <2>2, SubsetInduction
<1>8. table(D) = KeySums(D, f, K, key)
  BY DEF table, part, SumFunction, KeySums
<1>. QED
  BY <1>7, <1>8 DEF Q

-----------------------------------------------------------------------------
(* The records of the _Runtime.                                            *)
EntryTypes == {g.type : g \in Signals}
IntentIds == [symbol : Symbols, day : Nat, type : EntryTypes]
Intents == [id : IntentIds, symbol : Symbols, atr : Int]
Positions == [qty : Int, entry : Int, initial : Int, trail : Int, effective : Int,
              highest : Int, atr : Int, margin : Int, id : IntentIds]
OpenTrades == [type : EntryTypes, fees : Int, funding : Int, entryDay : Nat]
ClosedTrades == [symbol : Symbols, type : EntryTypes, net : Int, entryDay : Nat]
Dicts(K, V) == UNION {[D -> V] : D \in SUBSET K}
Runtimes ==
    [cash : Int, positions : Dicts(Symbols, Positions), pending : SUBSET Intents,
     processed : SUBSET (IntentIds \cup InitialProcessed),
     orders : Dicts(IntentIds, {"FILLED", "REJECTED"}),
     active : Dicts(Symbols, OpenTrades), closed : Seq(ClosedTrades),
     fees : Int, funding : Int, slippage : Int, realized : Int]

\* The metrics of any trades add up to their net result, by sign, symbol and entry type.
LEMMA MetricsAddUp ==
    ASSUME NEW trades \in Seq(ClosedTrades)
    PROVE  LET metrics == ComputeMetrics(trades) IN
           /\ NetOf(trades) = metrics.gross_profit - metrics.gross_loss
           /\ NetOf(trades) = SumFunction(metrics.per_symbol)
           /\ NetOf(trades) = SumFunction(metrics.per_entry)
<1> DEFINE D == DOMAIN trades
           f == [i \in D |-> trades[i].net]
           metrics == ComputeMetrics(trades)
<1>1. D = 1..Len(trades) /\ Len(trades) \in Nat /\ IsFiniteSet(D)
  BY FS_Interval
<1>2. \A i \in D : trades[i] \in ClosedTrades
  OBVIOUS
<1>3. DOMAIN f = D /\ \A i \in D : f[i] \in Int /\ f[i] = trades[i].net
  BY <1>2 DEF ClosedTrades
<1>4. NetOf(trades) = SumFunction(f)
  BY DEF NetOf, SumOver
<1>5. SumFunction(f) = SumFunctionOnSet(f, D)
  BY <1>3 DEF SumFunction
<1>6. IsFiniteSet(Range(trades))
  <2>1. trades \in Surjection(D, Range(trades))
    BY DEF Surjection, Range
  <2>. QED
    BY <1>1, <2>1, FS_Surjection
<1>7. NetOf(trades) = SumFunction(metrics.per_symbol)
  <2> DEFINE K == {t.symbol : t \in Range(trades)}
             key == [i \in D |-> trades[i].symbol]
  <2>1. IsFiniteSet(K)
    <3>1. [t \in Range(trades) |-> t.symbol] \in Surjection(Range(trades), K)
      BY DEF Surjection
    <3>. QED
      BY <1>6, <3>1, FS_Surjection
  <2>2. \A i \in D : key[i] \in K
    BY DEF Range
  <2>3. metrics.per_symbol =
          [k \in K |-> SumFunction([i \in D |-> IF trades[i].symbol = k THEN trades[i].net ELSE 0])]
    BY DEF ComputeMetrics, NetWhere, SumOver
  <2>4. metrics.per_symbol = KeySums(D, f, K, key)
    BY <2>3, Zenon DEF KeySums
  <2> HIDE DEF K, key, D, f, metrics
  <2>5. IsFiniteSet(D) /\ \A i \in D : f[i] \in Int
    BY <1>1, <1>3
  <2>6. SumFunction(KeySums(D, f, K, key)) = SumFunctionOnSet(f, D)
    BY <2>1, <2>2, <2>5, SumByKey, Zenon
  <2>. QED
    BY <1>4, <1>5, <2>4, <2>6, Zenon
<1>8. NetOf(trades) = SumFunction(metrics.per_entry)
  <2> DEFINE K == {t.type : t \in Range(trades)}
             key == [i \in D |-> trades[i].type]
  <2>1. IsFiniteSet(K)
    <3>1. [t \in Range(trades) |-> t.type] \in Surjection(Range(trades), K)
      BY DEF Surjection
    <3>. QED
      BY <1>6, <3>1, FS_Surjection
  <2>2. \A i \in D : key[i] \in K
    BY DEF Range
  <2>3. metrics.per_entry =
          [k \in K |-> SumFunction([i \in D |-> IF trades[i].type = k THEN trades[i].net ELSE 0])]
    BY DEF ComputeMetrics, NetWhere, SumOver
  <2>4. metrics.per_entry = KeySums(D, f, K, key)
    BY <2>3, Zenon DEF KeySums
  <2> HIDE DEF K, key, D, f, metrics
  <2>5. IsFiniteSet(D) /\ \A i \in D : f[i] \in Int
    BY <1>1, <1>3
  <2>6. SumFunction(KeySums(D, f, K, key)) = SumFunctionOnSet(f, D)
    BY <2>1, <2>2, <2>5, SumByKey, Zenon
  <2>. QED
    BY <1>4, <1>5, <2>4, <2>6, Zenon
<1>9. NetOf(trades) = metrics.gross_profit - metrics.gross_loss
  <2> DEFINE K == {"win", "loss"}
             key == [i \in D |-> IF trades[i].net > 0 THEN "win" ELSE "loss"]
             part(k) == [i \in D |-> IF key[i] = k THEN f[i] ELSE 0]
             table == [k \in K |-> SumFunction(part(k))]
  <2>1. metrics.gross_profit = table["win"]
    <3>1. metrics.gross_profit = SumFunction([i \in D |-> IF trades[i].net > 0 THEN trades[i].net ELSE 0])
      BY DEF ComputeMetrics, NetWhere, SumOver
    <3>2. [i \in D |-> IF trades[i].net > 0 THEN trades[i].net ELSE 0] = part("win")
      OBVIOUS
    <3>. QED
      BY <3>1, <3>2
  <2>2. metrics.gross_loss = -table["loss"]
    <3>1. metrics.gross_loss = -SumFunction([i \in D |-> IF trades[i].net <= 0 THEN trades[i].net ELSE 0])
      BY DEF ComputeMetrics, NetWhere, SumOver
    <3>2. [i \in D |-> IF trades[i].net <= 0 THEN trades[i].net ELSE 0] = part("loss")
      <4>1. \A i \in D : trades[i].net \in Int
        BY <1>3
      <4>. QED
        BY <4>1
    <3>. QED
      BY <3>1, <3>2
  <2>3. \A k \in K : table[k] \in Int
    <3>1. ASSUME NEW k \in K PROVE SumFunction(part(k)) \in Int
      <4>1. PICK h : h = part(k)
        OBVIOUS
      <4>2. DOMAIN h = D /\ \A i \in D : h[i] \in Int
        BY <1>3, <4>1
      <4>. QED
        BY <1>1, <4>1, <4>2, SumType
    <3>. QED
      BY <3>1
  <2>4. (\A i \in D : key[i] \in K) /\ IsFiniteSet(K)
    <3>1. IsFiniteSet({"win"}) /\ {"win"} \cup {"loss"} = K
      BY FS_Singleton
    <3>. QED
      BY <3>1, FS_AddElement
  <2>5. SumFunction(table) = NetOf(trades)
    <3>1. table = KeySums(D, f, K, key)
      BY DEF KeySums
    <3> HIDE DEF K, key, D, f, table
    <3>. QED
      BY <1>1, <1>3, <1>4, <1>5, <2>4, <3>1, SumByKey
  <2>6. SumFunction(table) = table["win"] + table["loss"]
    <3>0. DOMAIN table = K /\ table["win"] \in Int /\ table["loss"] \in Int
      BY <2>3
    <3> HIDE DEF table
    <3>1. PICK t : t = table
      OBVIOUS
    <3>2. IsFiniteSet(K) /\ \A x \in K : t[x] \in Int
      BY <2>3, <2>4, <3>1
    <3>3. /\ SumFunctionOnSet(t, {}) = 0
          /\ \A s \in SUBSET K : \A x \in K \ s :
                SumFunctionOnSet(t, s \cup {x}) = SumFunctionOnSet(t, s) + t[x]
      <4> HIDE DEF K
      <4>. QED
        BY <3>2, SumLaws
    <3>4. SumFunctionOnSet(t, {"win"}) = t["win"]
      <4>1. {} \in SUBSET K /\ "win" \in K \ {} /\ {} \cup {"win"} = {"win"}
        OBVIOUS
      <4>. QED
        BY <3>0, <3>1, <3>3, <4>1
    <3>5. SumFunctionOnSet(t, K) = SumFunctionOnSet(t, {"win"}) + t["loss"]
      <4>1. {"win"} \in SUBSET K /\ "loss" \in K \ {"win"} /\ {"win"} \cup {"loss"} = K
        OBVIOUS
      <4>. QED
        BY <3>3, <4>1
    <3>. QED
      BY <3>0, <3>1, <3>4, <3>5 DEF SumFunction
  <2>7. table["win"] \in Int /\ table["loss"] \in Int
    BY <2>3
  <2> HIDE DEF table, metrics
  <2>. QED
    BY <2>1, <2>2, <2>5, <2>6, <2>7
<1>. QED
  BY <1>7, <1>8, <1>9

\* There are finitely many symbols.
LEMMA SymbolsFinite == IsFiniteSet(Symbols)
<1>1. DOMAIN SymbolOrder = 1..Len(SymbolOrder) /\ Len(SymbolOrder) \in Nat
  BY BacktestNumbers
<1>2. SymbolOrder \in Surjection(1..Len(SymbolOrder), Symbols)
  BY <1>1, BacktestNumbers DEF Surjection, Symbols, Range
<1>. QED
  BY <1>1, <1>2, FS_Interval, FS_Surjection

\* One trade more adds its net result.
LEMMA NetAppend ==
    ASSUME NEW trades \in Seq(ClosedTrades), NEW t \in ClosedTrades
    PROVE  /\ NetOf(trades) \in Int
           /\ NetOf(Append(trades, t)) = NetOf(trades) + t.net
<1> DEFINE n == Len(trades)
           f == [i \in DOMAIN trades |-> trades[i].net]
           h == [i \in DOMAIN Append(trades, t) |-> Append(trades, t)[i].net]
<1>1. n \in Nat /\ DOMAIN trades = 1..n /\ IsFiniteSet(1..n) /\ \A i \in 1..n : trades[i] \in ClosedTrades
  BY FS_Interval
<1>2. DOMAIN Append(trades, t) = 1..(n + 1) /\ Append(trades, t)[n + 1] = t
      /\ \A i \in 1..n : Append(trades, t)[i] = trades[i]
  BY <1>1
<1>3. NetOf(trades) = SumFunction(f) /\ NetOf(Append(trades, t)) = SumFunction(h)
  BY DEF NetOf, SumOver
<1>4. \A i \in 1..n : f[i] \in Int /\ h[i] = f[i] /\ i # n + 1
  BY <1>1, <1>2 DEF ClosedTrades
<1>5. h[n + 1] = t.net /\ t.net \in Int
  BY <1>1, <1>2 DEF ClosedTrades
<1>6. DOMAIN f = 1..n /\ DOMAIN h = (1..n) \cup {n + 1}
  BY <1>1, <1>2
<1> HIDE DEF f, h, n
<1>7. SumFunction(f) \in Int
  BY <1>1, <1>4, <1>6, SumType
<1>8. SumFunction(h) = SumFunction(f) + h[n + 1]
  <2>1. PICK x : x = n + 1
    OBVIOUS
  <2>2. x \notin DOMAIN f /\ DOMAIN h = DOMAIN f \cup {x} /\ h[x] \in Int
    BY <1>1, <1>4, <1>5, <1>6, <2>1
  <2>3. \A y \in DOMAIN f : f[y] \in Int /\ h[y] = f[y]
    BY <1>4, <1>6
  <2>4. IsFiniteSet(DOMAIN f)
    BY <1>1, <1>6
  <2>. QED
    BY <2>1, <2>2, <2>3, <2>4, SumAdd
<1>. QED
  BY <1>3, <1>5, <1>7, <1>8

\* What the open trades have paid so far.
PaidBy(t) == t.fees + t.funding
Paid(active) == SumFunction([s \in DOMAIN active |-> PaidBy(active[s])])

\* A trade more.
LEMMA PaidWith ==
    ASSUME NEW a \in Dicts(Symbols, OpenTrades), NEW s \in Symbols, s \notin DOMAIN a,
           NEW t \in OpenTrades
    PROVE  Paid(a) \in Int /\ Paid(With(a, s, t)) = Paid(a) + PaidBy(t)
<1> DEFINE f == [x \in DOMAIN a |-> PaidBy(a[x])]
           b == With(a, s, t)
           h == [x \in DOMAIN b |-> PaidBy(b[x])]
<1>1. DOMAIN a \in SUBSET Symbols /\ \A x \in DOMAIN a : a[x] \in OpenTrades
  BY DEF Dicts
<1>2. IsFiniteSet(DOMAIN a)
  BY <1>1, SymbolsFinite, FS_Subset
<1>3. DOMAIN b = DOMAIN a \cup {s} /\ b[s] = t /\ \A x \in DOMAIN a : b[x] = a[x]
  BY DEF With
<1>4. PaidBy(t) \in Int /\ \A x \in DOMAIN a : PaidBy(a[x]) \in Int
  BY <1>1 DEF PaidBy, OpenTrades
<1> HIDE DEF b
<1>5. /\ DOMAIN f = DOMAIN a /\ DOMAIN h = DOMAIN f \cup {s} /\ h[s] = PaidBy(t)
      /\ \A x \in DOMAIN f : f[x] \in Int /\ h[x] = f[x]
  BY <1>3, <1>4
<1>6. Paid(a) = SumFunction(f) /\ Paid(b) = SumFunction(h)
  BY DEF Paid
<1> HIDE DEF f, h
<1>7. SumFunction(f) \in Int
  BY <1>2, <1>5, SumType
<1>8. SumFunction(h) = SumFunction(f) + h[s]
  BY <1>2, <1>4, <1>5, SumAdd
<1>. QED
  BY <1>5, <1>6, <1>7, <1>8 DEF b

\* A trade less.
LEMMA PaidWithout ==
    ASSUME NEW a \in Dicts(Symbols, OpenTrades), NEW s \in DOMAIN a
    PROVE  Paid(Without(a, s)) \in Int /\ Paid(a) = Paid(Without(a, s)) + PaidBy(a[s])
<1> DEFINE b == Without(a, s)
<1>1. DOMAIN a \in SUBSET Symbols /\ a[s] \in OpenTrades /\ s \in Symbols
      /\ a = [x \in DOMAIN a |-> a[x]] /\ \A x \in DOMAIN a : a[x] \in OpenTrades
  BY DEF Dicts
<1>2. b \in Dicts(Symbols, OpenTrades) /\ s \notin DOMAIN b
  <2>1. b \in [DOMAIN a \ {s} -> OpenTrades] /\ DOMAIN a \ {s} \in SUBSET Symbols
    BY <1>1 DEF Without
  <2>. QED
    BY <2>1 DEF Dicts
<1>3. With(b, s, a[s]) = a
  <2>1. DOMAIN b \cup {s} = DOMAIN a /\ \A x \in DOMAIN b : b[x] = a[x]
    BY <1>1 DEF Without
  <2>2. With(b, s, a[s]) = [x \in DOMAIN a |-> a[x]]
    BY <2>1 DEF With
  <2>. QED
    BY <1>1, <2>2
<1> HIDE DEF b
<1>. QED
  BY <1>1, <1>2, <1>3, PaidWith DEF b

\* A trade that pays more.
LEMMA PaidMore ==
    ASSUME NEW a \in Dicts(Symbols, OpenTrades), NEW s \in DOMAIN a, NEW t \in OpenTrades
    PROVE  Paid(a) \in Int /\ Paid([a EXCEPT ![s] = t]) = Paid(a) - PaidBy(a[s]) + PaidBy(t)
<1> DEFINE f == [x \in DOMAIN a |-> PaidBy(a[x])]
           b == [a EXCEPT ![s] = t]
           h == [x \in DOMAIN b |-> PaidBy(b[x])]
<1>1. DOMAIN a \in SUBSET Symbols /\ \A x \in DOMAIN a : a[x] \in OpenTrades
  BY DEF Dicts
<1>2. IsFiniteSet(DOMAIN a)
  BY <1>1, SymbolsFinite, FS_Subset
<1>3. DOMAIN b = DOMAIN a /\ b[s] = t /\ \A x \in DOMAIN a : x # s => b[x] = a[x]
  OBVIOUS
<1>4. PaidBy(t) \in Int /\ \A x \in DOMAIN a : PaidBy(a[x]) \in Int
  BY <1>1 DEF PaidBy, OpenTrades
<1> HIDE DEF b
<1>5. /\ DOMAIN f = DOMAIN a /\ DOMAIN h = DOMAIN f /\ h[s] = PaidBy(t) /\ f[s] = PaidBy(a[s])
      /\ \A x \in DOMAIN f : f[x] \in Int /\ (x # s => h[x] = f[x])
  BY <1>3, <1>4
<1>6. Paid(a) = SumFunction(f) /\ Paid(b) = SumFunction(h)
  BY DEF Paid
<1> HIDE DEF f, h
<1>7. SumFunction(f) \in Int
  BY <1>2, <1>5, SumType
<1>8. SumFunction(h) = SumFunction(f) - f[s] + h[s]
  BY <1>2, <1>4, <1>5, SumChange
<1>. QED
  BY <1>5, <1>6, <1>7, <1>8 DEF b

\* The book handed to the risk engine is a sequence.
LEMMA BookIsSequence ==
    ASSUME NEW ps \in Dicts(Symbols, Positions), NEW marks
    PROVE  ToPositionStates(ps, marks) \in Seq(Range(ToPositionStates(ps, marks)))
<1> DEFINE S == {s \in DOMAIN ps : ps[s].qty > 0 /\ marks[s] > 0}
           held == SetToSeq(S)
           book == ToPositionStates(ps, marks)
<1>1. IsFiniteSet(S)
  <2>1. S \in SUBSET Symbols
    BY DEF Dicts
  <2>. QED
    BY <2>1, SymbolsFinite, FS_Subset
<1> HIDE DEF S
<1>2. PICK n \in Nat : n = Cardinality(S)
  BY <1>1, FS_CardinalityType
<1>3. ExistsBijection(1..n, S)
  BY <1>1, <1>2, FS_CardinalityType
<1>4. \E f \in [1..n -> S] : IsInjective(f)
  BY <1>3 DEF ExistsBijection, Bijection, Injection
<1>5. held \in [1..n -> S]
  BY <1>2, <1>4 DEF SetToSeq
<1>6. DOMAIN held = 1..n
  BY <1>5
<1>7. book = [i \in DOMAIN held |->
                [symbol |-> held[i], entry |-> ps[held[i]].entry, size |-> ps[held[i]].qty,
                 initial |-> ps[held[i]].initial, trail |-> ps[held[i]].trail,
                 mark |-> marks[held[i]]]]
  BY DEF ToPositionStates, S
<1> HIDE DEF held
<1>8. book = [i \in 1..n |-> book[i]] /\ \A i \in 1..n : book[i] \in Range(book)
  <2>1. DOMAIN book = 1..n
    BY <1>6, <1>7
  <2>2. book = [i \in DOMAIN book |-> book[i]]
    BY <1>7
  <2> HIDE DEF book
  <2>. QED
    BY <2>1, <2>2 DEF Range
<1> HIDE DEF book
<1>. QED
  BY <1>8 DEF book

\* What the risk engine approves is at least the least quantity of the exchange.
LEMMA ApprovedQuantity ==
    ASSUME NEW r \in Runtimes, NEW s, NEW intent, NEW prices,
           EvaluateEntryRiskDecision(r, s, intent, prices).approved
    PROVE  LET qty == EvaluateEntryRiskDecision(r, s, intent, prices).quantity IN
           qty \in Int /\ qty >= Constraints.minQty /\ Constraints.minQty \in Nat
<1> DEFINE marks == ResolveMarksAtOpen(r.positions)
           q == [t |-> [symbol |-> s, side |-> "LONG", entry |-> prices.fill, stop |-> prices.stop,
                        id |-> intent.id, kind |-> "LONG_ENTRY", approved |-> TRUE, data |-> "OK",
                        bot |-> "ACTIVE", atr |-> {intent.atr}],
                 a |-> BuildAccountState(r.cash, r.positions, marks), k |-> Constraints,
                 ps |-> ToPositionStates(r.positions, marks), orders |-> ToOpenOrders(r.pending),
                 done |-> r.processed, p |-> Params]
<1>1. EvaluateEntryRiskDecision(r, s, intent, prices) = Answer(q)
  BY DEF EvaluateEntryRiskDecision, Answer
<1>2. WellFormed(q)
  <2>1. r.positions \in Dicts(Symbols, Positions)
    BY DEF Runtimes
  <2>2. q.ps = ToPositionStates(r.positions, marks) /\ q.p = Params
    OBVIOUS
  <2> HIDE DEF q, marks
  <2>. QED
    BY <2>1, <2>2, BookIsSequence, BacktestNumbers DEF WellFormed
<1>3. q.k = Constraints
  OBVIOUS
<1> HIDE DEF q
<1>4. BestFitAccepted(q) /\ Answer(q).quantity = BestFit(q)
  BY <1>1, <1>2, AnswerIsBestFit
<1>5. Allowed(q) /\ Fitting(q) # {}
  BY <1>4 DEF BestFitAccepted
<1> DEFINE n == SizedQuantity(q.t, q.a, q.k, q.ps, Distance(q), q.p)
<1>6. n \in Nat /\ n # 0 /\ n = BestFit(q) /\ Fits(n, q.t, q.a, q.k, q.ps, Distance(q), q.p)
  BY <1>2, <1>5, SizedIsBestFit
<1>7. n \in Fitting(q)
  BY <1>2, <1>5, <1>6, FittingFits
<1> HIDE DEF n
<1>8. n >= q.k.minQty /\ q.k.minQty \in Nat
  <2>1. q.k.minQty \in Nat
    BY <1>5 DEF Allowed
  <2>. QED
    BY <1>6, <1>7, <2>1 DEF Fitting
<1>. QED
  BY <1>1, <1>3, <1>4, <1>6, <1>8

-----------------------------------------------------------------------------
(* What every handler of the day loop keeps.                               *)

\* The cash is what was there, what was won and lost, less what the open trades paid.
Balanced(r) ==
    /\ r.cash = InitialCash + NetOf(r.closed) - Paid(r.active)
    /\ r.realized = NetOf(r.closed)

\* Pending intents are of days up to last and not terminal, one for a symbol and none
\* for a symbol that is held; a position has a filled intent of an earlier day.
WaysIn(r, last) ==
    /\ \A i \in r.pending :
          /\ i.id.symbol = i.symbol /\ i.id.day <= last
          /\ i.id \notin r.processed /\ i.symbol \notin DOMAIN r.positions
          /\ \A j \in r.pending : j.symbol = i.symbol => j = i
    /\ \A s \in DOMAIN r.positions :
          /\ r.positions[s].id \in DOMAIN r.orders
          /\ r.orders[r.positions[s].id] = "FILLED"
          /\ r.positions[s].id.day < r.active[s].entryDay

Sound(r, last) ==
    /\ r \in Runtimes
    /\ DOMAIN r.active = DOMAIN r.positions
    /\ \A s \in DOMAIN r.positions : r.positions[s].qty >= Constraints.minQty
    /\ DOMAIN r.orders \subseteq r.processed
    /\ WaysIn(r, last) /\ Balanced(r)

\* The entries of a dictionary.
LEMMA DictFacts ==
    ASSUME NEW K, NEW V, NEW f \in Dicts(K, V)
    PROVE  DOMAIN f \in SUBSET K /\ \A x \in DOMAIN f : f[x] \in V
BY DEF Dicts

\* Adding an entry.
LEMMA DictWith ==
    ASSUME NEW K, NEW V, NEW f \in Dicts(K, V), NEW x \in K, NEW v \in V
    PROVE  /\ With(f, x, v) \in Dicts(K, V)
           /\ DOMAIN With(f, x, v) = DOMAIN f \cup {x}
           /\ With(f, x, v)[x] = v
           /\ \A y \in DOMAIN f : y # x => With(f, x, v)[y] = f[y]
<1>1. DOMAIN f \in SUBSET K /\ \A y \in DOMAIN f : f[y] \in V
  BY DictFacts
<1>2. With(f, x, v) \in [DOMAIN f \cup {x} -> V] /\ DOMAIN f \cup {x} \in SUBSET K
  BY <1>1 DEF With
<1>. QED
  BY <1>2 DEF With, Dicts

\* Removing an entry.
LEMMA DictWithout ==
    ASSUME NEW K, NEW V, NEW f \in Dicts(K, V), NEW x
    PROVE  /\ Without(f, x) \in Dicts(K, V)
           /\ DOMAIN Without(f, x) = DOMAIN f \ {x}
           /\ \A y \in DOMAIN f \ {x} : Without(f, x)[y] = f[y]
<1>1. DOMAIN f \in SUBSET K /\ \A y \in DOMAIN f : f[y] \in V
  BY DictFacts
<1>2. Without(f, x) \in [DOMAIN f \ {x} -> V] /\ DOMAIN f \ {x} \in SUBSET K
  BY <1>1 DEF Without
<1>. QED
  BY <1>2 DEF Without, Dicts

\* Replacing an entry.
LEMMA DictExcept ==
    ASSUME NEW K, NEW V, NEW f \in Dicts(K, V), NEW x \in DOMAIN f, NEW v \in V
    PROVE  /\ [f EXCEPT ![x] = v] \in Dicts(K, V)
           /\ DOMAIN [f EXCEPT ![x] = v] = DOMAIN f
           /\ [f EXCEPT ![x] = v][x] = v
           /\ \A y \in DOMAIN f : y # x => [f EXCEPT ![x] = v][y] = f[y]
<1>1. DOMAIN f \in SUBSET K /\ \A y \in DOMAIN f : f[y] \in V
  BY DictFacts
<1>2. [f EXCEPT ![x] = v] \in [DOMAIN f -> V]
  BY <1>1
<1>. QED
  BY <1>1, <1>2 DEF Dicts

\* The fields of a _Runtime.
LEMMA RuntimeFields ==
    ASSUME NEW r \in Runtimes
    PROVE  /\ {r.cash, r.fees, r.funding, r.slippage, r.realized} \subseteq Int
           /\ r.positions \in Dicts(Symbols, Positions) /\ r.active \in Dicts(Symbols, OpenTrades)
           /\ r.pending \in SUBSET Intents /\ r.closed \in Seq(ClosedTrades)
           /\ r.processed \in SUBSET (IntentIds \cup InitialProcessed)
           /\ r.orders \in Dicts(IntentIds, {"FILLED", "REJECTED"})
BY DEF Runtimes

\* The exit's amounts are numbers.
LEMMA ExitNumbers ==
    ASSUME NEW ref \in Int, NEW pos \in Positions
    PROVE  LET exit == ComputeExitAccounting(ref, pos) IN
           /\ {exit.fee, exit.slip, exit.gross, exit.delta} \subseteq Int
           /\ exit.delta = exit.gross - exit.fee
<1> DEFINE fill == ApplyExitSlippage(ref)
           fee == ComputeFee(fill * pos.qty)
           gross == (fill - pos.entry) * pos.qty * Unit
<1>1. pos.qty \in Int /\ pos.entry \in Int /\ Unit \in Int /\ FeeRate \in Int
  BY BacktestNumbers, RiskConstants DEF Positions
<1>2. fill \in Int
  <2>1. SlipDen \in Nat /\ SlipDen > 0 /\ Slip \in Int
    BY BacktestConstants, BacktestNumbers
  <2>2. PICK p \in Int : p = ref * (SlipDen - Slip)
    BY <2>1
  <2>. QED
    BY <2>1, <2>2 DEF ApplyExitSlippage
<1> HIDE DEF fill
<1>3. fee \in Int
  BY <1>1, <1>2 DEF ComputeFee
<1>4. gross \in Int
  BY <1>1, <1>2
<1>5. SlippageCost(ref, fill, pos.qty) \in Int
  <2>1. Larger(fill - ref, ref - fill) \in Int
    BY <1>2 DEF Larger
  <2>. QED
    BY <1>1, <2>1 DEF SlippageCost
<1>6. ComputeExitAccounting(ref, pos) =
        [fee |-> fee, slip |-> SlippageCost(ref, fill, pos.qty), gross |-> gross, delta |-> gross - fee]
  BY DEF ComputeExitAccounting, fill
<1> HIDE DEF fee, gross
<1>. QED
  BY <1>3, <1>4, <1>5, <1>6

\* A position is sold once a stop is hit (_check_stop_exit).
Sold(r, s, ref) ==
    LET exit == ComputeExitAccounting(ref, r.positions[s]) IN
    CloseTrade([r EXCEPT !.cash = @ + exit.delta, !.fees = @ + exit.fee,
                         !.slippage = @ + exit.slip], s, exit)

\* What the sold trade has paid leaves the open trades and enters its net result.
LEMMA SaleKeeps ==
    ASSUME NEW r, NEW last, Sound(r, last), NEW s \in DOMAIN r.positions, NEW ref \in Int
    PROVE  LET q == Sold(r, s, ref)
           IN  /\ Sound(q, last) /\ q.pending = r.pending
               /\ DOMAIN q.positions = DOMAIN r.positions \ {s}
               /\ \A x \in DOMAIN q.positions : q.positions[x] = r.positions[x]
<1> DEFINE exit == ComputeExitAccounting(ref, r.positions[s])
           q == Sold(r, s, ref)
           trade == r.active[s]
           net == exit.gross - (trade.fees + exit.fee) - trade.funding
           t == [symbol |-> s, type |-> trade.type, net |-> net, entryDay |-> trade.entryDay]
<1>1. r \in Runtimes /\ DOMAIN r.active = DOMAIN r.positions
  BY DEF Sound
<1>2. /\ {r.cash, r.fees, r.funding, r.slippage, r.realized} \subseteq Int
      /\ r.positions \in Dicts(Symbols, Positions) /\ r.active \in Dicts(Symbols, OpenTrades)
      /\ r.pending \in SUBSET Intents /\ r.closed \in Seq(ClosedTrades)
      /\ r.processed \in SUBSET (IntentIds \cup InitialProcessed)
      /\ r.orders \in Dicts(IntentIds, {"FILLED", "REJECTED"})
  BY <1>1, RuntimeFields
<1>3. s \in Symbols /\ r.positions[s] \in Positions /\ trade \in OpenTrades
  BY <1>1, <1>2, DictFacts
<1>4. {exit.fee, exit.slip, exit.gross, exit.delta} \subseteq Int /\ exit.delta = exit.gross - exit.fee
  BY <1>3, ExitNumbers
<1> HIDE DEF exit
<1>5. trade.fees \in Int /\ trade.funding \in Int /\ trade.type \in EntryTypes /\ trade.entryDay \in Nat
  BY <1>3 DEF OpenTrades
<1>6. net \in Int /\ t \in ClosedTrades /\ t.net = net
  BY <1>3, <1>4, <1>5 DEF ClosedTrades
<1>0. q = [cash |-> r.cash + exit.delta, positions |-> Without(r.positions, s),
           pending |-> r.pending, processed |-> r.processed, orders |-> r.orders,
           active |-> Without(r.active, s), closed |-> Append(r.closed, t),
           fees |-> r.fees + exit.fee, funding |-> r.funding,
           slippage |-> r.slippage + exit.slip, realized |-> r.realized + net]
  <2>1. PICK m : m = [r EXCEPT !.cash = @ + exit.delta, !.fees = @ + exit.fee,
                               !.slippage = @ + exit.slip]
    OBVIOUS
  <2>2. m = [cash |-> r.cash + exit.delta, positions |-> r.positions,
             pending |-> r.pending, processed |-> r.processed, orders |-> r.orders,
             active |-> r.active, closed |-> r.closed,
             fees |-> r.fees + exit.fee, funding |-> r.funding,
             slippage |-> r.slippage + exit.slip, realized |-> r.realized]
    BY <1>1, <2>1 DEF Runtimes
  <2>3. q = CloseTrade(m, s, exit)
    BY <2>1 DEF Sold, exit
  <2> HIDE DEF q
  <2>. QED
    BY <2>2, <2>3 DEF CloseTrade
<1> HIDE DEF net, t, q
<1>7. /\ q.cash = r.cash + exit.delta /\ q.fees = r.fees + exit.fee
      /\ q.slippage = r.slippage + exit.slip /\ q.realized = r.realized + net
      /\ q.funding = r.funding /\ q.pending = r.pending /\ q.processed = r.processed
      /\ q.orders = r.orders /\ q.closed = Append(r.closed, t)
      /\ q.positions = Without(r.positions, s) /\ q.active = Without(r.active, s)
  BY <1>0
<1>8. /\ q.positions \in Dicts(Symbols, Positions) /\ DOMAIN q.positions = DOMAIN r.positions \ {s}
      /\ \A x \in DOMAIN q.positions : q.positions[x] = r.positions[x]
  <2>1. q.positions = Without(r.positions, s) /\ r.positions \in Dicts(Symbols, Positions)
    BY <1>2, <1>7
  <2>2. PICK f, g : f = r.positions /\ g = q.positions
    OBVIOUS
  <2>3. f \in Dicts(Symbols, Positions) /\ g = Without(f, s)
    BY <2>1, <2>2
  <2>4. g \in Dicts(Symbols, Positions)
    BY <2>3, DictWithout
  <2>5. DOMAIN g = DOMAIN f \ {s} /\ \A x \in DOMAIN f \ {s} : g[x] = f[x]
    BY <2>3 DEF Without
  <2>. QED
    BY <2>2, <2>4, <2>5
<1>9. /\ q.active \in Dicts(Symbols, OpenTrades) /\ DOMAIN q.active = DOMAIN r.active \ {s}
      /\ \A x \in DOMAIN q.active : q.active[x] = r.active[x]
  <2>1. q.active = Without(r.active, s) /\ r.active \in Dicts(Symbols, OpenTrades)
    BY <1>2, <1>7
  <2>2. PICK f, g : f = r.active /\ g = q.active
    OBVIOUS
  <2>3. f \in Dicts(Symbols, OpenTrades) /\ g = Without(f, s)
    BY <2>1, <2>2
  <2>4. g \in Dicts(Symbols, OpenTrades)
    BY <2>3, DictWithout
  <2>5. DOMAIN g = DOMAIN f \ {s} /\ \A x \in DOMAIN f \ {s} : g[x] = f[x]
    BY <2>3 DEF Without
  <2>. QED
    BY <2>2, <2>4, <2>5
<1>10. q \in Runtimes
  <2>1. q.closed \in Seq(ClosedTrades)
    BY <1>2, <1>6, <1>7
  <2>2. q.cash \in Int /\ q.fees \in Int /\ q.slippage \in Int /\ q.realized \in Int
    <3>1. /\ q.cash = r.cash + exit.delta /\ q.fees = r.fees + exit.fee
          /\ q.slippage = r.slippage + exit.slip /\ q.realized = r.realized + net
      BY <1>7
    <3>2. r.cash \in Int /\ r.fees \in Int /\ r.slippage \in Int /\ r.realized \in Int
      BY <1>2
    <3>. QED
      BY <1>4, <1>6, <3>1, <3>2
  <2>. QED
    BY <1>0, <1>2, <1>7, <1>8, <1>9, <2>1, <2>2 DEF Runtimes
<1>11. Balanced(q)
  <2>1. /\ Paid(q.active) \in Int /\ Paid(r.active) = Paid(q.active) + PaidBy(trade)
        /\ PaidBy(trade) = trade.fees + trade.funding
    BY <1>1, <1>2, <1>7, PaidWithout DEF PaidBy
  <2>2. NetOf(r.closed) \in Int /\ NetOf(q.closed) = NetOf(r.closed) + net
    BY <1>2, <1>6, <1>7, NetAppend
  <2>3. r.cash = InitialCash + NetOf(r.closed) - Paid(r.active) /\ r.realized = NetOf(r.closed)
    BY DEF Sound, Balanced
  <2>4. net = exit.gross - (trade.fees + exit.fee) - trade.funding
    BY DEF net
  <2>5. InitialCash \in Int
    BY BacktestNumbers
  <2>6. q.realized = NetOf(q.closed)
    BY <1>7, <2>2, <2>3
  <2>7. q.cash = InitialCash + NetOf(q.closed) - Paid(q.active)
    <3> HIDE DEF trade
    <3>1. q.cash = r.cash + exit.delta
      BY <1>7
    <3>2. PICK f \in Int, g \in Int, e \in Int, u \in Int, n \in Int, o \in Int :
            /\ f = trade.fees /\ g = trade.funding /\ e = exit.fee /\ u = exit.gross
            /\ n = NetOf(r.closed) /\ o = Paid(q.active)
      BY <1>4, <1>5, <2>1, <2>2
    <3>3. /\ q.cash = (InitialCash + n - (o + (f + g))) + (u - e)
          /\ NetOf(q.closed) = n + (u - (f + e) - g)
      BY <1>4, <2>1, <2>2, <2>3, <2>4, <3>1, <3>2
    <3>4. InitialCash + (n + (u - (f + e) - g)) - o = (InitialCash + n - (o + (f + g))) + (u - e)
      BY <2>5, <3>2
    <3>. QED
      BY <3>2, <3>3, <3>4
  <2>. QED
    BY <2>6, <2>7 DEF Balanced
<1>12. WaysIn(q, last)
  BY <1>1, <1>7, <1>8, <1>9 DEF Sound, WaysIn
<1>13. /\ DOMAIN q.active = DOMAIN q.positions /\ DOMAIN q.orders \subseteq q.processed
       /\ \A x \in DOMAIN q.positions : q.positions[x].qty >= Constraints.minQty
  BY <1>1, <1>7, <1>8, <1>9 DEF Sound
<1>. QED
  BY <1>7, <1>8, <1>10, <1>11, <1>12, <1>13 DEF Sound, q

\* _check_stop_exit keeps the books, sells at most the symbol it is asked about, and after
\* the whole candle leaves no position whose stop the low reached.
LEMMA CheckStopKeeps ==
    ASSUME NEW r, NEW last, Sound(r, last), NEW s \in DOMAIN candles, candles[s] \in Candles,
           NEW atOpen \in BOOLEAN
    PROVE  LET q == CheckStopExit(r, s, atOpen)
           IN  /\ Sound(q, last) /\ q.pending = r.pending
               /\ DOMAIN q.positions \subseteq DOMAIN r.positions
               /\ \A x \in DOMAIN q.positions : q.positions[x] = r.positions[x]
               /\ ~atOpen /\ s \in DOMAIN q.positions => candles[s].low > q.positions[s].effective
               /\ s \notin DOMAIN r.positions => q = r
<1> DEFINE refs == IF s \notin DOMAIN r.positions THEN {}
                   ELSE IF atOpen THEN ComputeGapStopAtOpen(candles[s], r.positions[s])
                   ELSE ComputeStopTrigger(candles[s], r.positions[s])
           q == CheckStopExit(r, s, atOpen)
<1>1. q = IF refs = {} THEN r ELSE Sold(r, s, CHOOSE ref \in refs : TRUE)
  BY DEF CheckStopExit, Sold
<1>2. /\ candles[s].open \in Int /\ candles[s].low \in Int
      /\ s \in DOMAIN r.positions => r.positions[s].effective \in Int
  <2>1. r.positions \in Dicts(Symbols, Positions)
    BY RuntimeFields DEF Sound
  <2>2. s \in DOMAIN r.positions => r.positions[s] \in Positions
    BY <2>1, DictFacts
  <2>. QED
    BY <2>2, BacktestNumbers DEF Positions
<1>3. refs \subseteq Int
  BY <1>2 DEF ComputeGapStopAtOpen, ComputeStopTrigger, ComputeIntradayStop
<1>4. s \notin DOMAIN r.positions => refs = {}
  OBVIOUS
<1>5. ~atOpen /\ s \in DOMAIN r.positions /\ refs = {} => candles[s].low > r.positions[s].effective
  BY <1>2 DEF ComputeGapStopAtOpen, ComputeStopTrigger, ComputeIntradayStop
<1> HIDE DEF refs, q
<1>6. CASE refs = {}
  <2>1. q = r
    BY <1>1, <1>6
  <2>. QED
    BY <1>4, <1>5, <1>6, <2>1 DEF q
<1>7. CASE refs # {}
  <2>1. PICK ref \in Int : q = Sold(r, s, ref)
    <3>1. (CHOOSE ref \in refs : TRUE) \in refs
      BY <1>7
    <3>. QED
      BY <1>1, <1>3, <1>7, <3>1
  <2>2. s \in DOMAIN r.positions
    BY <1>4, <1>7
  <2>3. /\ Sound(Sold(r, s, ref), last) /\ Sold(r, s, ref).pending = r.pending
        /\ DOMAIN Sold(r, s, ref).positions = DOMAIN r.positions \ {s}
        /\ \A x \in DOMAIN Sold(r, s, ref).positions : Sold(r, s, ref).positions[x] = r.positions[x]
    BY <2>2, SaleKeeps
  <2>4. /\ Sound(q, last) /\ q.pending = r.pending
        /\ DOMAIN q.positions = DOMAIN r.positions \ {s}
        /\ \A x \in DOMAIN q.positions : q.positions[x] = r.positions[x]
    BY <2>1, <2>3
  <2>. QED
    BY <2>2, <2>4 DEF q
<1>. QED
  BY <1>6, <1>7

\* _mark_terminal_intent: a new terminal intent that is not pending keeps the books.
LEMMA MarkTerminalKeeps ==
    ASSUME NEW r, NEW last, Sound(r, last), NEW id \in IntentIds, id \notin r.processed,
           NEW status \in {"FILLED", "REJECTED"}, \A i \in r.pending : i.id # id
    PROVE  LET q == MarkTerminalIntent(r, id, status)
           IN  /\ Sound(q, last) /\ q.pending = r.pending /\ q.positions = r.positions
               /\ q.cash = r.cash
<1> DEFINE q == MarkTerminalIntent(r, id, status)
<1>1. r \in Runtimes
  BY DEF Sound
<1>2. q = [cash |-> r.cash, positions |-> r.positions,
           pending |-> r.pending, processed |-> r.processed \cup {id},
           orders |-> With(r.orders, id, status),
           active |-> r.active, closed |-> r.closed, fees |-> r.fees, funding |-> r.funding,
           slippage |-> r.slippage, realized |-> r.realized]
  <2>1. PICK p, o : p = r.processed \cup {id} /\ o = With(r.orders, id, status)
    OBVIOUS
  <2>2. q = [r EXCEPT !.processed = p, !.orders = o]
    BY <2>1 DEF MarkTerminalIntent
  <2> HIDE DEF q
  <2>. QED
    BY <1>1, <2>1, <2>2 DEF Runtimes
<1> HIDE DEF q
<1>3. /\ q.cash = r.cash /\ q.positions = r.positions /\ q.pending = r.pending
      /\ q.active = r.active /\ q.closed = r.closed /\ q.realized = r.realized
  BY <1>2
<1>4. q.processed = r.processed \cup {id} /\ q.orders = With(r.orders, id, status)
  BY <1>2
<1>5. r.orders \in Dicts(IntentIds, {"FILLED", "REJECTED"})
  BY <1>1, RuntimeFields
<1>6. q.orders \in Dicts(IntentIds, {"FILLED", "REJECTED"})
  <2>1. PICK V : V = {"FILLED", "REJECTED"}
    OBVIOUS
  <2>2. With(r.orders, id, status) \in Dicts(IntentIds, V)
    BY <1>5, <2>1, DictWith
  <2>. QED
    BY <1>4, <2>1, <2>2
<1>7. DOMAIN q.orders = DOMAIN r.orders \cup {id} /\ \A y \in DOMAIN r.orders : y # id => q.orders[y] = r.orders[y]
  <2>1. PICK f, g : f = r.orders /\ g = q.orders
    OBVIOUS
  <2>2. DOMAIN g = DOMAIN f \cup {id} /\ \A y \in DOMAIN f : y # id => g[y] = f[y]
    BY <1>4, <2>1 DEF With
  <2>. QED
    BY <2>1, <2>2
<1>8. q \in Runtimes
  BY <1>1, <1>2, <1>4, <1>6 DEF Runtimes
<1>9. DOMAIN r.orders \subseteq r.processed /\ WaysIn(r, last)
  BY DEF Sound
<1>10. DOMAIN q.orders \subseteq q.processed
  BY <1>4, <1>7, <1>9
<1>11. WaysIn(q, last)
  <2>1. \A i \in q.pending :
          /\ i.id.symbol = i.symbol /\ i.id.day <= last
          /\ i.id \notin q.processed /\ i.symbol \notin DOMAIN q.positions
          /\ \A j \in q.pending : j.symbol = i.symbol => j = i
    BY <1>3, <1>4, <1>9 DEF WaysIn
  <2>2. ASSUME NEW s \in DOMAIN q.positions
        PROVE  /\ q.positions[s].id \in DOMAIN q.orders
               /\ q.orders[q.positions[s].id] = "FILLED"
               /\ q.positions[s].id.day < q.active[s].entryDay
    <3>1. /\ r.positions[s].id \in DOMAIN r.orders /\ r.orders[r.positions[s].id] = "FILLED"
          /\ r.positions[s].id.day < r.active[s].entryDay
      BY <1>3, <1>9 DEF WaysIn
    <3>2. r.positions[s].id # id
      BY <1>9, <3>1
    <3>. QED
      BY <1>3, <1>7, <3>1, <3>2
  <2>. QED
    BY <2>1, <2>2 DEF WaysIn
<1>12. Balanced(q)
  BY <1>3 DEF Balanced, Sound
<1>13. Sound(q, last)
  BY <1>3, <1>8, <1>10, <1>11, <1>12 DEF Sound
<1>. QED
  BY <1>3, <1>13 DEF q

\* A price on a tick is a number.
LEMMA TickType ==
    ASSUME NEW price \in Int
    PROVE  RoundToTick(price, Constraints.tick) \in Int
<1>1. PICK t \in Nat \ {0} : t = Constraints.tick
  BY BacktestConstants
<1>2. \A a \in Nat : a \div t \in Int
  BY <1>1
<1>3. Truncate(price, t) \in Int
  <2>1. CASE price >= 0
    BY <1>2, <2>1 DEF Truncate
  <2>2. CASE ~(price >= 0)
    <3>1. -price \in Nat
      BY <2>2
    <3>2. (-price) \div t \in Int
      BY <1>2, <3>1
    <3>. QED
      BY <2>2, <3>2 DEF Truncate
  <2>. QED
    BY <2>1, <2>2
<1>. QED
  BY <1>1, <1>3 DEF RoundToTick

\* The prices of an entry are numbers.
LEMMA EntryNumbers ==
    ASSUME NEW open \in Int, NEW atr \in Int
    PROVE  LET prices == ComputeEntryFillPrices(open, atr) IN
           prices.fill \in Int /\ prices.stop \in Int
<1> DEFINE fill == ApplyEntrySlippage(open)
<1>1. fill \in Int
  <2>1. SlipDen \in Nat /\ SlipDen > 0 /\ Slip \in Int
    BY BacktestConstants, BacktestNumbers
  <2>2. PICK p \in Int : p = open * (SlipDen + Slip)
    BY <2>1
  <2>. QED
    BY <2>1, <2>2 DEF ApplyEntrySlippage
<1> HIDE DEF fill
<1>2. fill - InitialMult * atr \in Int
  BY <1>1, BacktestNumbers
<1>3. RoundToTick(fill - InitialMult * atr, Constraints.tick) \in Int
  BY <1>2, TickType
<1>. QED
  BY <1>1, <1>3 DEF ComputeEntryFillPrices, fill

\* The amounts of an entry are numbers.
LEMMA EntryAmounts ==
    ASSUME NEW prices, prices.fill \in Int, prices.stop \in Int,
           NEW open \in Int, NEW qty \in Int, NEW atr \in Int
    PROVE  LET acc == ComputeEntryAccounting(prices, open, qty, atr) IN
           {acc.fee, acc.slip, acc.margin, acc.trail} \subseteq Int
<1>1. PICK f \in Int, p \in Int : f = prices.fill /\ p = prices.stop
  OBVIOUS
<1>2. ComputeFee(f * qty) \in Int
  BY BacktestNumbers DEF ComputeFee
<1>3. SlippageCost(open, f, qty) \in Int
  <2>1. Larger(f - open, open - f) \in Int
    BY DEF Larger
  <2>. QED
    BY <2>1, RiskConstants DEF SlippageCost
<1>4. PositionMargin(f * qty * Unit) \in Int
  <2>1. PICK l \in Nat \ {0} : l = Params.leverage
    BY BacktestConstants
  <2>2. PICK m \in Int : m = f * qty * Unit
    BY RiskConstants
  <2>. QED
    BY <2>1, <2>2 DEF PositionMargin
<1>5. RoundToTick(Larger(f - TrailMult * atr, p), Constraints.tick) \in Int
  <2>1. f - TrailMult * atr \in Int
    BY BacktestNumbers
  <2>2. Larger(f - TrailMult * atr, p) \in Int
    BY <2>1 DEF Larger
  <2>. QED
    BY <2>2, TickType
<1>. QED
  BY <1>1, <1>2, <1>3, <1>4, <1>5 DEF ComputeEntryAccounting

\* The approved entry keeps the books: its fee leaves the cash and is paid by the new
\* trade, its intent is terminal, and a gap at the open sells it at once.
LEMMA OpenTradeKeeps ==
    ASSUME NEW r, Sound(r, day - 1), day \in Nat, NEW s \in DOMAIN candles, candles[s] \in Candles,
           NEW intent \in Intents, intent.symbol = s, intent.id \notin r.processed,
           intent.id.day <= day - 1, s \notin DOMAIN r.positions,
           \A i \in r.pending : i.symbol # s,
           NEW prices, prices.fill \in Int, prices.stop \in Int,
           NEW qty \in Int, qty >= Constraints.minQty, intent.id.symbol = s
    PROVE  LET q == OpenTrade(r, s, intent, prices, qty)
           IN  Sound(q, day - 1) /\ q.pending = r.pending
<1> DEFINE acc == ComputeEntryAccounting(prices, candles[s].open, qty, intent.atr)
           position == [qty |-> qty, entry |-> prices.fill, initial |-> prices.stop,
                        trail |-> acc.trail, effective |-> Larger(prices.stop, acc.trail),
                        highest |-> prices.fill, atr |-> intent.atr, margin |-> acc.margin,
                        id |-> intent.id]
           trade == [type |-> intent.id.type, fees |-> acc.fee, funding |-> 0, entryDay |-> day]
           m == [r EXCEPT !.cash = @ - acc.fee, !.fees = @ + acc.fee, !.slippage = @ + acc.slip,
                          !.positions = With(@, s, position), !.active = With(@, s, trade)]
           n == MarkTerminalIntent(m, intent.id, "FILLED")
           q == OpenTrade(r, s, intent, prices, qty)
<1>1. q = IF acc.fee > r.cash THEN MarkTerminalIntent(r, intent.id, "REJECTED")
          ELSE CheckStopExit(n, s, TRUE)
  BY DEF OpenTrade
<1>2. r \in Runtimes /\ DOMAIN r.active = DOMAIN r.positions /\ DOMAIN r.orders \subseteq r.processed
  BY DEF Sound
<1>3. intent.id \in IntentIds /\ intent.atr \in Int /\ intent.id.type \in EntryTypes /\ s \in Symbols
  BY DEF Intents, IntentIds
<1>4. {acc.fee, acc.slip, acc.margin, acc.trail} \subseteq Int
  <2>1. candles[s].open \in Int
    BY BacktestNumbers
  <2>. QED
    BY <1>3, <2>1, EntryAmounts
<1> HIDE DEF acc
<1>5. position \in Positions /\ position.id = intent.id /\ position.qty = qty
  <2>1. Larger(prices.stop, acc.trail) \in Int
    BY <1>4 DEF Larger
  <2>. QED
    BY <1>3, <1>4, <2>1 DEF Positions
<1>6. trade \in OpenTrades /\ PaidBy(trade) = acc.fee /\ trade.entryDay = day
  BY <1>3, <1>4 DEF OpenTrades, PaidBy
<1> HIDE DEF position, trade
<1>7. n = [cash |-> r.cash - acc.fee, positions |-> With(r.positions, s, position),
           pending |-> r.pending, processed |-> r.processed \cup {intent.id},
           orders |-> With(r.orders, intent.id, "FILLED"), active |-> With(r.active, s, trade),
           closed |-> r.closed, fees |-> r.fees + acc.fee, funding |-> r.funding,
           slippage |-> r.slippage + acc.slip, realized |-> r.realized]
  <2>1. PICK ps, ac : ps = With(r.positions, s, position) /\ ac = With(r.active, s, trade)
    OBVIOUS
  <2>2. m = [cash |-> r.cash - acc.fee, positions |-> ps,
             pending |-> r.pending, processed |-> r.processed,
             orders |-> r.orders, active |-> ac,
             closed |-> r.closed, fees |-> r.fees + acc.fee, funding |-> r.funding,
             slippage |-> r.slippage + acc.slip, realized |-> r.realized]
    <3>1. PICK c, fs, sl : c = r.cash - acc.fee /\ fs = r.fees + acc.fee /\ sl = r.slippage + acc.slip
      OBVIOUS
    <3>2. m = [r EXCEPT !.cash = c, !.fees = fs, !.slippage = sl, !.positions = ps, !.active = ac]
      BY <2>1, <3>1
    <3> HIDE DEF m
    <3>. QED
      BY <1>2, <3>1, <3>2 DEF Runtimes
  <2> HIDE DEF m
  <2>3. PICK pr, od : pr = r.processed \cup {intent.id} /\ od = With(r.orders, intent.id, "FILLED")
    OBVIOUS
  <2>4. n = [m EXCEPT !.processed = pr, !.orders = od]
    BY <2>2, <2>3 DEF MarkTerminalIntent
  <2> HIDE DEF n
  <2>. QED
    BY <2>1, <2>2, <2>3, <2>4
<1> HIDE DEF n
<1>8. /\ n.cash = r.cash - acc.fee /\ n.pending = r.pending
      /\ n.closed = r.closed /\ n.realized = r.realized
      /\ n.processed = r.processed \cup {intent.id}
  BY <1>7
<1>9. /\ n.positions = With(r.positions, s, position) /\ n.active = With(r.active, s, trade)
      /\ n.orders = With(r.orders, intent.id, "FILLED")
  BY <1>7
<1>10. /\ r.positions \in Dicts(Symbols, Positions) /\ r.active \in Dicts(Symbols, OpenTrades)
       /\ r.orders \in Dicts(IntentIds, {"FILLED", "REJECTED"})
       /\ r.closed \in Seq(ClosedTrades)
  BY <1>2, RuntimeFields
<1>11. /\ n.positions \in Dicts(Symbols, Positions) /\ n.active \in Dicts(Symbols, OpenTrades)
       /\ n.orders \in Dicts(IntentIds, {"FILLED", "REJECTED"})
  <2>1. n.positions \in Dicts(Symbols, Positions)
    <3>1. With(r.positions, s, position) \in Dicts(Symbols, Positions)
      BY <1>3, <1>5, <1>10, DictWith
    <3>. QED
      BY <1>9, <3>1
  <2>2. n.active \in Dicts(Symbols, OpenTrades)
    <3>1. With(r.active, s, trade) \in Dicts(Symbols, OpenTrades)
      BY <1>3, <1>6, <1>10, DictWith
    <3>. QED
      BY <1>9, <3>1
  <2>3. n.orders \in Dicts(IntentIds, {"FILLED", "REJECTED"})
    <3>1. PICK V : V = {"FILLED", "REJECTED"}
      OBVIOUS
    <3>2. With(r.orders, intent.id, "FILLED") \in Dicts(IntentIds, V)
      BY <1>3, <1>10, <3>1, DictWith
    <3>. QED
      BY <1>9, <3>1, <3>2
  <2>. QED
    BY <2>1, <2>2, <2>3
<1>12. /\ DOMAIN n.positions = DOMAIN r.positions \cup {s} /\ n.positions[s] = position
       /\ \A x \in DOMAIN r.positions : n.positions[x] = r.positions[x]
  <2>1. PICK f, g : f = r.positions /\ g = n.positions
    OBVIOUS
  <2>2. DOMAIN g = DOMAIN f \cup {s} /\ g[s] = position /\ \A x \in DOMAIN f : g[x] = f[x]
    BY <1>9, <2>1 DEF With
  <2>. QED
    BY <2>1, <2>2
<1>13. /\ DOMAIN n.active = DOMAIN r.active \cup {s} /\ n.active[s] = trade
       /\ \A x \in DOMAIN r.active : n.active[x] = r.active[x]
  <2>1. PICK f, g : f = r.active /\ g = n.active
    OBVIOUS
  <2>2. DOMAIN g = DOMAIN f \cup {s} /\ g[s] = trade /\ \A x \in DOMAIN f : g[x] = f[x]
    BY <1>2, <1>9, <2>1 DEF With
  <2>. QED
    BY <2>1, <2>2
<1>14. /\ DOMAIN n.orders = DOMAIN r.orders \cup {intent.id} /\ n.orders[intent.id] = "FILLED"
       /\ \A y \in DOMAIN r.orders : n.orders[y] = r.orders[y]
  <2>1. PICK f, g : f = r.orders /\ g = n.orders
    OBVIOUS
  <2>2. intent.id \notin DOMAIN f
    BY <1>2, <2>1
  <2>3. /\ DOMAIN g = DOMAIN f \cup {intent.id} /\ g[intent.id] = "FILLED"
        /\ \A y \in DOMAIN f : g[y] = f[y]
    BY <1>9, <2>1, <2>2 DEF With
  <2>. QED
    BY <2>1, <2>3
<1>15. n \in Runtimes
  <2>1. /\ r.cash - acc.fee \in Int /\ r.fees + acc.fee \in Int /\ r.slippage + acc.slip \in Int
    BY <1>2, <1>4, RuntimeFields
  <2>2. r.processed \cup {intent.id} \in SUBSET (IntentIds \cup InitialProcessed)
    BY <1>2, <1>3, RuntimeFields
  <2>3. With(r.positions, s, position) \in Dicts(Symbols, Positions)
        /\ With(r.active, s, trade) \in Dicts(Symbols, OpenTrades)
        /\ With(r.orders, intent.id, "FILLED") \in Dicts(IntentIds, {"FILLED", "REJECTED"})
    BY <1>9, <1>11
  <2>4. /\ r.pending \in SUBSET Intents /\ r.closed \in Seq(ClosedTrades)
        /\ r.funding \in Int /\ r.realized \in Int
    BY <1>2, RuntimeFields
  <2>. QED
    BY <1>7, <2>1, <2>2, <2>3, <2>4 DEF Runtimes
<1>16. Balanced(n)
  <2>1. Paid(r.active) \in Int /\ Paid(n.active) = Paid(r.active) + acc.fee
    BY <1>2, <1>3, <1>6, <1>9, <1>10, PaidWith
  <2>2. r.cash = InitialCash + NetOf(r.closed) - Paid(r.active) /\ r.realized = NetOf(r.closed)
    BY DEF Sound, Balanced
  <2>3. NetOf(r.closed) \in Int /\ InitialCash \in Int
    <3>1. r.realized \in Int
      BY <1>2, RuntimeFields
    <3>. QED
      BY <2>2, <3>1, BacktestNumbers
  <2>4. n.cash = InitialCash + NetOf(n.closed) - Paid(n.active)
    BY <1>4, <1>8, <2>1, <2>2, <2>3
  <2>. QED
    BY <1>8, <2>2, <2>4 DEF Balanced
<1>17. WaysIn(n, day - 1)
  <2>0. WaysIn(r, day - 1)
    BY DEF Sound
  <2>1. ASSUME NEW i \in n.pending
        PROVE  /\ i.id.symbol = i.symbol /\ i.id.day <= day - 1
               /\ i.id \notin n.processed /\ i.symbol \notin DOMAIN n.positions
               /\ \A j \in n.pending : j.symbol = i.symbol => j = i
    <3>1. i \in r.pending /\ i.symbol # s
      BY <1>8, <2>1
    <3>2. /\ i.id.symbol = i.symbol /\ i.id.day <= day - 1
          /\ i.id \notin r.processed /\ i.symbol \notin DOMAIN r.positions
          /\ \A j \in r.pending : j.symbol = i.symbol => j = i
      BY <2>0, <3>1 DEF WaysIn
    <3>3. i.id # intent.id
      BY <3>1, <3>2
    <3>. QED
      BY <1>8, <1>12, <3>1, <3>2, <3>3
  <2>2. ASSUME NEW x \in DOMAIN n.positions
        PROVE  /\ n.positions[x].id \in DOMAIN n.orders
               /\ n.orders[n.positions[x].id] = "FILLED"
               /\ n.positions[x].id.day < n.active[x].entryDay
    <3>1. CASE x = s
      <4>1. intent.id.day \in Nat
        BY <1>3 DEF IntentIds
      <4>2. intent.id.day < day
        BY <4>1
      <4>. QED
        BY <1>5, <1>6, <1>12, <1>13, <1>14, <3>1, <4>2
    <3>2. CASE x # s
      <4>1. x \in DOMAIN r.positions /\ x \in DOMAIN r.active
        BY <1>2, <1>12, <3>2
      <4>2. /\ r.positions[x].id \in DOMAIN r.orders /\ r.orders[r.positions[x].id] = "FILLED"
            /\ r.positions[x].id.day < r.active[x].entryDay
        BY <2>0, <4>1 DEF WaysIn
      <4>. QED
        BY <1>12, <1>13, <1>14, <4>1, <4>2
    <3>. QED
      BY <3>1, <3>2
  <2>. QED
    BY <2>1, <2>2 DEF WaysIn
<1>18. Sound(n, day - 1)
  <2>1. DOMAIN n.active = DOMAIN n.positions /\ DOMAIN n.orders \subseteq n.processed
    BY <1>2, <1>8, <1>12, <1>13, <1>14
  <2>2. \A x \in DOMAIN n.positions : n.positions[x].qty >= Constraints.minQty
    BY <1>5, <1>12 DEF Sound
  <2>. QED
    BY <1>15, <1>16, <1>17, <2>1, <2>2 DEF Sound
<1>19. CheckStopExit(n, s, TRUE).pending = n.pending /\ Sound(CheckStopExit(n, s, TRUE), day - 1)
  BY <1>18, CheckStopKeeps
<1>20. /\ MarkTerminalIntent(r, intent.id, "REJECTED").pending = r.pending
       /\ Sound(MarkTerminalIntent(r, intent.id, "REJECTED"), day - 1)
  <2>1. \A i \in r.pending : i.id # intent.id
    BY DEF Sound, WaysIn
  <2>. QED
    BY <1>3, <2>1, MarkTerminalKeeps
<1> HIDE DEF q
<1>. QED
  BY <1>1, <1>8, <1>19, <1>20 DEF q

\* The fold over the intents of a symbol, and its equation.
FillAll(base, s, S) == FoldSet(LAMBDA intent, acc : FillIntent(acc, s, intent), base, S)
FillSteps(base, s, S, g) ==
    [t \in SUBSET S |-> IF t = {} THEN base
                        ELSE FillIntent(g[t \ {Pick(t)}], s, Pick(t))]

\* Of the intents of a symbol there is at most one.
LEMMA FillFold ==
    ASSUME NEW base, NEW s, NEW S
    PROVE  /\ S = {} => FillAll(base, s, S) = base
           /\ \A x : S = {x} => FillAll(base, s, S) = FillIntent(base, s, x)
<1> DEFINE fold == FillAll(base, s, S)
           it == CHOOSE g : g = FillSteps(base, s, S, g)
<1>1. fold = it[S]
  BY DEF FillAll, FoldSet, MapThenFoldSet, FillSteps, Pick
<1> HIDE DEF fold
<1>2. ASSUME S = {} PROVE fold = base
  <2> DEFINE g == [t \in SUBSET S |-> base]
  <2>1. \A t \in SUBSET S : t = {}
    BY <1>2
  <2>2. g = FillSteps(base, s, S, g)
    BY <2>1, Zenon DEF FillSteps
  <2>3. it = FillSteps(base, s, S, it)
    BY <2>2, Zenon
  <2> HIDE DEF it
  <2>4. FillSteps(base, s, S, it)[S] = base
    BY <1>2 DEF FillSteps
  <2>. QED
    BY <1>1, <2>3, <2>4
<1>3. ASSUME NEW x, S = {x} PROVE fold = FillIntent(base, s, x)
  <2> DEFINE g == [t \in SUBSET S |-> IF t = {} THEN base ELSE FillIntent(base, s, x)]
  <2>1. \A t \in SUBSET S : t # {} => t = S /\ Pick(t) = x /\ t \ {Pick(t)} = {}
    BY <1>3, PickIn
  <2>2. {} \in SUBSET S /\ g[{}] = base /\ S # {} /\ S \in SUBSET S
    BY <1>3
  <2>3. g = FillSteps(base, s, S, g)
    <3>1. ASSUME NEW t \in SUBSET S
          PROVE  g[t] = IF t = {} THEN base ELSE FillIntent(g[t \ {Pick(t)}], s, Pick(t))
      BY <2>1, <2>2
    <3>2. \A t \in SUBSET S : g[t] = FillSteps(base, s, S, g)[t]
      BY <3>1, Zenon DEF FillSteps
    <3>3. FillSteps(base, s, S, g) = [t \in SUBSET S |-> FillSteps(base, s, S, g)[t]]
      BY Zenon DEF FillSteps
    <3>. QED
      BY <3>2, <3>3
  <2>4. it = FillSteps(base, s, S, it)
    BY <2>3, Zenon
  <2> HIDE DEF it, g
  <2>5. ASSUME NEW t \in SUBSET S
        PROVE  it[t] = IF t = {} THEN base ELSE FillIntent(it[t \ {Pick(t)}], s, Pick(t))
    <3>1. FillSteps(base, s, S, it)[t] = IF t = {} THEN base ELSE FillIntent(it[t \ {Pick(t)}], s, Pick(t))
      BY Zenon DEF FillSteps
    <3>. QED
      BY <2>4, <3>1
  <2>6. it[{}] = base
    BY <2>2, <2>5
  <2>7. it[S] = FillIntent(it[{}], s, x)
    BY <2>1, <2>2, <2>5
  <2>. QED
    BY <1>1, <2>6, <2>7
<1>. QED
  BY <1>2, <1>3 DEF fold

\* The _Runtime with other pending intents, and what they must be.
MayWait(r, pending, last) ==
    \A i \in pending :
       /\ i.id.symbol = i.symbol /\ i.id.day <= last
       /\ i.id \notin r.processed /\ i.symbol \notin DOMAIN r.positions
       /\ \A j \in pending : j.symbol = i.symbol => j = i
WithPending(r, pending) == [r EXCEPT !.pending = pending]

\* Other pending intents keep the books where they keep the ways in.
LEMMA PendingKeeps ==
    ASSUME NEW r, NEW last, NEW next, Sound(r, last), NEW pending \in SUBSET Intents,
           MayWait(r, pending, next)
    PROVE  LET q == WithPending(r, pending)
           IN  /\ Sound(q, next) /\ q.pending = pending
               /\ q.positions = r.positions /\ q.cash = r.cash /\ q.processed = r.processed
<1> DEFINE q == WithPending(r, pending)
<1>1. r \in Runtimes
  BY DEF Sound
<1>2. q = [cash |-> r.cash, positions |-> r.positions, pending |-> pending,
           processed |-> r.processed, orders |-> r.orders, active |-> r.active,
           closed |-> r.closed, fees |-> r.fees, funding |-> r.funding,
           slippage |-> r.slippage, realized |-> r.realized]
  BY <1>1 DEF Runtimes, WithPending
<1> HIDE DEF q
<1>3. q \in Runtimes
  BY <1>1, <1>2 DEF Runtimes
<1>4. /\ q.cash = r.cash /\ q.positions = r.positions /\ q.pending = pending
      /\ q.processed = r.processed /\ q.orders = r.orders /\ q.active = r.active
      /\ q.closed = r.closed /\ q.realized = r.realized
  BY <1>2
<1>5. WaysIn(q, next)
  BY <1>4 DEF Sound, WaysIn, MayWait
<1>6. Balanced(q)
  BY <1>4 DEF Sound, Balanced
<1>7. Sound(q, next)
  BY <1>3, <1>4, <1>5, <1>6 DEF Sound
<1>. QED
  BY <1>4, <1>7 DEF q

\* _fill_pending_at_open: the intents of the symbol leave the pending ones and lead to at
\* most one position.
LEMMA FillPendingKeeps ==
    ASSUME NEW r, Sound(r, day - 1), day \in Nat, NEW s \in DOMAIN candles, candles[s] \in Candles
    PROVE  LET q == FillPendingAtOpen(r, s)
           IN  /\ Sound(q, day - 1)
               /\ r.pending = {} => /\ q.pending = {} /\ q.positions = r.positions
                                    /\ q.cash = r.cash
<1> DEFINE S == {i \in r.pending : i.symbol = s}
           rest == r.pending \ S
           base == WithPending(r, rest)
           q == FillPendingAtOpen(r, s)
<1>1. /\ S = {} => q = base
      /\ \A x : S = {x} => q = FillIntent(base, s, x)
  <2>1. q = FillAll(base, s, S)
    BY DEF FillPendingAtOpen, FillAll, WithPending
  <2> HIDE DEF base, S, q
  <2>. QED
    BY <2>1, FillFold
<1>2. r \in Runtimes /\ WaysIn(r, day - 1) /\ r.pending \in SUBSET Intents
  BY RuntimeFields DEF Sound
<1>3. rest \in SUBSET Intents
  BY <1>2
<1>4. \A i \in rest :
         /\ i.id.symbol = i.symbol /\ i.id.day <= day - 1
         /\ i.id \notin r.processed /\ i.symbol \notin DOMAIN r.positions
         /\ \A j \in rest : j.symbol = i.symbol => j = i
  BY <1>2 DEF WaysIn
<1>5. \A i \in rest : i.symbol # s
  OBVIOUS
<1> HIDE DEF rest
<1>6. /\ Sound(base, day - 1) /\ base.pending = rest
      /\ base.positions = r.positions /\ base.cash = r.cash /\ base.processed = r.processed
  <2>1. MayWait(r, rest, day - 1)
    BY <1>4 DEF MayWait
  <2>. QED
    BY <1>3, <2>1, PendingKeeps
<1> HIDE DEF base, q
<1>7. CASE S = {}
  <2>1. rest = r.pending
    BY <1>7 DEF rest
  <2>. QED
    BY <1>1, <1>6, <1>7, <2>1 DEF q
<1>8. CASE S # {}
  <2>1. PICK x \in S : TRUE
    BY <1>8
  <2>2. S = {x}
    BY <1>2, <2>1 DEF WaysIn
  <2>3. q = FillIntent(base, s, x)
    BY <1>1, <2>2
  <2>4. /\ x \in Intents /\ x.symbol = s /\ x.id.symbol = s /\ x.id.day <= day - 1
        /\ x.id \notin r.processed /\ s \notin DOMAIN r.positions /\ r.pending # {}
    BY <1>2, <2>1 DEF WaysIn
  <2> HIDE DEF S
  <2> DEFINE prices == ComputeEntryFillPrices(candles[s].open, x.atr)
             decision == EvaluateEntryRiskDecision(base, s, x, prices)
  <2>5. q = IF ~decision.approved THEN MarkTerminalIntent(base, x.id, "REJECTED")
            ELSE OpenTrade(base, s, x, prices, decision.quantity)
    BY <1>6, <2>3, <2>4 DEF FillIntent
  <2>6. prices.fill \in Int /\ prices.stop \in Int
    <3>1. x.atr \in Int /\ candles[s].open \in Int
      BY <2>4, BacktestNumbers DEF Intents
    <3>. QED
      BY <3>1, EntryNumbers
  <2> HIDE DEF prices
  <2>7. ASSUME decision.approved
        PROVE  decision.quantity \in Int /\ decision.quantity >= Constraints.minQty
    <3>1. base \in Runtimes
      BY <1>6 DEF Sound
    <3>. QED
      BY <2>7, <3>1, ApprovedQuantity
  <2> HIDE DEF decision
  <2>8. CASE decision.approved
    <3>1. Sound(OpenTrade(base, s, x, prices, decision.quantity), day - 1)
      BY <1>5, <1>6, <2>4, <2>6, <2>7, <2>8, OpenTradeKeeps
    <3>. QED
      BY <2>4, <2>5, <2>8, <3>1 DEF q
  <2>9. CASE ~decision.approved
    <3>1. x.id \in IntentIds
      BY <2>4 DEF Intents
    <3>2. \A i \in base.pending : i.id # x.id
      BY <1>4, <1>5, <1>6, <2>4
    <3>3. Sound(MarkTerminalIntent(base, x.id, "REJECTED"), day - 1)
      BY <1>6, <2>4, <3>1, <3>2, MarkTerminalKeeps
    <3>. QED
      BY <2>4, <2>5, <2>9, <3>3 DEF q
  <2>. QED
    BY <2>8, <2>9
<1>. QED
  BY <1>7, <1>8

\* _apply_funding: what leaves the cash is paid by the open trade.
LEMMA FundingKeeps ==
    ASSUME NEW r, NEW last, Sound(r, last), NEW s, NEW rates,
           s \in DOMAIN r.positions => rates \in Seq(Int)
    PROVE  LET q == ApplyFunding(r, s, rates)
           IN  /\ Sound(q, last) /\ q.pending = r.pending /\ q.positions = r.positions
               /\ s \notin DOMAIN r.positions => q = r
<1> DEFINE q == ApplyFunding(r, s, rates)
           notional == r.positions[s].qty * r.positions[s].entry
           payments == [i \in DOMAIN rates |-> notional * rates[i]]
           payment == SumFunction(payments)
           trade == [r.active[s] EXCEPT !.funding = @ + payment]
           active == [r.active EXCEPT ![s] = trade]
<1>1. CASE s \notin DOMAIN r.positions
  <2>1. q = r
    BY <1>1 DEF ApplyFunding
  <2> HIDE DEF q
  <2>. QED
    BY <1>1, <2>1 DEF q
<1>2. CASE s \in DOMAIN r.positions
  <2>1. /\ r \in Runtimes /\ DOMAIN r.active = DOMAIN r.positions
        /\ r.positions \in Dicts(Symbols, Positions) /\ r.active \in Dicts(Symbols, OpenTrades)
    BY RuntimeFields DEF Sound
  <2>2. r.positions[s] \in Positions /\ r.active[s] \in OpenTrades
    BY <1>2, <2>1, DictFacts
  <2>3. payment \in Int
    <3>1. notional \in Int
      BY <2>2 DEF Positions
    <3>2. DOMAIN rates = 1..Len(rates) /\ Len(rates) \in Nat /\ \A i \in DOMAIN rates : rates[i] \in Int
      BY <1>2
    <3> HIDE DEF notional
    <3>3. DOMAIN payments = DOMAIN rates /\ \A i \in DOMAIN payments : payments[i] \in Int
      BY <3>1, <3>2
    <3>4. IsFiniteSet(DOMAIN payments)
      BY <3>2, <3>3, FS_Interval
    <3> HIDE DEF payments
    <3>. QED
      BY <3>3, <3>4, SumType
  <2>4. q = [r EXCEPT !.cash = @ - payment, !.funding = @ + payment,
                      !.active[s].funding = @ + payment]
    BY <1>2 DEF ApplyFunding
  <2> HIDE DEF q, payment
  <2>5. /\ trade \in OpenTrades /\ PaidBy(trade) = PaidBy(r.active[s]) + payment
        /\ trade.entryDay = r.active[s].entryDay /\ PaidBy(r.active[s]) \in Int
    BY <2>2, <2>3 DEF OpenTrades, PaidBy
  <2>6. q = [cash |-> r.cash - payment, positions |-> r.positions, pending |-> r.pending,
             processed |-> r.processed, orders |-> r.orders, active |-> active,
             closed |-> r.closed, fees |-> r.fees, funding |-> r.funding + payment,
             slippage |-> r.slippage, realized |-> r.realized]
    BY <2>1, <2>4 DEF Runtimes
  <2> HIDE DEF trade
  <2>7. /\ active \in Dicts(Symbols, OpenTrades) /\ DOMAIN active = DOMAIN r.active
        /\ active[s] = trade /\ \A x \in DOMAIN r.active : x # s => active[x] = r.active[x]
    <3>1. active \in Dicts(Symbols, OpenTrades)
      BY <1>2, <2>1, <2>5, DictExcept
    <3>. QED
      BY <1>2, <2>1, <3>1
  <2>8. Paid(r.active) \in Int /\ Paid(active) = Paid(r.active) + payment
    <3>1. Paid(r.active) \in Int /\ Paid(active) = Paid(r.active) - PaidBy(r.active[s]) + PaidBy(trade)
      BY <1>2, <2>1, <2>5, PaidMore
    <3>. QED
      BY <2>3, <2>5, <3>1
  <2> HIDE DEF active
  <2>9. /\ q.cash = r.cash - payment /\ q.positions = r.positions /\ q.pending = r.pending
        /\ q.processed = r.processed /\ q.orders = r.orders /\ q.active = active
        /\ q.closed = r.closed /\ q.realized = r.realized
    BY <2>6
  <2>10. q \in Runtimes
    <3>1. r.cash - payment \in Int /\ r.funding + payment \in Int
      BY <2>1, <2>3, RuntimeFields
    <3>. QED
      BY <2>1, <2>6, <2>7, <3>1 DEF Runtimes
  <2>11. Balanced(q)
    <3>1. r.cash = InitialCash + NetOf(r.closed) - Paid(r.active) /\ r.realized = NetOf(r.closed)
      BY DEF Sound, Balanced
    <3>2. r.realized \in Int /\ InitialCash \in Int
      BY <2>1, RuntimeFields, BacktestNumbers
    <3>3. q.cash = InitialCash + NetOf(q.closed) - Paid(q.active)
      BY <2>3, <2>8, <2>9, <3>1, <3>2
    <3>. QED
      BY <2>9, <3>1, <3>3 DEF Balanced
  <2>12. \A x \in DOMAIN r.active : active[x].entryDay = r.active[x].entryDay
    BY <2>5, <2>7
  <2>13. WaysIn(q, last)
    BY <2>1, <2>9, <2>12 DEF Sound, WaysIn
  <2>14. Sound(q, last)
    BY <2>1, <2>7, <2>9, <2>10, <2>11, <2>13 DEF Sound
  <2>. QED
    BY <1>2, <2>9, <2>14 DEF q
<1>. QED
  BY <1>1, <1>2

\* _strategy_and_queue: a signal of the day waits where nothing of its symbol does.
LEMMA QueueKeeps ==
    ASSUME NEW r, Sound(r, day), day \in Nat, NEW s \in Symbols, NEW evaluation \in Signals
    PROVE  LET q == StrategyAndQueue(r, s, evaluation)
           IN  Sound(q, day) /\ q.positions = r.positions /\ q.cash = r.cash
<1> DEFINE q == StrategyAndQueue(r, s, evaluation)
           id == BuildClientIntentId(s, evaluation.type)
           atr == CHOOSE v \in evaluation.atr : TRUE
           i0 == [id |-> id, symbol |-> s, atr |-> atr]
           stays == \/ ~evaluation.long \/ evaluation.atr = {}
                    \/ id \in r.processed \/ s \in DOMAIN r.positions
                    \/ \E i \in r.pending : i.symbol = s
<1>1. q = IF stays THEN r ELSE WithPending(r, r.pending \cup {i0})
  BY DEF StrategyAndQueue, WithPending
<1>2. CASE stays
  <2>1. q = r
    BY <1>1, <1>2
  <2> HIDE DEF q
  <2>. QED
    BY <2>1 DEF q
<1>3. CASE ~stays
  <2>1. atr \in Int
    <3>1. evaluation.atr # {} /\ evaluation.atr \subseteq Int
      BY <1>3, BacktestNumbers
    <3>2. atr \in evaluation.atr
      BY <3>1
    <3>. QED
      BY <3>1, <3>2
  <2> HIDE DEF atr
  <2>2. id \in IntentIds /\ id.symbol = s /\ id.day = day
    BY DEF BuildClientIntentId, IntentIds, EntryTypes
  <2>3. id \notin r.processed /\ s \notin DOMAIN r.positions /\ \A i \in r.pending : i.symbol # s
    BY <1>3
  <2> HIDE DEF id, stays
  <2>4. i0 \in Intents /\ i0.id = id /\ i0.symbol = s
    BY <2>1, <2>2 DEF Intents
  <2> HIDE DEF i0
  <2>5. r.pending \in SUBSET Intents /\ WaysIn(r, day)
    BY RuntimeFields DEF Sound
  <2> DEFINE pending == r.pending \cup {i0}
  <2>6. pending \in SUBSET Intents
    BY <2>4, <2>5
  <2>7. MayWait(r, pending, day)
    BY <2>2, <2>3, <2>4, <2>5 DEF WaysIn, MayWait
  <2>8. q = WithPending(r, pending)
    BY <1>1, <1>3
  <2> HIDE DEF pending, q
  <2>9. /\ Sound(WithPending(r, pending), day)
        /\ WithPending(r, pending).positions = r.positions /\ WithPending(r, pending).cash = r.cash
    BY <2>6, <2>7, PendingKeeps
  <2>. QED
    BY <2>8, <2>9 DEF q
<1>. QED
  BY <1>2, <1>3

\* _update_trailing moves the stop of a position and nothing else.
LEMMA TrailKeeps ==
    ASSUME NEW r, NEW last, Sound(r, last), NEW s \in DOMAIN candles, candles[s] \in Candles,
           s \in DOMAIN evals, evals[s] \in Signals
    PROVE  LET q == UpdateTrailing(r, s)
           IN  /\ Sound(q, last) /\ q.pending = r.pending /\ q.cash = r.cash
               /\ DOMAIN q.positions = DOMAIN r.positions
<1> DEFINE q == UpdateTrailing(r, s)
           pos == r.positions[s]
           atrs == IF evals[s].atr = {} THEN {pos.atr} ELSE evals[s].atr
           atr == CHOOSE v \in atrs : TRUE
           highest == Larger(pos.highest, candles[s].close)
           trail == RoundToTick(Larger(Larger(pos.trail, highest - TrailMult * atr), pos.initial),
                                Constraints.tick)
           effective == Larger(pos.initial, trail)
           new == [pos EXCEPT !.highest = highest, !.trail = trail, !.effective = effective]
           positions == [r.positions EXCEPT ![s] = new]
<1>1. CASE s \notin DOMAIN r.positions
  <2>1. q = r
    BY <1>1 DEF UpdateTrailing
  <2> HIDE DEF q
  <2>. QED
    BY <2>1 DEF q
<1>2. CASE s \in DOMAIN r.positions
  <2>1. r \in Runtimes /\ r.positions \in Dicts(Symbols, Positions)
    BY RuntimeFields DEF Sound
  <2>2. pos \in Positions
    BY <1>2, <2>1, DictFacts
  <2>3. /\ pos.atr \in Int /\ pos.highest \in Int /\ pos.trail \in Int /\ pos.initial \in Int
    BY <2>2 DEF Positions
  <2>4. q = [r EXCEPT !.positions[s].highest = highest, !.positions[s].trail = trail,
                      !.positions[s].effective = effective]
    BY <1>2 DEF UpdateTrailing
  <2>5. atr \in Int
    <3>1. atrs \subseteq Int /\ atrs # {}
      BY <2>3, BacktestNumbers
    <3> HIDE DEF atrs
    <3>2. atr \in atrs
      BY <3>1
    <3>. QED
      BY <3>1, <3>2
  <2> HIDE DEF atr
  <2>6. highest \in Int
    <3>1. candles[s].close \in Int
      BY BacktestNumbers
    <3>. QED
      BY <2>3, <3>1 DEF Larger
  <2> HIDE DEF highest
  <2>7. trail \in Int
    <3>1. PICK c \in Int : c = highest - TrailMult * atr
      BY <2>5, <2>6, BacktestNumbers
    <3>2. Larger(Larger(pos.trail, c), pos.initial) \in Int
      BY <2>3 DEF Larger
    <3>. QED
      BY <3>1, <3>2, TickType
  <2> HIDE DEF trail
  <2>8. effective \in Int
    BY <2>3, <2>7 DEF Larger
  <2> HIDE DEF effective
  <2>9. new \in Positions /\ new.id = pos.id /\ new.qty = pos.qty
    BY <2>2, <2>6, <2>7, <2>8 DEF Positions
  <2>10. q = [cash |-> r.cash, positions |-> positions, pending |-> r.pending,
             processed |-> r.processed, orders |-> r.orders, active |-> r.active,
             closed |-> r.closed, fees |-> r.fees, funding |-> r.funding,
             slippage |-> r.slippage, realized |-> r.realized]
    <3>1. [r.positions EXCEPT ![s].highest = highest, ![s].trail = trail, ![s].effective = effective]
            = positions
      BY <1>2, <2>1
    <3>. QED
      BY <1>2, <2>1, <2>4, <3>1 DEF Runtimes
  <2> HIDE DEF new, q
  <2>11. /\ positions \in Dicts(Symbols, Positions) /\ DOMAIN positions = DOMAIN r.positions
         /\ positions[s] = new /\ \A x \in DOMAIN r.positions : x # s => positions[x] = r.positions[x]
    <3>1. positions \in Dicts(Symbols, Positions)
      BY <1>2, <2>1, <2>9, DictExcept
    <3>. QED
      BY <1>2, <2>1, <3>1
  <2>12. \A x \in DOMAIN r.positions : /\ positions[x].id = r.positions[x].id
                                       /\ positions[x].qty = r.positions[x].qty
    BY <2>9, <2>11
  <2> HIDE DEF positions
  <2>13. /\ q.cash = r.cash /\ q.positions = positions /\ q.pending = r.pending
         /\ q.processed = r.processed /\ q.orders = r.orders /\ q.active = r.active
         /\ q.closed = r.closed /\ q.realized = r.realized
    BY <2>10
  <2>14. q \in Runtimes
    BY <2>1, <2>10, <2>11 DEF Runtimes
  <2>15. WaysIn(q, last)
    BY <2>11, <2>12, <2>13 DEF Sound, WaysIn
  <2>16. Balanced(q)
    BY <2>13 DEF Sound, Balanced
  <2>17. Sound(q, last)
    BY <2>11, <2>12, <2>13, <2>14, <2>15, <2>16 DEF Sound
  <2>. QED
    BY <2>11, <2>13, <2>17 DEF q
<1>. QED
  BY <1>1, <1>2

-----------------------------------------------------------------------------
(* The loops over the symbols.                                             *)

\* A loop whose turns lead from one set to the next ends in the last one.
LEMMA LoopReaches ==
    ASSUME NEW loop, NEW input, NEW Good, rt \in Good[0],
           \A k \in 1..Len(SymbolOrder) : \A r \in Good[k - 1] :
              LoopStep(loop, input, r, SymbolOrder[k]) \in Good[k]
    PROVE  ForEachSymbol(loop, input) \in Good[Len(SymbolOrder)]
<1> DEFINE n == Len(SymbolOrder)
<1>1. n \in Nat
  BY BacktestNumbers
<1>2. PICK h : /\ h[0] = rt
               /\ \A k \in 1..n : h[k] = LoopStep(loop, input, h[k - 1], SymbolOrder[k])
               /\ ForEachSymbol(loop, input) = h[n]
  BY LoopSteps
<1> DEFINE Q == {k \in 0..n : h[k] \in Good[k]}
<1>3. 0 \in Q
  BY <1>1, <1>2
<1>4. ASSUME NEW k \in 1..n, k - 1 \in Q PROVE k \in Q
  <2>1. h[k - 1] \in Good[k - 1] /\ k \in 0..n
    BY <1>1, <1>4
  <2>. QED
    BY <1>2, <2>1
<1> HIDE DEF Q
<1>5. \A k \in 0..n : k \in Q
  BY <1>1, <1>3, <1>4, StepInduction
<1>. QED
  BY <1>1, <1>2, <1>5 DEF Q

\* A loop whose turns stay in a set stays there.
LEMMA LoopKeeps ==
    ASSUME NEW loop, NEW input, NEW Good, rt \in Good,
           \A s \in Symbols \cap DOMAIN candles : \A r \in Good : Handle(loop, input, r, s) \in Good
    PROVE  ForEachSymbol(loop, input) \in Good
<1> DEFINE n == Len(SymbolOrder)
           G == [k \in 0..n |-> Good]
<1>1. n \in Nat /\ \A k \in 1..n : SymbolOrder[k] \in Symbols
  BY BacktestNumbers
<1>2. rt \in G[0]
  BY <1>1
<1>3. ASSUME NEW k \in 1..n, NEW r \in G[k - 1]
      PROVE  LoopStep(loop, input, r, SymbolOrder[k]) \in G[k]
  <2>1. r \in Good /\ G[k] = Good /\ SymbolOrder[k] \in Symbols
    BY <1>1
  <2>. QED
    BY <2>1 DEF LoopStep
<1>4. G[n] = Good
  BY <1>1
<1> HIDE DEF G
<1>. QED
  BY <1>2, <1>3, <1>4, LoopReaches

-----------------------------------------------------------------------------
(* The books of the day loop.                                              *)

\* The last day a pending intent may be of.
LastSignal == IF phase \in {"queued", "snapshot"} THEN day ELSE day - 1

\* Until the first snapshot nothing is held and nothing has been paid; until the first
\* signals nothing is pending.
Fresh(r) == DOMAIN r.positions = {} /\ r.cash = InitialCash
FirstDay ==
    /\ day = 0 \/ (day = 1 /\ phase # "snapshot") => Fresh(rt)
    /\ day = 0 \/ (day = 1 /\ phase \notin {"queued", "snapshot"}) => rt.pending = {}

\* The day's data.
DayData ==
    /\ day \in 0..Days
    /\ phase \in {"opened", "filled", "stopped", "funded", "queued", "snapshot"}
    /\ candles \in Dicts(Symbols, Candles) /\ DOMAIN closes \subseteq Symbols
    /\ evals \in Dicts(Symbols, Signals)
    /\ phase = "queued" => DOMAIN candles \subseteq DOMAIN evals

\* The equity curve: one snapshot a day, the first of the initial capital.
CurveOK ==
    /\ curve \in Seq([equity : Int, open : Nat])
    /\ Len(curve) = IF phase = "snapshot" THEN day ELSE day - 1
    /\ Len(curve) >= 1 => curve[1].equity = InitialCash

\* The inductive invariant of the day loop.
BooksInv ==
    DayData /\ CurveOK /\ FirstDay /\ StopsHonoured /\ Sound(rt, LastSignal)

\* A later last day admits the same intents.
LEMMA SoundLater ==
    ASSUME NEW r, NEW last \in Int, NEW next \in Int, last <= next, Sound(r, last)
    PROVE  Sound(r, next)
<1>1. r.pending \in SUBSET Intents
  BY RuntimeFields DEF Sound
<1>2. \A i \in r.pending : i.id.day \in Int
  BY <1>1 DEF Intents, IntentIds
<1>3. WaysIn(r, last)
  BY DEF Sound
<1>4. \A i \in r.pending : i.id.day <= next
  BY <1>2, <1>3 DEF WaysIn
<1>5. WaysIn(r, next)
  BY <1>3, <1>4 DEF WaysIn
<1>. QED
  BY <1>5 DEF Sound

\* The invariant says that the books are right.
LEMMA BooksFollow == BooksInv => BooksAreRight
<1> SUFFICES ASSUME BooksInv PROVE BooksAreRight
  OBVIOUS
<1>1. Sound(rt, LastSignal) /\ rt \in Runtimes /\ DayData /\ CurveOK
  BY DEF BooksInv, Sound
<1>2. /\ rt.positions \in Dicts(Symbols, Positions) /\ rt.closed \in Seq(ClosedTrades)
      /\ candles \in Dicts(Symbols, Candles)
  BY <1>1, RuntimeFields DEF DayData
<1>3. BacktestTypeOK
  <2>1. DOMAIN candles \subseteq Symbols /\ DOMAIN rt.positions \subseteq Symbols
    BY <1>2, DictFacts
  <2>2. /\ DOMAIN rt.active = DOMAIN rt.positions /\ DOMAIN rt.orders \subseteq rt.processed
        /\ \A s \in DOMAIN rt.positions : rt.positions[s].qty >= Constraints.minQty
    BY <1>1 DEF Sound
  <2>. QED
    BY <1>1, <2>1, <2>2 DEF BacktestTypeOK, DayData, CurveOK
<1>4. BacktestReconciles
  <2>1. rt.cash = InitialCash + NetOf(rt.closed) - Paid(rt.active) /\ rt.realized = NetOf(rt.closed)
    BY <1>1 DEF Sound, Balanced
  <2>2. Paid(rt.active) =
          SumFunction([s \in DOMAIN rt.active |-> rt.active[s].fees + rt.active[s].funding])
    BY DEF Paid, PaidBy
  <2>3. /\ NetOf(rt.closed) = ComputeMetrics(rt.closed).gross_profit - ComputeMetrics(rt.closed).gross_loss
        /\ NetOf(rt.closed) = SumFunction(ComputeMetrics(rt.closed).per_symbol)
        /\ NetOf(rt.closed) = SumFunction(ComputeMetrics(rt.closed).per_entry)
    BY <1>2, MetricsAddUp
  <2>. QED
    BY <2>1, <2>2, <2>3, Zenon DEF BacktestReconciles
<1>5. OneWayIn
  BY <1>1 DEF Sound, WaysIn, OneWayIn
<1>6. PeakCountsTheStart
  <2> SUFFICES ASSUME NEW i \in DOMAIN curve PROVE Peaks[i] >= InitialCash
    BY DEF PeakCountsTheStart
  <2> DEFINE E == {curve[j].equity : j \in 1..i}
             S == {0} \cup E
  <2>1. /\ Len(curve) \in Nat /\ DOMAIN curve = 1..Len(curve) /\ i \in 1..Len(curve)
        /\ \A j \in 1..Len(curve) : curve[j].equity \in Int
    <3>1. PICK R : R = [equity : Int, open : Nat]
      OBVIOUS
    <3>2. curve \in Seq(R)
      BY <1>1, <3>1 DEF CurveOK
    <3>3. /\ Len(curve) \in Nat /\ DOMAIN curve = 1..Len(curve)
          /\ \A j \in 1..Len(curve) : curve[j] \in R
      BY <3>2
    <3>4. \A x \in R : x.equity \in Int
      BY <3>1
    <3>. QED
      BY <3>3, <3>4
  <2>2. i \in Nat /\ 1 \in 1..i /\ 1..i \subseteq 1..Len(curve) /\ Len(curve) >= 1
    BY <2>1
  <2>3. curve[1].equity = InitialCash /\ InitialCash \in E
    BY <1>1, <2>2 DEF CurveOK
  <2>4. IsFiniteSet(S) /\ S \subseteq Int /\ InitialCash \in S
    <3>1. IsFiniteSet(1..i)
      BY <2>2, FS_Interval
    <3>2. [j \in 1..i |-> curve[j].equity] \in Surjection(1..i, E)
      BY DEF Surjection
    <3>3. IsFiniteSet(E) /\ IsFiniteSet({0})
      BY <3>1, <3>2, FS_Surjection, FS_Singleton
    <3>4. IsFiniteSet(S)
      <4> HIDE DEF E
      <4>. QED
        BY <3>3, FS_Union
    <3>. QED
      BY <2>1, <2>2, <2>3, <3>4
  <2>5. Peaks[i] = Max(S)
    BY DEF Peaks
  <2> HIDE DEF S
  <2>6. Max(S) \in S /\ InitialCash <= Max(S)
    BY <2>4, MaxExists
  <2>. QED
    BY <2>4, <2>5, <2>6
<1>. QED
  BY <1>3, <1>4, <1>5, <1>6 DEF BooksAreRight, BooksInv

\* The empty runtime.
LEMMA BooksInit == BacktestInit => BooksInv
<1> SUFFICES ASSUME BacktestInit PROVE BooksInv
  OBVIOUS
<1>1. \A K, V : NoRecords \in Dicts(K, V)
  <2>1. \A V : NoRecords \in [{} -> V]
    BY DEF NoRecords
  <2>2. ASSUME NEW K, NEW V PROVE NoRecords \in Dicts(K, V)
    <3>1. NoRecords \in [{} -> V] /\ {} \in SUBSET K
      BY <2>1
    <3>. QED
      BY <3>1, Zenon DEF Dicts
  <2>. QED
    BY <2>2
<1>2. DOMAIN NoRecords = {}
  BY DEF NoRecords
<1>3. /\ rt.cash = InitialCash /\ rt.positions = NoRecords /\ rt.pending = {} /\ rt.orders = NoRecords
      /\ rt.active = NoRecords /\ rt.closed = <<>> /\ rt.realized = 0
  BY DEF BacktestInit, InitialRuntime
<1>4. rt \in Runtimes
  BY <1>1, BacktestNumbers DEF BacktestInit, InitialRuntime, Runtimes
<1>5. Balanced(rt)
  <2> DEFINE f == [i \in DOMAIN rt.closed |-> rt.closed[i].net]
             h == [s \in DOMAIN rt.active |-> PaidBy(rt.active[s])]
  <2>1. DOMAIN f = {} /\ DOMAIN h = {}
    BY <1>2, <1>3
  <2>2. NetOf(rt.closed) = SumFunction(f) /\ Paid(rt.active) = SumFunction(h)
    BY DEF NetOf, SumOver, Paid
  <2> HIDE DEF f, h
  <2>3. SumFunction(f) = 0 /\ SumFunction(h) = 0
    BY <2>1, SumType, FS_EmptySet
  <2>. QED
    BY <1>3, <2>2, <2>3, BacktestNumbers DEF Balanced
<1>6. Sound(rt, LastSignal)
  BY <1>2, <1>3, <1>4, <1>5 DEF Sound, WaysIn
<1>7. DayData
  BY <1>1, <1>2, BacktestConstants DEF BacktestInit, DayData
<1>8. CurveOK
  BY DEF BacktestInit, CurveOK
<1>9. FirstDay
  BY <1>2, <1>3 DEF FirstDay, Fresh
<1>10. StopsHonoured
  BY DEF BacktestInit, StopsHonoured
<1>. QED
  BY <1>6, <1>7, <1>8, <1>9, <1>10 DEF BooksInv

\* A new day: the intents that were queued are of an earlier day now.
LEMMA NextDayBooks == BooksInv /\ NextDay => BooksInv'
<1> SUFFICES ASSUME BooksInv, NextDay PROVE BooksInv'
  OBVIOUS
<1>1. /\ phase = "snapshot" /\ day < Days /\ day' = day + 1 /\ phase' = "opened"
      /\ rt' = rt /\ evals' = evals /\ curve' = curve
      /\ DOMAIN closes' = DOMAIN closes \cup DOMAIN candles
  BY DEF NextDay
<1>2. DayData /\ CurveOK /\ FirstDay /\ Sound(rt, LastSignal) /\ day \in Nat /\ Days \in Nat
  BY BacktestConstants DEF BooksInv, DayData
<1>3. candles' \in Dicts(Symbols, Candles)
  <2>1. PICK traded \in SUBSET Symbols : candles' \in [traded -> Candles]
    BY DEF NextDay
  <2>. QED
    BY <2>1 DEF Dicts
<1>4. DayData'
  <2>1. DOMAIN candles \subseteq Symbols
    BY <1>2, DictFacts DEF DayData
  <2>2. day' \in 0..Days
    BY <1>1, <1>2
  <2>. QED
    BY <1>1, <1>2, <1>3, <2>1, <2>2 DEF DayData, Dicts, Symbols
<1>5. CurveOK'
  BY <1>1, <1>2 DEF CurveOK
<1>6. FirstDay'
  BY <1>1, <1>2 DEF FirstDay, Fresh
<1>7. StopsHonoured'
  BY <1>1 DEF StopsHonoured
<1>8. LastSignal' = LastSignal
  BY <1>1, <1>2 DEF LastSignal
<1>9. Sound(rt', LastSignal')
  BY <1>1, <1>2, <1>8
<1>. QED
  BY <1>4, <1>5, <1>6, <1>7, <1>9 DEF BooksInv

\* What the phases of a day have in common.
LEMMA DuringDay ==
    ASSUME BooksInv, phase # "snapshot"
    PROVE  /\ day \in Nat /\ day >= 1 /\ rt \in Runtimes
           /\ \A s \in DOMAIN candles : s \in Symbols /\ candles[s] \in Candles
           /\ day = 1 => Fresh(rt)
           /\ phase # "queued" => Sound(rt, day - 1) /\ (day = 1 => rt.pending = {})
           /\ phase = "queued" => Sound(rt, day)
<1>1. DayData /\ CurveOK /\ FirstDay /\ Sound(rt, LastSignal)
  BY DEF BooksInv
<1>2. day \in Nat
  BY <1>1 DEF DayData
<1>3. Len(curve) \in Nat /\ Len(curve) = day - 1
  BY <1>1 DEF CurveOK
<1>4. \A s \in DOMAIN candles : s \in Symbols /\ candles[s] \in Candles
  BY <1>1, DictFacts DEF DayData
<1>5. rt \in Runtimes
  BY <1>1 DEF Sound
<1>6. LastSignal = IF phase = "queued" THEN day ELSE day - 1
  BY DEF LastSignal
<1>7. phase # "queued" => phase \notin {"queued", "snapshot"}
  OBVIOUS
<1>. QED
  BY <1>1, <1>2, <1>3, <1>4, <1>5, <1>6, <1>7 DEF FirstDay

\* The fills at the open.
LEMMA FillBooks == BooksInv /\ FillAtOpen => BooksInv'
<1> SUFFICES ASSUME BooksInv, FillAtOpen PROVE BooksInv'
  OBVIOUS
<1>1. /\ phase = "opened" /\ phase' = "filled" /\ rt' = ForEachSymbol("fill", <<>>)
      /\ day' = day /\ candles' = candles /\ closes' = closes /\ evals' = evals /\ curve' = curve
  BY DEF FillAtOpen
<1>2. /\ day \in Nat /\ day >= 1 /\ rt \in Runtimes
      /\ \A s \in DOMAIN candles : s \in Symbols /\ candles[s] \in Candles
      /\ day = 1 => Fresh(rt) /\ rt.pending = {}
      /\ Sound(rt, day - 1)
  BY <1>1, DuringDay
<1> DEFINE Good == {r \in Runtimes : Sound(r, day - 1) /\ (day = 1 => Fresh(r) /\ r.pending = {})}
<1>3. rt \in Good
  BY <1>2
<1>4. ASSUME NEW s \in Symbols \cap DOMAIN candles, NEW r \in Good
      PROVE  Handle("fill", <<>>, r, s) \in Good
  <2>1. Handle("fill", <<>>, r, s) = FillPendingAtOpen(r, s)
    BY DEF Handle
  <2>2. /\ Sound(FillPendingAtOpen(r, s), day - 1)
        /\ r.pending = {} => /\ FillPendingAtOpen(r, s).pending = {}
                             /\ FillPendingAtOpen(r, s).positions = r.positions
                             /\ FillPendingAtOpen(r, s).cash = r.cash
    BY <1>2, FillPendingKeeps
  <2>3. FillPendingAtOpen(r, s) \in Runtimes
    BY <2>2 DEF Sound
  <2>. QED
    BY <2>1, <2>2, <2>3 DEF Fresh
<1> HIDE DEF Good
<1>5. rt' \in Good
  BY <1>1, <1>3, <1>4, LoopKeeps
<1>6. Sound(rt', day - 1) /\ (day = 1 => Fresh(rt') /\ rt'.pending = {})
  BY <1>5 DEF Good
<1>7. LastSignal' = day - 1
  BY <1>1 DEF LastSignal
<1>8. Sound(rt', LastSignal')
  BY <1>6, <1>7
<1>9. DayData' /\ CurveOK'
  BY <1>1 DEF BooksInv, DayData, CurveOK
<1>10. FirstDay'
  BY <1>1, <1>2, <1>6 DEF FirstDay, Fresh
<1>11. StopsHonoured'
  BY <1>1 DEF StopsHonoured
<1>. QED
  BY <1>8, <1>9, <1>10, <1>11 DEF BooksInv


\* No position of the first k symbols has a stop that its low of the day reached.
StoppedUpTo(k, r) ==
    \A j \in 1..k : SymbolOrder[j] \in DOMAIN candles \cap DOMAIN r.positions =>
        candles[SymbolOrder[j]].low > r.positions[SymbolOrder[j]].effective

\* The runtimes the loop of the stops may reach after k symbols.
StopsReach(k) ==
    {r \in Runtimes : /\ Sound(r, day - 1) /\ StoppedUpTo(k, r)
                      /\ day = 1 => Fresh(r) /\ r.pending = {}}

\* The stops of the day: once a symbol is checked, no later one brings its position back.
LEMMA CheckStopsBooks == BooksInv /\ CheckStops => BooksInv'
<1> SUFFICES ASSUME BooksInv, CheckStops PROVE BooksInv'
  OBVIOUS
<1>1. /\ phase = "filled" /\ phase' = "stopped" /\ rt' = ForEachSymbol("stops", <<>>)
      /\ day' = day /\ candles' = candles /\ closes' = closes /\ evals' = evals /\ curve' = curve
  BY DEF CheckStops
<1>2. /\ day \in Nat /\ day >= 1 /\ rt \in Runtimes
      /\ \A s \in DOMAIN candles : s \in Symbols /\ candles[s] \in Candles
      /\ day = 1 => Fresh(rt) /\ rt.pending = {}
      /\ Sound(rt, day - 1)
  BY <1>1, DuringDay
<1>3. PICK n : n = Len(SymbolOrder) /\ n \in Nat /\ DOMAIN SymbolOrder = 1..n
  BY BacktestNumbers
<1> DEFINE Good == [k \in 0..n |-> StopsReach(k)]
<1>4. \A k \in 0..n : Good[k] = StopsReach(k)
  OBVIOUS
<1> HIDE DEF Good
<1>5. rt \in Good[0]
  <2>1. StoppedUpTo(0, rt)
    BY DEF StoppedUpTo
  <2>. QED
    BY <1>2, <1>3, <1>4, <2>1 DEF StopsReach
<1>6. ASSUME NEW k \in 1..n, NEW r \in Good[k - 1]
      PROVE  LoopStep("stops", <<>>, r, SymbolOrder[k]) \in Good[k]
  <2>1. PICK s : s = SymbolOrder[k]
    OBVIOUS
  <2>2. /\ Sound(r, day - 1) /\ StoppedUpTo(k - 1, r) /\ r \in Runtimes
        /\ day = 1 => Fresh(r) /\ r.pending = {}
    BY <1>3, <1>4 DEF StopsReach
  <2>3. CASE s \notin DOMAIN candles
    <3>1. LoopStep("stops", <<>>, r, s) = r
      BY <2>3 DEF LoopStep
    <3>2. \A j \in 1..k : j \in 1..(k - 1) \/ j = k
      BY <1>3
    <3>3. StoppedUpTo(k, r)
      BY <2>1, <2>2, <2>3, <3>2 DEF StoppedUpTo
    <3>. QED
      BY <1>3, <1>4, <2>1, <2>2, <3>1, <3>3 DEF StopsReach
  <2>4. CASE s \in DOMAIN candles
    <3>1. PICK q : q = CheckStopExit(r, s, FALSE)
      OBVIOUS
    <3>2. LoopStep("stops", <<>>, r, s) = q
      BY <2>4, <3>1 DEF LoopStep, Handle
    <3>3. /\ Sound(q, day - 1) /\ q.pending = r.pending
          /\ DOMAIN q.positions \subseteq DOMAIN r.positions
          /\ \A x \in DOMAIN q.positions : q.positions[x] = r.positions[x]
          /\ s \in DOMAIN q.positions => candles[s].low > q.positions[s].effective
          /\ s \notin DOMAIN r.positions => q = r
      <4>1. /\ Sound(r, day - 1) /\ s \in DOMAIN candles /\ candles[s] \in Candles
            /\ FALSE \in BOOLEAN
        BY <1>2, <2>2, <2>4
      <4>2. PICK atOpen \in BOOLEAN : atOpen = FALSE
        BY <4>1
      <4>3. q = CheckStopExit(r, s, atOpen)
        BY <3>1, <4>2
      <4>4. /\ Sound(q, day - 1) /\ q.pending = r.pending
            /\ DOMAIN q.positions \subseteq DOMAIN r.positions
            /\ \A x \in DOMAIN q.positions : q.positions[x] = r.positions[x]
            /\ ~atOpen /\ s \in DOMAIN q.positions => candles[s].low > q.positions[s].effective
            /\ s \notin DOMAIN r.positions => q = r
        BY <4>1, <4>3, CheckStopKeeps, Zenon
      <4>. QED
        BY <4>2, <4>4
    <3>4. q \in Runtimes
      BY <3>3 DEF Sound
    <3>5. \A j \in 1..k : j \in 1..(k - 1) \/ j = k
      BY <1>3
    <3>6. StoppedUpTo(k, q)
      BY <2>1, <2>2, <3>3, <3>5 DEF StoppedUpTo
    <3>7. day = 1 => Fresh(q) /\ q.pending = {}
      BY <2>2, <3>3 DEF Fresh
    <3>. QED
      BY <1>3, <1>4, <2>1, <3>2, <3>3, <3>4, <3>6, <3>7 DEF StopsReach
  <2>. QED
    BY <2>3, <2>4
<1>7. rt' \in Good[n]
  BY <1>1, <1>3, <1>5, <1>6, LoopReaches
<1>8. /\ Sound(rt', day - 1) /\ StoppedUpTo(n, rt')
      /\ day = 1 => Fresh(rt') /\ rt'.pending = {}
  BY <1>3, <1>4, <1>7 DEF StopsReach
<1>9. LastSignal' = day - 1
  BY <1>1 DEF LastSignal
<1>10. Sound(rt', LastSignal')
  BY <1>8, <1>9
<1>11. DayData' /\ CurveOK'
  BY <1>1 DEF BooksInv, DayData, CurveOK
<1>12. FirstDay'
  BY <1>1, <1>2, <1>8 DEF FirstDay, Fresh
<1>13. StopsHonoured'
  <2>1. \A s \in DOMAIN rt'.positions \cap DOMAIN candles : \E j \in 1..n : s = SymbolOrder[j]
    BY <1>2, <1>3 DEF Symbols, Range
  <2>2. \A s \in DOMAIN rt'.positions \cap DOMAIN candles :
          candles[s].low > rt'.positions[s].effective
    BY <1>8, <2>1 DEF StoppedUpTo
  <2>. QED
    BY <1>1, <2>2 DEF StopsHonoured, HeldToday
<1>. QED
  BY <1>10, <1>11, <1>12, <1>13 DEF BooksInv


\* The funding of the day moves cash only, and on the first day there is none to pay.
LEMMA FundBooks == BooksInv /\ Fund => BooksInv'
<1> SUFFICES ASSUME BooksInv, Fund PROVE BooksInv'
  OBVIOUS
<1>1. PICK payments \in [HeldToday -> FundingRates] :
        /\ phase = "stopped" /\ phase' = "funded" /\ rt' = ForEachSymbol("funding", payments)
        /\ day' = day /\ candles' = candles /\ closes' = closes /\ evals' = evals
        /\ curve' = curve
  BY DEF Fund
<1>2. /\ day \in Nat /\ day >= 1 /\ rt \in Runtimes
      /\ \A s \in DOMAIN candles : s \in Symbols /\ candles[s] \in Candles
      /\ day = 1 => Fresh(rt) /\ rt.pending = {}
      /\ Sound(rt, day - 1)
  BY <1>1, DuringDay
<1> DEFINE Good == {r \in Runtimes : /\ Sound(r, day - 1) /\ r.positions = rt.positions
                                     /\ r.pending = rt.pending
                                     /\ day = 1 => r.cash = rt.cash}
<1>3. rt \in Good
  BY <1>2
<1>4. ASSUME NEW s \in Symbols \cap DOMAIN candles, NEW r \in Good
      PROVE  Handle("funding", payments, r, s) \in Good
  <2>1. PICK rates, q : rates = payments[s] /\ q = ApplyFunding(r, s, rates)
    OBVIOUS
  <2>2. Handle("funding", payments, r, s) = q
    BY <2>1 DEF Handle
  <2>3. /\ Sound(r, day - 1) /\ r.positions = rt.positions
        /\ s \in DOMAIN r.positions => rates \in Seq(Int)
    BY <2>1, BacktestNumbers DEF HeldToday
  <2>4. /\ Sound(q, day - 1) /\ q.pending = r.pending /\ q.positions = r.positions
        /\ s \notin DOMAIN r.positions => q = r
    BY <2>1, <2>3, FundingKeeps
  <2>5. q \in Runtimes
    BY <2>4 DEF Sound
  <2>6. day = 1 => q.cash = rt.cash
    BY <1>2, <2>3, <2>4 DEF Fresh
  <2>. QED
    BY <2>2, <2>3, <2>4, <2>5, <2>6
<1> HIDE DEF Good
<1>5. rt' \in Good
  BY <1>1, <1>3, <1>4, LoopKeeps
<1>6. /\ Sound(rt', day - 1) /\ rt'.positions = rt.positions /\ rt'.pending = rt.pending
      /\ day = 1 => rt'.cash = rt.cash
  BY <1>5 DEF Good
<1>7. LastSignal' = day - 1
  BY <1>1 DEF LastSignal
<1>8. Sound(rt', LastSignal')
  BY <1>6, <1>7
<1>9. DayData' /\ CurveOK'
  BY <1>1 DEF BooksInv, DayData, CurveOK
<1>10. FirstDay'
  BY <1>1, <1>2, <1>6 DEF FirstDay, Fresh
<1>11. StopsHonoured'
  BY <1>1, <1>6 DEF BooksInv, StopsHonoured, HeldToday
<1>. QED
  BY <1>8, <1>9, <1>10, <1>11 DEF BooksInv

\* The signals of the day queue intents of this day and leave cash and positions alone.
LEMMA QueueBooks == BooksInv /\ EvaluateAndQueue => BooksInv'
<1> SUFFICES ASSUME BooksInv, EvaluateAndQueue PROVE BooksInv'
  OBVIOUS
<1>1. PICK signals \in [DOMAIN candles -> Signals] :
        /\ phase = "funded" /\ phase' = "queued" /\ rt' = ForEachSymbol("queue", signals)
        /\ evals' = [s \in DOMAIN evals \cup DOMAIN signals |->
                       IF s \in DOMAIN signals THEN signals[s] ELSE evals[s]]
        /\ day' = day /\ candles' = candles /\ closes' = closes /\ curve' = curve
  BY DEF EvaluateAndQueue
<1>2. /\ day \in Nat /\ day >= 1 /\ rt \in Runtimes
      /\ \A s \in DOMAIN candles : s \in Symbols /\ candles[s] \in Candles
      /\ day = 1 => Fresh(rt)
      /\ Sound(rt, day - 1)
  BY <1>1, DuringDay
<1> DEFINE Good == {r \in Runtimes : /\ Sound(r, day) /\ r.positions = rt.positions
                                     /\ r.cash = rt.cash}
<1>3. rt \in Good
  <2>1. day - 1 \in Int /\ day \in Int /\ day - 1 <= day
    BY <1>2
  <2>2. Sound(rt, day)
    BY <1>2, <2>1, SoundLater
  <2>. QED
    BY <1>2, <2>2
<1>4. ASSUME NEW s \in Symbols \cap DOMAIN candles, NEW r \in Good
      PROVE  Handle("queue", signals, r, s) \in Good
  <2>1. PICK e, q : e = signals[s] /\ q = StrategyAndQueue(r, s, e)
    OBVIOUS
  <2>2. Handle("queue", signals, r, s) = q
    BY <2>1 DEF Handle
  <2>3. Sound(r, day) /\ r.positions = rt.positions /\ r.cash = rt.cash /\ e \in Signals
    BY <2>1
  <2>4. Sound(q, day) /\ q.positions = r.positions /\ q.cash = r.cash
    BY <1>2, <2>1, <2>3, QueueKeeps
  <2>5. q \in Runtimes
    BY <2>4 DEF Sound
  <2>. QED
    BY <2>2, <2>3, <2>4, <2>5
<1> HIDE DEF Good
<1>5. rt' \in Good
  BY <1>1, <1>3, <1>4, LoopKeeps
<1>6. Sound(rt', day) /\ rt'.positions = rt.positions /\ rt'.cash = rt.cash
  BY <1>5 DEF Good
<1>7. LastSignal' = day
  BY <1>1 DEF LastSignal
<1>8. Sound(rt', LastSignal')
  BY <1>6, <1>7
<1>9. DayData /\ CurveOK /\ FirstDay /\ StopsHonoured
  BY DEF BooksInv
<1>10. evals' \in Dicts(Symbols, Signals) /\ DOMAIN candles \subseteq DOMAIN evals'
  <2>1. DOMAIN evals \subseteq Symbols /\ \A s \in DOMAIN evals : evals[s] \in Signals
    BY <1>9, DictFacts DEF DayData
  <2>2. PICK D : D = DOMAIN evals \cup DOMAIN signals
    OBVIOUS
  <2>3. D \in SUBSET Symbols /\ evals' \in [D -> Signals] /\ DOMAIN candles \subseteq D
    BY <1>1, <1>2, <2>1, <2>2
  <2>. QED
    BY <2>3 DEF Dicts
<1>11. DayData'
  BY <1>1, <1>9, <1>10 DEF DayData, Dicts, Symbols
<1>12. CurveOK'
  BY <1>1, <1>9 DEF CurveOK
<1>13. FirstDay'
  BY <1>1, <1>2, <1>6 DEF FirstDay, Fresh
<1>14. StopsHonoured'
  BY <1>1, <1>6, <1>9 DEF StopsHonoured, HeldToday
<1>. QED
  BY <1>8, <1>11, <1>12, <1>13, <1>14 DEF BooksInv

\* The trailing stops and the snapshot, the first of which is of the initial capital.
LEMMA TrailBooks == BooksInv /\ TrailAndSnapshot => BooksInv'
<1> SUFFICES ASSUME BooksInv, TrailAndSnapshot PROVE BooksInv'
  OBVIOUS
<1>1. PICK snap :
        /\ snap = [equity |-> rt.cash + UnrealizedPnl(rt.positions,
                                                      MarkPricesFromCandles(rt.positions)),
                   open |-> Cardinality(DOMAIN rt.positions)]
        /\ curve' = Append(curve, snap)
        /\ phase = "queued" /\ phase' = "snapshot" /\ rt' = ForEachSymbol("trail", <<>>)
        /\ day' = day /\ candles' = candles /\ closes' = closes /\ evals' = evals
  BY DEF TrailAndSnapshot
<1>2. /\ day \in Nat /\ day >= 1 /\ rt \in Runtimes
      /\ \A s \in DOMAIN candles : s \in Symbols /\ candles[s] \in Candles
      /\ day = 1 => Fresh(rt)
      /\ Sound(rt, day)
  BY <1>1, DuringDay
<1>3. DayData /\ CurveOK
  BY DEF BooksInv
<1>4. \A s \in DOMAIN candles : s \in DOMAIN evals /\ evals[s] \in Signals
  BY <1>1, <1>3, DictFacts DEF DayData
<1> DEFINE Good == {r \in Runtimes : Sound(r, day)}
<1>5. rt \in Good
  BY <1>2
<1>6. ASSUME NEW s \in Symbols \cap DOMAIN candles, NEW r \in Good
      PROVE  Handle("trail", <<>>, r, s) \in Good
  <2>1. Handle("trail", <<>>, r, s) = UpdateTrailing(r, s)
    BY DEF Handle
  <2>2. Sound(UpdateTrailing(r, s), day)
    BY <1>2, <1>4, TrailKeeps
  <2>3. UpdateTrailing(r, s) \in Runtimes
    BY <2>2 DEF Sound
  <2>. QED
    BY <2>1, <2>2, <2>3
<1> HIDE DEF Good
<1>7. rt' \in Good
  BY <1>1, <1>5, <1>6, LoopKeeps
<1>8. Sound(rt', LastSignal')
  <2>1. LastSignal' = day
    BY <1>1 DEF LastSignal
  <2>. QED
    BY <1>7, <2>1 DEF Good
<1>9. /\ snap \in [equity : Int, open : Nat]
      /\ Fresh(rt) => snap.equity = InitialCash
  <2> DEFINE f == [s \in DOMAIN rt.positions |->
                     rt.positions[s].qty
                       * (MarkPricesFromCandles(rt.positions)[s] - rt.positions[s].entry) * Unit]
  <2>1. /\ rt.cash \in Int /\ DOMAIN rt.positions \subseteq Symbols
        /\ \A s \in DOMAIN rt.positions : rt.positions[s] \in Positions
    BY <1>2, RuntimeFields, DictFacts
  <2>2. IsFiniteSet(DOMAIN rt.positions)
    BY <2>1, SymbolsFinite, FS_Subset
  <2>3. \A s \in DOMAIN rt.positions : rt.positions[s].qty \in Int /\ rt.positions[s].entry \in Int
    BY <2>1 DEF Positions
  <2>4. \A s \in DOMAIN rt.positions : MarkPricesFromCandles(rt.positions)[s] \in Int
    BY <1>2, <2>3, BacktestNumbers DEF MarkPricesFromCandles
  <2>5. Unit \in Int
    BY RiskConstants
  <2>6. DOMAIN f = DOMAIN rt.positions /\ \A s \in DOMAIN f : f[s] \in Int
    BY <2>3, <2>4, <2>5
  <2>7. UnrealizedPnl(rt.positions, MarkPricesFromCandles(rt.positions)) = SumFunction(f)
    BY DEF UnrealizedPnl
  <2> HIDE DEF f
  <2>8. SumFunction(f) \in Int /\ (DOMAIN f = {} => SumFunction(f) = 0)
    BY <2>2, <2>6, SumType
  <2>9. Cardinality(DOMAIN rt.positions) \in Nat
    BY <2>2, FS_CardinalityType
  <2>10. snap = [equity |-> rt.cash + SumFunction(f), open |-> Cardinality(DOMAIN rt.positions)]
    BY <1>1, <2>7
  <2>11. snap.equity = rt.cash + SumFunction(f) /\ snap \in [equity : Int, open : Nat]
    BY <2>1, <2>8, <2>9, <2>10
  <2>. QED
    BY <2>1, <2>6, <2>8, <2>11, BacktestNumbers DEF Fresh
<1>10. CurveOK'
  <2>1. PICK R : R = [equity : Int, open : Nat]
    OBVIOUS
  <2>2. /\ curve \in Seq(R) /\ snap \in R /\ Len(curve) = day - 1
        /\ Len(curve) >= 1 => curve[1].equity = InitialCash
    BY <1>1, <1>3, <1>9, <2>1 DEF CurveOK
  <2>3. /\ curve' \in Seq(R) /\ Len(curve') = Len(curve) + 1
        /\ Len(curve) >= 1 => curve'[1] = curve[1]
        /\ Len(curve) = 0 => curve'[1] = snap
    BY <1>1, <2>2
  <2>4. curve'[1].equity = InitialCash
    BY <1>2, <1>9, <2>2, <2>3
  <2>5. Len(curve') = day'
    BY <1>1, <1>2, <2>2, <2>3
  <2>. QED
    BY <1>1, <2>1, <2>3, <2>4, <2>5 DEF CurveOK
<1>11. DayData'
  BY <1>1, <1>3 DEF DayData
<1>12. FirstDay'
  BY <1>1, <1>2 DEF FirstDay
<1>13. StopsHonoured'
  BY <1>1 DEF StopsHonoured
<1>. QED
  BY <1>8, <1>10, <1>11, <1>12, <1>13 DEF BooksInv

\* Every phase of the day keeps the invariant.
LEMMA NextBooks == BooksInv /\ [BacktestNext]_btVars => BooksInv'
<1> SUFFICES ASSUME BooksInv, [BacktestNext]_btVars PROVE BooksInv'
  OBVIOUS
<1>1. CASE BacktestNext
  BY <1>1, NextDayBooks, FillBooks, CheckStopsBooks, FundBooks, QueueBooks, TrailBooks
  DEF BacktestNext
<1>2. CASE UNCHANGED btVars
  <2>1. /\ rt' = rt /\ day' = day /\ phase' = phase /\ candles' = candles /\ closes' = closes
        /\ evals' = evals /\ curve' = curve
    BY <1>2 DEF btVars
  <2>2. LastSignal' = LastSignal
    BY <2>1 DEF LastSignal
  <2>3. Sound(rt', LastSignal')
    BY <2>1, <2>2 DEF BooksInv
  <2>4. DayData' /\ CurveOK' /\ FirstDay' /\ StopsHonoured'
    BY <2>1 DEF BooksInv, DayData, CurveOK, FirstDay, Fresh, StopsHonoured, HeldToday
  <2>. QED
    BY <2>3, <2>4 DEF BooksInv
<1>. QED
  BY <1>1, <1>2

\* For every configuration, every candle history, every signal and every funding the books
\* of the backtester's day loop are right at every phase of every day: the cash reconciles
\* with the trades and the metrics with the cash, the stops are honoured, a signal leads to
\* at most one position, the drawdown counts from the initial capital.
THEOREM BooksStayRight == BacktestSpec => []BooksAreRight
<1>1. BooksInv /\ [BacktestNext]_btVars => BooksInv'
  BY NextBooks
<1>. QED
  BY BooksInit, BooksFollow, <1>1, PTL DEF BacktestSpec

-----------------------------------------------------------------------------
(* The strategy engine: entries rest on what was known.                    *)

\* What the recursive function of Kept has to be.
KeptSteps(s, I, g) ==
    [i \in 0..Len(s) |-> IF i = 0 THEN <<>>
                         ELSE IF i \in I THEN Append(g[i - 1], s[i]) ELSE g[i - 1]]

\* The recursion of Kept is well defined.
LEMMA KeptRuns ==
    ASSUME NEW T, NEW s \in Seq(T), NEW I
    PROVE  \E g : g = KeptSteps(s, I, g) /\ Kept(s, I) = g[Len(s)]
<1> DEFINE Value(g, i) == IF i = 0 THEN <<>>
                          ELSE IF i \in I THEN Append(g[i - 1], s[i]) ELSE g[i - 1]
           Runs(m, g) == g = [i \in 0..m |-> g[i]] /\ \A i \in 0..m : g[i] = Value(g, i)
           Q == {m \in 0..Len(s) : \E g : Runs(m, g)}
<1>1. Len(s) \in Nat
  OBVIOUS
<1>2. 0 \in Q
  <2>1. PICK g : g = [i \in 0..0 |-> <<>>]
    OBVIOUS
  <2>2. g[0] = <<>> /\ \A i \in 0..0 : i = 0
    BY <2>1
  <2>3. Runs(0, g)
    BY <2>1, <2>2
  <2> HIDE DEF Runs
  <2>. QED
    BY <1>1, <2>3
<1>3. ASSUME NEW m \in 1..Len(s), m - 1 \in Q PROVE m \in Q
  <2>1. PICK g : Runs(m - 1, g)
    BY <1>3
  <2> DEFINE h == [i \in 0..m |-> IF i = m THEN Value(g, m) ELSE g[i]]
  <2>2. m \in Nat /\ m >= 1 /\ m \in 0..Len(s)
    BY <1>1
  <2>3. \A i \in 0..m : i # m => i \in 0..(m - 1) /\ h[i] = g[i]
    BY <2>2
  <2>4. \A i \in 0..m : i # 0 => i - 1 \in 0..m /\ i - 1 # m /\ h[i - 1] = g[i - 1]
    BY <2>2
  <2>5. h[m] = Value(g, m)
    BY <2>2
  <2> HIDE DEF h
  <2>6. ASSUME NEW i \in 0..m PROVE h[i] = Value(h, i)
    <3>1. Value(h, i) = Value(g, i)
      BY <2>4
    <3>2. CASE i = m
      BY <2>5, <3>1, <3>2
    <3>3. CASE i # m
      BY <2>1, <2>3, <3>1, <3>3
    <3>. QED
      BY <3>2, <3>3
  <2>7. h = [i \in 0..m |-> h[i]]
    BY Zenon DEF h
  <2>8. Runs(m, h)
    BY <2>6, <2>7
  <2> HIDE DEF Runs
  <2>. QED
    BY <2>2, <2>8
<1> HIDE DEF Q
<1>4. \A m \in 0..Len(s) : m \in Q
  BY <1>1, <1>2, <1>3, StepInduction
<1>5. Len(s) \in Q
  BY <1>1, <1>4
<1>6. PICK g : Runs(Len(s), g)
  BY <1>5 DEF Q
<1>7. g = KeptSteps(s, I, g)
  BY <1>6, Zenon DEF KeptSteps
<1>8. Kept(s, I) = (CHOOSE f : f = KeptSteps(s, I, f))[Len(s)]
  BY DEF Kept, KeptSteps
<1>9. PICK f : f = (CHOOSE e : e = KeptSteps(s, I, e))
  OBVIOUS
<1>10. f = KeptSteps(s, I, f)
  BY <1>7, <1>9, Zenon
<1>. QED
  BY <1>8, <1>9, <1>10

\* Unfolded: the steps one by one.
LEMMA KeptUnfolds ==
    ASSUME NEW T, NEW s \in Seq(T), NEW I
    PROVE  \E g : /\ Kept(s, I) = g[Len(s)] /\ g[0] = <<>>
                  /\ \A i \in 1..Len(s) :
                        g[i] = IF i \in I THEN Append(g[i - 1], s[i]) ELSE g[i - 1]
<1>1. PICK g : g = KeptSteps(s, I, g) /\ Kept(s, I) = g[Len(s)]
  BY KeptRuns
<1>2. Len(s) \in Nat
  OBVIOUS
<1>3. \A i \in 0..Len(s) :
        KeptSteps(s, I, g)[i] = IF i = 0 THEN <<>>
                                ELSE IF i \in I THEN Append(g[i - 1], s[i]) ELSE g[i - 1]
  BY DEF KeptSteps
<1>4. \A i \in 0..Len(s) :
        g[i] = IF i = 0 THEN <<>>
               ELSE IF i \in I THEN Append(g[i - 1], s[i]) ELSE g[i - 1]
  BY <1>1, <1>3, Zenon
<1>5. 0 \in 0..Len(s) /\ \A i \in 1..Len(s) : i \in 0..Len(s) /\ i # 0
  BY <1>2
<1>. QED
  BY <1>1, <1>4, <1>5

\* An element that is not kept leaves no trace.
LEMMA KeptAppend ==
    ASSUME NEW T, NEW s \in Seq(T), NEW e \in T, NEW I, Len(s) + 1 \notin I
    PROVE  Kept(Append(s, e), I) = Kept(s, I)
<1>1. PICK t : t = Append(s, e)
  OBVIOUS
<1>2. /\ t \in Seq(T) /\ Len(s) \in Nat /\ Len(t) = Len(s) + 1
      /\ \A i \in 1..Len(s) : t[i] = s[i] /\ i \in 1..Len(t)
  BY <1>1
<1>3. PICK g : /\ Kept(s, I) = g[Len(s)] /\ g[0] = <<>>
               /\ \A i \in 1..Len(s) :
                     g[i] = IF i \in I THEN Append(g[i - 1], s[i]) ELSE g[i - 1]
  BY KeptUnfolds
<1>4. PICK h : /\ Kept(t, I) = h[Len(t)] /\ h[0] = <<>>
               /\ \A i \in 1..Len(t) :
                     h[i] = IF i \in I THEN Append(h[i - 1], t[i]) ELSE h[i - 1]
  BY <1>2, KeptUnfolds
<1> DEFINE Q == {i \in 0..Len(s) : h[i] = g[i]}
<1>5. 0 \in Q
  BY <1>2, <1>3, <1>4
<1>6. ASSUME NEW i \in 1..Len(s), i - 1 \in Q PROVE i \in Q
  <2>1. h[i - 1] = g[i - 1] /\ i \in 1..Len(t) /\ t[i] = s[i] /\ i \in 0..Len(s)
    BY <1>2, <1>6
  <2>2. h[i] = IF i \in I THEN Append(h[i - 1], t[i]) ELSE h[i - 1]
    BY <1>4, <2>1
  <2>3. g[i] = IF i \in I THEN Append(g[i - 1], s[i]) ELSE g[i - 1]
    BY <1>3
  <2>4. h[i] = g[i]
    BY <2>1, <2>2, <2>3
  <2>. QED
    BY <2>1, <2>4
<1> HIDE DEF Q
<1>7. \A i \in 0..Len(s) : i \in Q
  BY <1>2, <1>5, <1>6, StepInduction
<1>8. h[Len(s)] = g[Len(s)]
  BY <1>2, <1>7 DEF Q
<1>9. h[Len(t)] = h[Len(s)]
  BY <1>2, <1>4
<1>. QED
  BY <1>1, <1>3, <1>4, <1>8, <1>9

\* What is kept of a sequence is one.
LEMMA KeptTyped ==
    ASSUME NEW T, NEW s \in Seq(T), NEW I
    PROVE  Kept(s, I) \in Seq(T)
<1>1. Len(s) \in Nat /\ \A i \in 1..Len(s) : s[i] \in T
  OBVIOUS
<1>2. PICK g : /\ Kept(s, I) = g[Len(s)] /\ g[0] = <<>>
               /\ \A i \in 1..Len(s) :
                     g[i] = IF i \in I THEN Append(g[i - 1], s[i]) ELSE g[i - 1]
  BY KeptUnfolds
<1> DEFINE Q == {i \in 0..Len(s) : g[i] \in Seq(T)}
<1>3. 0 \in Q
  <2>1. <<>> \in Seq(T) /\ 0 \in 0..Len(s)
    BY <1>1
  <2>2. g[0] \in Seq(T)
    BY <1>2, <2>1, Zenon
  <2>. QED
    BY <2>1, <2>2
<1>4. ASSUME NEW i \in 1..Len(s), i - 1 \in Q PROVE i \in Q
  <2>1. g[i - 1] \in Seq(T) /\ s[i] \in T /\ i \in 0..Len(s)
    BY <1>1, <1>4
  <2>2. Append(g[i - 1], s[i]) \in Seq(T)
    BY <2>1
  <2>. QED
    BY <1>2, <2>1, <2>2
<1> HIDE DEF Q
<1>5. \A i \in 0..Len(s) : i \in Q
  BY <1>1, <1>3, <1>4, StepInduction
<1>. QED
  BY <1>1, <1>2, <1>5 DEF Q

\* The series cut at a time before a later candle is the one cut without that candle.
LEMMA SliceBefore ==
    ASSUME NEW T, NEW s \in Seq(T), NEW e \in T, NEW now, ~(e.closes <= now)
    PROVE  SliceClosedCandles(Append(s, e), now) = SliceClosedCandles(s, now)
<1> DEFINE t == Append(s, e)
           I == {i \in DOMAIN s : s[i].done /\ s[i].closes <= now}
<1>1. /\ Len(s) \in Nat /\ DOMAIN s = 1..Len(s) /\ DOMAIN t = 1..(Len(s) + 1)
      /\ \A i \in 1..Len(s) : t[i] = s[i]
      /\ t[Len(s) + 1] = e
  OBVIOUS
<1>2. {i \in DOMAIN t : t[i].done /\ t[i].closes <= now} = I
  <2>1. \A i \in DOMAIN t : i \in DOMAIN s \/ i = Len(s) + 1
    BY <1>1
  <2> HIDE DEF t
  <2>. QED
    BY <1>1, <2>1
<1>3. Len(s) + 1 \notin I
  BY <1>1
<1> HIDE DEF I
<1>4. Kept(t, I) = Kept(s, I)
  BY <1>3, KeptAppend
<1>. QED
  BY <1>2, <1>4, Zenon DEF SliceClosedCandles, I

\* A product with a number that is not negative keeps the order.
LEMMA ProductKeepsOrder ==
    ASSUME NEW a \in Nat, NEW x \in Int, NEW y \in Int, x <= y
    PROVE  a * x <= a * y
<1>1. a * x \in Int /\ a * y \in Int /\ a * (y - x) \in Int /\ y - x \in Nat
  OBVIOUS
<1>2. a * y = a * x + a * (y - x)
  OBVIOUS
<1>3. a * (y - x) >= 0
  BY <1>1
<1>. QED
  BY <1>1, <1>2, <1>3

\* The smoothing adds up to one: it stays on the side on which the close and the
\* last average are.
LEMMA SmoothingKeepsSides ==
    ASSUME NEW n \in Nat, n >= 1, NEW c \in Int, NEW p \in Int, NEW q \in Int, NEW y \in Int
    PROVE  /\ c * q >= y * q /\ p >= y * q => 2 * c * q + (n - 1) * p >= y * ((n + 1) * q)
           /\ y * q >= c * q /\ y * q >= p => y * ((n + 1) * q) >= 2 * c * q + (n - 1) * p
<1>1. PICK u, v \in Int : u = y * q /\ v = c * q
  OBVIOUS
<1>2. n - 1 \in Nat
  OBVIOUS
<1>3. 2 * c * q = 2 * v
  BY <1>1
<1>4. y * ((n + 1) * q) = (n + 1) * u
  BY <1>1
<1>5. (n + 1) * u = 2 * u + (n - 1) * u /\ (n - 1) * u \in Int /\ (n - 1) * p \in Int
  BY <1>1
<1>6. (p >= u => (n - 1) * u <= (n - 1) * p) /\ (u >= p => (n - 1) * p <= (n - 1) * u)
  BY <1>1, <1>2, ProductKeepsOrder
<1>. QED
  BY <1>1, <1>3, <1>4, <1>5, <1>6

\* The average is a fraction between some close of the first i and some other.
Between(cs, i, x) ==
    /\ x[1] \in Int /\ x[2] \in Nat \ {0}
    /\ \E j \in 1..i : x[1] >= cs[j] * x[2]
    /\ \E j \in 1..i : cs[j] * x[2] >= x[1]

\* One step of the smoothing.
EmaStep(cs, n, i, x) == <<2 * cs[i] * x[2] + (n - 1) * x[1], (n + 1) * x[2]>>

\* A smoothed average stays between two of the closes seen.
LEMMA StepStaysBetween ==
    ASSUME NEW cs \in Seq(Int), NEW n \in Nat \ {0}, NEW i \in 2..Len(cs),
           NEW x, Between(cs, i - 1, x)
    PROVE  Between(cs, i, EmaStep(cs, n, i, x))
<1>1. PICK p \in Int, q \in Nat \ {0} : p = x[1] /\ q = x[2]
  BY DEF Between
<1>2. PICK a, b \in 1..(i - 1) : p >= cs[a] * q /\ cs[b] * q >= p
  BY <1>1 DEF Between
<1>3. i \in Nat /\ {a, b, i} \subseteq 1..i /\ i \in 1..Len(cs)
  OBVIOUS
<1>4. PICK c, ya, yb \in Int : c = cs[i] /\ ya = cs[a] /\ yb = cs[b]
  <2>1. a \in 1..Len(cs) /\ b \in 1..Len(cs)
    OBVIOUS
  <2>. QED
    BY <1>3, <2>1
<1>5. PICK P \in Int, R \in Nat \ {0} : P = 2 * c * q + (n - 1) * p /\ R = (n + 1) * q
  <2>1. (n + 1) * q \in Nat \ {0} /\ 2 * c * q + (n - 1) * p \in Int
    OBVIOUS
  <2>. QED
    BY <2>1
<1>6. EmaStep(cs, n, i, x) = <<P, R>>
  BY <1>1, <1>4, <1>5 DEF EmaStep
<1>7. \A y \in Int : /\ c * q >= y * q /\ p >= y * q => P >= y * R
                     /\ y * q >= c * q /\ y * q >= p => y * R >= P
  BY <1>5, SmoothingKeepsSides
<1>8. \E j \in 1..i : P >= cs[j] * R
  <2>1. p >= ya * q
    BY <1>2, <1>4, Zenon
  <2>2. c * q \in Int /\ ya * q \in Int
    OBVIOUS
  <2>3. CASE c * q >= ya * q
    <3>1. P >= ya * R
      BY <1>7, <2>1, <2>2, <2>3
    <3>. QED
      BY <1>3, <1>4, <3>1
  <2>4. CASE c * q < ya * q
    <3>1. P >= c * R
      BY <1>7, <2>1, <2>2, <2>4
    <3>. QED
      BY <1>3, <1>4, <3>1
  <2>. QED
    BY <2>2, <2>3, <2>4
<1>9. \E j \in 1..i : cs[j] * R >= P
  <2>1. yb * q >= p
    BY <1>2, <1>4, Zenon
  <2>2. c * q \in Int /\ yb * q \in Int
    OBVIOUS
  <2>3. CASE yb * q >= c * q
    <3>1. yb * R >= P
      BY <1>7, <2>1, <2>2, <2>3
    <3>. QED
      BY <1>3, <1>4, <3>1
  <2>4. CASE yb * q < c * q
    <3>1. c * R >= P
      BY <1>7, <2>1, <2>2, <2>4
    <3>. QED
      BY <1>3, <1>4, <3>1
  <2>. QED
    BY <2>2, <2>3, <2>4
<1>10. PICK z : z = EmaStep(cs, n, i, x) /\ z[1] = P /\ z[2] = R
  BY <1>6
<1>11. \E j \in 1..i : z[1] >= cs[j] * z[2]
  BY <1>8, <1>10, Zenon
<1>12. \E j \in 1..i : cs[j] * z[2] >= z[1]
  BY <1>9, <1>10, Zenon
<1>. QED
  BY <1>5, <1>10, <1>11, <1>12, Zenon DEF Between

\* The mean of the first closes is between them.
LEMMA SeedIsBetween ==
    ASSUME NEW cs \in Seq(Int), NEW n \in Nat \ {0}, n <= Len(cs)
    PROVE  Between(cs, n, <<SumFunction(SubSeq(cs, 1, n)), n>>)
<1>1. PICK t : t = SubSeq(cs, 1, n)
  OBVIOUS
<1>2. /\ DOMAIN t = 1..n /\ \A j \in 1..n : t[j] = cs[j] /\ t[j] \in Int
  BY <1>1
<1> DEFINE S(k) == SumFunctionOnSet(t, 1..k)
<1>3. IsFiniteSet(1..n)
  BY FS_Interval
<1>4. /\ SumFunctionOnSet(t, {}) = 0
      /\ \A s \in SUBSET (1..n) : SumFunctionOnSet(t, s) \in Int
      /\ \A s \in SUBSET (1..n) : \A x \in (1..n) \ s :
            SumFunctionOnSet(t, s \cup {x}) = SumFunctionOnSet(t, s) + t[x]
  <2>1. \A j \in 1..n : t[j] \in Int
    BY <1>2
  <2>. QED
    BY <1>3, <2>1, SumLaws, Zenon
<1>5. S(0) = 0 /\ \A k \in 0..n : S(k) \in Int
  <2>1. 1..0 = {} /\ \A k \in 0..n : 1..k \in SUBSET (1..n)
    OBVIOUS
  <2>. QED
    BY <1>4, <2>1
<1>6. \A k \in 1..n : S(k) = S(k - 1) + cs[k]
  <2>1. \A k \in 1..n : /\ 1..(k - 1) \in SUBSET (1..n) /\ k \in (1..n) \ (1..(k - 1))
                        /\ 1..k = (1..(k - 1)) \cup {k}
    OBVIOUS
  <2>2. ASSUME NEW k \in 1..n PROVE S(k) = S(k - 1) + t[k]
    <3>1. PICK s : s = 1..(k - 1)
      OBVIOUS
    <3>2. s \in SUBSET (1..n) /\ k \in (1..n) \ s /\ 1..k = s \cup {k}
      BY <2>1, <3>1, Zenon
    <3>3. SumFunctionOnSet(t, s \cup {k}) = SumFunctionOnSet(t, s) + t[k]
      BY <1>4, <3>2, Zenon
    <3>. QED
      BY <3>1, <3>2, <3>3, Zenon
  <2>. QED
    BY <1>2, <2>2, Zenon
<1> DEFINE Low(k) == \E j \in 1..k : S(k) >= k * cs[j]
           High(k) == \E j \in 1..k : k * cs[j] >= S(k)
           Q == {k \in 0..n : k >= 1 => Low(k) /\ High(k)}
<1>7. 0 \in Q
  OBVIOUS
<1> HIDE DEF S
<1>8. ASSUME NEW k \in 1..n, k - 1 \in Q PROVE k \in Q
  <2>1. k \in Nat /\ k \in 0..n /\ k - 1 \in Nat /\ k - 1 \in 0..n
    OBVIOUS
  <2>2. PICK c, v, w \in Int : c = cs[k] /\ v = S(k - 1) /\ w = S(k) /\ w = v + c
    BY <1>2, <1>5, <1>6, <2>1
  <2>3. CASE k = 1
    <3>1. v = 0 /\ 1 \in 1..k /\ cs[1] = c /\ w = k * c
      BY <1>5, <2>2, <2>3
    <3>2. w >= k * cs[1] /\ k * cs[1] >= w
      BY <2>1, <3>1
    <3>3. Low(k) /\ High(k)
      BY <2>2, <3>1, <3>2, Zenon
    <3> HIDE DEF Low, High
    <3>. QED
      BY <2>1, <3>3
  <2>4. CASE k # 1
    <3>1. Low(k - 1) /\ High(k - 1)
      BY <1>8, <2>1, <2>4
    <3>2. PICK a, b \in 1..(k - 1) : S(k - 1) >= (k - 1) * cs[a] /\ (k - 1) * cs[b] >= S(k - 1)
      BY <3>1
    <3>3. PICK ya, yb \in Int : ya = cs[a] /\ yb = cs[b]
      BY <1>2, <2>1
    <3>4. v >= (k - 1) * ya /\ (k - 1) * yb >= v
      BY <2>2, <3>2, <3>3, Zenon
    <3>5. \A y \in Int : k * y = (k - 1) * y + y /\ (k - 1) * y \in Int
      BY <2>1
    <3>6. {a, b, k} \subseteq 1..k
      BY <2>1
    <3>7. Low(k)
      <4>1. CASE c >= ya
        <5>1. w >= k * ya
          BY <2>2, <3>4, <3>5, <4>1
        <5>. QED
          BY <2>2, <3>3, <3>6, <5>1
      <4>2. CASE c < ya
        <5>1. (k - 1) * c <= (k - 1) * ya
          BY <2>1, <4>2, ProductKeepsOrder
        <5>2. w >= k * c
          BY <2>2, <3>4, <3>5, <5>1
        <5>. QED
          BY <2>2, <3>3, <3>6, <5>2
      <4>. QED
        BY <4>1, <4>2
    <3>8. High(k)
      <4>1. CASE c <= yb
        <5>1. k * yb >= w
          BY <2>2, <3>4, <3>5, <4>1
        <5>. QED
          BY <2>2, <3>3, <3>6, <5>1
      <4>2. CASE c > yb
        <5>1. (k - 1) * yb <= (k - 1) * c
          BY <2>1, <4>2, ProductKeepsOrder
        <5>2. k * c >= w
          BY <2>2, <3>4, <3>5, <5>1
        <5>. QED
          BY <2>2, <3>3, <3>6, <5>2
      <4>. QED
        BY <4>1, <4>2
    <3> HIDE DEF Low, High
    <3>. QED
      BY <2>1, <3>7, <3>8
  <2>. QED
    BY <2>3, <2>4
<1> HIDE DEF Q
<1>9. \A k \in 0..n : k \in Q
  BY <1>7, <1>8, StepInduction
<1>10. Low(n) /\ High(n)
  BY <1>9 DEF Q
<1>11. PICK w \in Int : w = S(n) /\ w = SumFunction(t)
  BY <1>2, <1>5 DEF S, SumFunction
<1>12. PICK a, b \in 1..n : w >= n * cs[a] /\ n * cs[b] >= w
  BY <1>10, <1>11
<1>13. PICK ya, yb \in Int : ya = cs[a] /\ yb = cs[b]
  BY <1>2
<1>14. n * ya = ya * n /\ n * yb = yb * n
  OBVIOUS
<1>15. PICK z : z = <<w, n>>
  OBVIOUS
<1>16. z[1] = w /\ z[2] = n
  BY <1>15
<1>17. z[1] >= cs[a] * z[2] /\ cs[b] * z[2] >= z[1]
  BY <1>12, <1>13, <1>14, <1>16, Zenon
<1>18. Between(cs, n, z)
  BY <1>16, <1>17, Zenon DEF Between
<1>. QED
  BY <1>1, <1>11, <1>15, <1>18, Zenon

\* What the recursive function of ComputeEma has to be.
EmaAt(cs, n, g, i) ==
    IF i = n THEN <<SumFunction(SubSeq(cs, 1, n)), n>> ELSE EmaStep(cs, n, i, g[i - 1])

\* What the recursive function of ComputeEma has to be.
EmaSteps(cs, n, g) == [i \in n..Len(cs) |-> EmaAt(cs, n, g, i)]

\* The recursion of ComputeEma is well defined.
LEMMA EmaRuns ==
    ASSUME NEW cs \in Seq(Int), NEW n \in Nat \ {0}
    PROVE  ComputeEma(cs, n) = EmaSteps(cs, n, ComputeEma(cs, n))
<1> DEFINE Runs(m, g) == g = [i \in n..m |-> g[i]] /\ \A i \in n..m : g[i] = EmaAt(cs, n, g, i)
           Q == {k \in 0..Len(cs) : \E g : Runs(n + k, g)}
<1>1. Len(cs) \in Nat
  OBVIOUS
<1>2. 0 \in Q
  <2>1. PICK g : g = [i \in n..(n + 0) |-> <<SumFunction(SubSeq(cs, 1, n)), n>>]
    OBVIOUS
  <2>2. \A i \in n..(n + 0) : i = n
    OBVIOUS
  <2>3. \A i \in n..(n + 0) : g[i] = <<SumFunction(SubSeq(cs, 1, n)), n>>
    BY <2>1
  <2>4. \A i \in n..(n + 0) : EmaAt(cs, n, g, i) = <<SumFunction(SubSeq(cs, 1, n)), n>>
    BY <2>2, Zenon DEF EmaAt
  <2>5. g = [i \in n..(n + 0) |-> g[i]]
    BY <2>1, Zenon
  <2>6. Runs(n + 0, g)
    BY <2>3, <2>4, <2>5, Zenon
  <2>7. 0 \in 0..Len(cs)
    BY <1>1
  <2> HIDE DEF Runs
  <2>. QED
    BY <2>6, <2>7
<1>3. ASSUME NEW k \in 1..Len(cs), k - 1 \in Q PROVE k \in Q
  <2>1. PICK g : Runs(n + (k - 1), g)
    BY <1>3
  <2>2. PICK m \in Nat : m = n + k /\ n + (k - 1) = m - 1 /\ m > n /\ k \in 0..Len(cs)
    BY <1>1
  <2> DEFINE h == [i \in n..m |-> IF i = m THEN EmaAt(cs, n, g, m) ELSE g[i]]
  <2>3. \A i \in n..m : i # m => i \in n..(m - 1) /\ h[i] = g[i]
    BY <2>2
  <2>4. \A i \in n..m : i # n => i - 1 \in n..m /\ i - 1 # m /\ h[i - 1] = g[i - 1]
    BY <2>2
  <2>5. h[m] = EmaAt(cs, n, g, m)
    BY <2>2
  <2>6. h = [i \in n..m |-> h[i]]
    BY Zenon
  <2> HIDE DEF h
  <2>7. ASSUME NEW i \in n..m PROVE h[i] = EmaAt(cs, n, h, i)
    <3>1. EmaAt(cs, n, h, i) = EmaAt(cs, n, g, i)
      BY <2>4, Zenon DEF EmaAt
    <3>2. CASE i = m
      BY <2>5, <3>1, <3>2, Zenon
    <3>3. CASE i # m
      <4>1. i \in n..(n + (k - 1)) /\ h[i] = g[i]
        BY <2>2, <2>3, <3>3
      <4>. QED
        BY <2>1, <3>1, <4>1, Zenon
    <3>. QED
      BY <3>2, <3>3
  <2>8. Runs(n + k, h)
    BY <2>2, <2>6, <2>7, Zenon
  <2> HIDE DEF Runs
  <2>. QED
    BY <2>2, <2>8
<1> HIDE DEF Q
<1>4. \A k \in 0..Len(cs) : k \in Q
  BY <1>1, <1>2, <1>3, StepInduction
<1>5. \E g : g = EmaSteps(cs, n, g)
  <2>1. CASE Len(cs) < n
    <3>1. n..Len(cs) = {}
      BY <1>1, <2>1
    <3>2. PICK g : g = [i \in n..Len(cs) |-> 0]
      OBVIOUS
    <3>3. EmaSteps(cs, n, g) = g
      BY <3>1, <3>2, Zenon DEF EmaSteps
    <3>. QED
      BY <3>3, Zenon
  <2>2. CASE Len(cs) >= n
    <3>1. Len(cs) - n \in 0..Len(cs) /\ n + (Len(cs) - n) = Len(cs)
      BY <1>1, <2>2
    <3>2. PICK g : Runs(n + (Len(cs) - n), g)
      BY <1>4, <3>1 DEF Q
    <3>3. g = EmaSteps(cs, n, g)
      BY <3>1, <3>2, Zenon DEF EmaSteps
    <3>. QED
      BY <3>3, Zenon
  <2>. QED
    BY <1>1, <2>1, <2>2
<1>6. ComputeEma(cs, n) = CHOOSE g : g = EmaSteps(cs, n, g)
  BY DEF ComputeEma, EmaSteps, EmaAt, EmaStep
<1>. QED
  BY <1>5, <1>6, Zenon

\* The exponential average is between closes of the series, from its first value on.
LEMMA EmaIsBetween ==
    ASSUME NEW cs \in Seq(Int), NEW n \in Nat \ {0}
    PROVE  \A i \in DOMAIN ComputeEma(cs, n) : Between(cs, i, ComputeEma(cs, n)[i])
<1>1. PICK g : g = ComputeEma(cs, n)
  OBVIOUS
<1>2. g = EmaSteps(cs, n, g)
  BY <1>1, EmaRuns, Zenon
<1>3. DOMAIN g = n..Len(cs) /\ \A i \in n..Len(cs) : g[i] = EmaAt(cs, n, g, i)
  BY <1>2, Zenon DEF EmaSteps
<1>4. Len(cs) \in Nat
  OBVIOUS
<1> DEFINE Q == {k \in 0..Len(cs) : n + k <= Len(cs) => Between(cs, n + k, g[n + k])}
<1>5. 0 \in Q
  <2>1. n + 0 = n /\ 0 \in 0..Len(cs)
    BY <1>4
  <2>2. ASSUME n <= Len(cs) PROVE Between(cs, n, g[n])
    <3>1. n \in n..Len(cs)
      BY <1>4, <2>2
    <3>2. g[n] = <<SumFunction(SubSeq(cs, 1, n)), n>>
      BY <1>3, <3>1 DEF EmaAt
    <3>. QED
      BY <2>2, <3>2, SeedIsBetween
  <2>. QED
    BY <2>1, <2>2
<1>6. ASSUME NEW k \in 1..Len(cs), k - 1 \in Q PROVE k \in Q
  <2>1. k \in 0..Len(cs)
    BY <1>4
  <2>2. ASSUME n + k <= Len(cs) PROVE Between(cs, n + k, g[n + k])
    <3>1. PICK i : i = n + k
      OBVIOUS
    <3>2. /\ i \in 2..Len(cs) /\ i \in n..Len(cs) /\ i # n /\ n + (k - 1) = i - 1
          /\ n + (k - 1) <= Len(cs)
      BY <1>4, <2>2, <3>1
    <3>3. Between(cs, i - 1, g[i - 1])
      BY <1>6, <3>2
    <3>4. g[i] = EmaStep(cs, n, i, g[i - 1])
      BY <1>3, <3>2 DEF EmaAt
    <3>. QED
      BY <3>1, <3>2, <3>3, <3>4, StepStaysBetween
  <2>. QED
    BY <2>1, <2>2
<1> HIDE DEF Q
<1>7. \A k \in 0..Len(cs) : k \in Q
  BY <1>4, <1>5, <1>6, StepInduction
<1>8. ASSUME NEW i \in DOMAIN g PROVE Between(cs, i, g[i])
  <2>1. i - n \in 0..Len(cs) /\ n + (i - n) = i /\ i <= Len(cs)
    BY <1>3, <1>4
  <2>. QED
    BY <1>7, <2>1 DEF Q
<1>. QED
  BY <1>1, <1>8

\* The candles of a series.
Bars == [o : Int, h : Int, l : Int, c : Int, v : Int, done : BOOLEAN, fits : BOOLEAN,
         opens : Int, closes : Int]

\* What the recursive function of ComputeWilderAtr has to be: its seed, at the place after
\* the period, and its steps.
AtrSeed(ks, p) == <<SumFunction([j \in 1..p |-> TrueRange(ks, j + 1)]), p>>
AtrStep(ks, p, i, a) == <<a[1] * (p - 1) + TrueRange(ks, i) * a[2], p * a[2]>>
AtrAt(ks, p, g, i) == IF i = p + 1 THEN AtrSeed(ks, p) ELSE AtrStep(ks, p, i, g[i - 1])
AtrSteps(ks, p, g) == [i \in (p + 1)..Len(ks) |-> AtrAt(ks, p, g, i)]

\* The recursion of ComputeWilderAtr is well defined.
LEMMA AtrRuns ==
    ASSUME NEW T, NEW ks \in Seq(T), NEW p \in Nat \ {0}
    PROVE  ComputeWilderAtr(ks, p) = AtrSteps(ks, p, ComputeWilderAtr(ks, p))
<1>0. PICK n \in Nat \ {0} : n = p + 1
  OBVIOUS
<1> DEFINE Runs(m, g) == g = [i \in n..m |-> g[i]] /\ \A i \in n..m : g[i] = AtrAt(ks, p, g, i)
           Q == {k \in 0..Len(ks) : \E g : Runs(n + k, g)}
<1>1. Len(ks) \in Nat
  OBVIOUS
<1>2. 0 \in Q
  <2>1. PICK g : g = [i \in n..(n + 0) |-> AtrSeed(ks, p)]
    OBVIOUS
  <2>2. \A i \in n..(n + 0) : i = n
    OBVIOUS
  <2>3. \A i \in n..(n + 0) : g[i] = AtrSeed(ks, p)
    BY <2>1
  <2>4. \A i \in n..(n + 0) : AtrAt(ks, p, g, i) = AtrSeed(ks, p)
    BY <1>0, <2>2, Zenon DEF AtrAt
  <2>5. g = [i \in n..(n + 0) |-> g[i]]
    BY <2>1, Zenon
  <2>6. Runs(n + 0, g)
    BY <2>3, <2>4, <2>5, Zenon
  <2>7. 0 \in 0..Len(ks)
    BY <1>1
  <2> HIDE DEF Runs
  <2>. QED
    BY <2>6, <2>7
<1>3. ASSUME NEW k \in 1..Len(ks), k - 1 \in Q PROVE k \in Q
  <2>1. PICK g : Runs(n + (k - 1), g)
    BY <1>3
  <2>2. PICK m \in Nat : m = n + k /\ n + (k - 1) = m - 1 /\ m > n /\ k \in 0..Len(ks)
    BY <1>1
  <2> DEFINE h == [i \in n..m |-> IF i = m THEN AtrAt(ks, p, g, m) ELSE g[i]]
  <2>3. \A i \in n..m : i # m => i \in n..(m - 1) /\ h[i] = g[i]
    BY <2>2
  <2>4. \A i \in n..m : i # n => i - 1 \in n..m /\ i - 1 # m /\ h[i - 1] = g[i - 1]
    BY <2>2
  <2>5. h[m] = AtrAt(ks, p, g, m)
    BY <2>2
  <2>6. h = [i \in n..m |-> h[i]]
    BY Zenon
  <2> HIDE DEF h
  <2>7. ASSUME NEW i \in n..m PROVE h[i] = AtrAt(ks, p, h, i)
    <3>1. AtrAt(ks, p, h, i) = AtrAt(ks, p, g, i)
      BY <1>0, <2>4, Zenon DEF AtrAt
    <3>2. CASE i = m
      BY <2>5, <3>1, <3>2, Zenon
    <3>3. CASE i # m
      <4>1. i \in n..(n + (k - 1)) /\ h[i] = g[i]
        BY <2>2, <2>3, <3>3
      <4>. QED
        BY <2>1, <3>1, <4>1, Zenon
    <3>. QED
      BY <3>2, <3>3
  <2>8. Runs(n + k, h)
    BY <2>2, <2>6, <2>7, Zenon
  <2> HIDE DEF Runs
  <2>. QED
    BY <2>2, <2>8
<1> HIDE DEF Q
<1>4. \A k \in 0..Len(ks) : k \in Q
  BY <1>1, <1>2, <1>3, StepInduction
<1>5. \E g : g = AtrSteps(ks, p, g)
  <2>1. CASE Len(ks) < n
    <3>1. n..Len(ks) = {}
      BY <1>1, <2>1
    <3>2. PICK g : g = [i \in n..Len(ks) |-> 0]
      OBVIOUS
    <3>3. AtrSteps(ks, p, g) = g
      BY <1>0, <3>1, <3>2, Zenon DEF AtrSteps
    <3>. QED
      BY <3>3, Zenon
  <2>2. CASE Len(ks) >= n
    <3>1. Len(ks) - n \in 0..Len(ks) /\ n + (Len(ks) - n) = Len(ks)
      BY <1>1, <2>2
    <3>2. PICK g : Runs(n + (Len(ks) - n), g)
      BY <1>4, <3>1 DEF Q
    <3>3. g = AtrSteps(ks, p, g)
      BY <1>0, <3>1, <3>2, Zenon DEF AtrSteps
    <3>. QED
      BY <3>3, Zenon
  <2>. QED
    BY <1>1, <2>1, <2>2
<1>6. ComputeWilderAtr(ks, p) = CHOOSE g : g = AtrSteps(ks, p, g)
  BY DEF ComputeWilderAtr, AtrSteps, AtrAt, AtrSeed, AtrStep
<1>. QED
  BY <1>5, <1>6, Zenon

\* What the engine has checked when it signals an entry.
LEMMA EntryChecks ==
    ASSUME NEW d, NEW w, NEW m, NEW now, NEW e, e = Evaluation(d, w, m, now),
           e.kind = "LONG_ENTRY" \/ e.type = {"PULLBACK"}
    PROVE  /\ ValidateCandleSeries(d, "daily", now) # "INVALID_DATA"
           /\ At(ComputeEma(Column(d, "c"), Periods.ema), Len(d)) # {}
           /\ At(ComputeWilderAtr(d, Periods.atr), Len(d)) # {}
           /\ At(ComputeVolumeRatio(Column(d, "v"), Periods.volume), Len(d)) # {}
           /\ e.type = {"BREAKOUT"} =>
                 At(ComputeHigh20(Column(d, "h"), Periods.lookback), Len(d)) # {}
           /\ e.type = {"PULLBACK"} =>
                 ~\E h \in At(ComputeHigh20(Column(d, "h"), Periods.lookback), Len(d)) :
                     d[Len(d)].c > h
<1> DEFINE status == {ValidateCandleSeries(d, "daily", now), ValidateCandleSeries(w, "weekly", now),
                      ValidateCandleSeries(m, "monthly", now)}
<1>1. \A k \in {"INVALID_DATA", "INSUFFICIENT_HISTORY"} :
         NoEntry(k).kind # "LONG_ENTRY" /\ NoEntry(k).type # {"PULLBACK"}
  BY DEF NoEntry
<1>2. \A a : LET x == [NoEntry("INSUFFICIENT_HISTORY") EXCEPT !.atr = a]
             IN  x.kind # "LONG_ENTRY" /\ x.type # {"PULLBACK"}
  BY DEF NoEntry
<1>3. "INVALID_DATA" \notin status
  BY <1>1 DEF Evaluation
<1>4. status = {"OK"} \/ CheckWarmupComplete(d, w, m)
  BY <1>1, <1>3 DEF Evaluation
<1> HIDE DEF status
<1> DEFINE E == At(ComputeEma(Column(d, "c"), Periods.ema), Len(d))
           A == At(ComputeWilderAtr(d, Periods.atr), Len(d))
           V == At(ComputeVolumeRatio(Column(d, "v"), Periods.volume), Len(d))
           F == At(ComputeEma(Column(w, "c"), Periods.fast), Len(w))
           S == At(ComputeEma(Column(w, "c"), Periods.slow), Len(w))
           R == At(ComputeEma(Column(m, "c"), Periods.monthly), Len(m))
           the(X) == CHOOSE x \in X : TRUE
           late == {} \in {E, A, V, F, S, R} \/ \E a \in A : a[1] <= 0
<1>6. e = IF late THEN [NoEntry("INSUFFICIENT_HISTORY") EXCEPT !.atr = A]
          ELSE DecideEntry(d, w, m, the(E), the(A), the(V), the(F), the(S), the(R))
  <2>1. e = IF "INVALID_DATA" \in status THEN NoEntry("INVALID_DATA")
            ELSE IF status # {"OK"} /\ ~CheckWarmupComplete(d, w, m)
            THEN NoEntry("INSUFFICIENT_HISTORY")
            ELSE IF late THEN [NoEntry("INSUFFICIENT_HISTORY") EXCEPT !.atr = A]
            ELSE DecideEntry(d, w, m, the(E), the(A), the(V), the(F), the(S), the(R))
    BY Zenon DEF Evaluation, status
  <2> HIDE DEF late, the
  <2>. QED
    BY <1>3, <1>4, <2>1, Zenon
<1> HIDE DEF E, A, V, F, S, R
<1>7. ~late
  <2> HIDE DEF late, the
  <2>. QED
    BY <1>2, <1>6
<1>8. PICK x1, x2, x3, x4, x5, x6 : e = DecideEntry(d, w, m, x1, x2, x3, x4, x5, x6)
  <2> HIDE DEF late, the
  <2>. QED
    BY <1>6, <1>7, Zenon
<1>9. E # {} /\ A # {} /\ V # {}
  BY <1>7
<1> HIDE DEF late, the
<1>10. PICK k, H : k = d[Len(d)] /\ H = At(ComputeHigh20(Column(d, "h"), Periods.lookback), Len(d))
  OBVIOUS
<1> DEFINE t == Len(d)
           emas == ComputeEma(Column(d, "c"), Periods.ema)
           prev == IF t > 1 /\ t - 1 \in DOMAIN emas
                   THEN {[close |-> d[t-1].c, ema |-> emas[t-1]]} ELSE {}
           filters == /\ EvaluateMonthlyRegime(Last(m).c, x6)
                      /\ EvaluateWeeklyTrend(x4, x5)
                      /\ EvaluateVolumeOk(x3)
           type == ResolveEntryPriority(
                     EvaluateBreakout(d[t], At(ComputeHigh20(Column(d, "h"), Periods.lookback), t),
                                      x1, filters),
                     EvaluatePullback(d[t], prev, x1, filters))
<1>11. e.type = {} \/ e.type = ResolveEntryPriority(EvaluateBreakout(k, H, x1, filters),
                                                    EvaluatePullback(k, prev, x1, filters))
  <2>1. e = IF type = {} \/ Ge(ComputeInitialStop(d[t].c, x2), Int2Q(d[t].c))
            THEN [kind |-> "NO_ENTRY", type |-> {}, atr |-> {x2}]
            ELSE [kind |-> "LONG_ENTRY", type |-> type, atr |-> {x2}]
    BY <1>8, Zenon DEF DecideEntry
  <2>2. type = ResolveEntryPriority(EvaluateBreakout(k, H, x1, filters),
                                    EvaluatePullback(k, prev, x1, filters))
    BY <1>10, Zenon
  <2> HIDE DEF type
  <2>3. e.type = {} \/ e.type = type
    BY <2>1
  <2>. QED
    BY <2>2, <2>3, Zenon
<1> HIDE DEF filters, prev, type
<1>12. ASSUME e.type = {"BREAKOUT"} PROVE H # {}
  <2>1. EvaluateBreakout(k, H, x1, filters)
    BY <1>11, <1>12 DEF ResolveEntryPriority
  <2>. QED
    BY <2>1 DEF EvaluateBreakout
<1>13. ASSUME e.type = {"PULLBACK"} PROVE ~\E h \in H : k.c > h
  <2>1. /\ ~EvaluateBreakout(k, H, x1, filters)
        /\ EvaluatePullback(k, prev, x1, filters)
    BY <1>11, <1>13 DEF ResolveEntryPriority
  <2>2. Gt(Int2Q(k.c), x1) /\ filters
    BY <2>1 DEF EvaluatePullback
  <2>. QED
    BY <2>1, <2>2 DEF EvaluateBreakout
<1>14. ValidateCandleSeries(d, "daily", now) # "INVALID_DATA"
  BY <1>3 DEF status
<1>. QED
  BY <1>9, <1>10, <1>12, <1>13, <1>14, Zenon DEF E, A, V

\* The history of an entry: possible candles of the series, of different times, enough of
\* them for the averages and the true ranges.
Clean(s) ==
    /\ \A k \in Range(s) :
          /\ k.l > 0 /\ k.l <= k.c /\ k.c <= k.h /\ k.l <= k.o /\ k.o <= k.h /\ k.v >= 0
          /\ k.fits
    /\ Cardinality({k.opens : k \in Range(s)}) = Len(s)
    /\ Len(s) >= Periods.ema /\ Len(s) > Periods.atr /\ Len(s) >= Periods.volume

\* An indicator has a value at the last candle only if its window is full.
LEMMA WindowsAreFull ==
    ASSUME NEW d \in Seq(Bars),
           At(ComputeEma(Column(d, "c"), Periods.ema), Len(d)) # {},
           At(ComputeWilderAtr(d, Periods.atr), Len(d)) # {},
           At(ComputeVolumeRatio(Column(d, "v"), Periods.volume), Len(d)) # {}
    PROVE  Len(d) >= Periods.ema /\ Len(d) > Periods.atr /\ Len(d) >= Periods.volume
<1>1. PICK a, b, c \in Nat \ {0} : a = Periods.ema /\ b = Periods.atr /\ c = Periods.volume
  BY StrategyConstants
<1>2. PICK n \in Nat : n = Len(d) /\ DOMAIN d = 1..n /\ \A i \in 1..n : d[i] \in Bars
  OBVIOUS
<1>3. PICK cs, vs : cs = Column(d, "c") /\ vs = Column(d, "v")
  OBVIOUS
<1>4. cs \in Seq(Int) /\ Len(cs) = n /\ Len(vs) = n
  <2>1. cs = [i \in 1..n |-> d[i].c] /\ vs = [i \in 1..n |-> d[i].v]
    BY <1>2, <1>3 DEF Column
  <2>2. \A i \in 1..n : d[i].c \in Int /\ d[i].v \in Int
    BY <1>2 DEF Bars
  <2>3. cs \in [1..n -> Int] /\ vs \in [1..n -> Int]
    BY <2>1, <2>2
  <2>. QED
    BY <1>2, <2>3
<1>5. n \in DOMAIN ComputeEma(cs, a) /\ n \in DOMAIN ComputeWilderAtr(d, b)
      /\ n \in DOMAIN ComputeVolumeRatio(vs, c)
  BY <1>1, <1>2, <1>3 DEF At
<1>6. n >= a
  <2>1. PICK g : g = ComputeEma(cs, a)
    OBVIOUS
  <2>2. g = EmaSteps(cs, a, g)
    BY <1>4, <2>1, EmaRuns, Zenon
  <2>3. DOMAIN g = a..n
    BY <1>4, <2>2, Zenon DEF EmaSteps
  <2>. QED
    BY <1>5, <2>1, <2>3
<1>7. n > b
  <2>1. PICK g : g = ComputeWilderAtr(d, b)
    OBVIOUS
  <2>2. g = AtrSteps(d, b, g)
    BY <2>1, AtrRuns, Zenon
  <2>3. DOMAIN g = (b + 1)..n
    BY <1>2, <2>2, Zenon DEF AtrSteps
  <2>. QED
    BY <1>5, <2>1, <2>3
<1>8. n >= c
  <2>1. n \in c..Len(vs)
    BY <1>5 DEF ComputeVolumeRatio
  <2>. QED
    BY <2>1
<1>. QED
  BY <1>1, <1>2, <1>6, <1>7, <1>8

\* A validated series whose indicators have their windows is clean.
LEMMA ValidIsClean ==
    ASSUME NEW d \in Seq(Bars), NEW now,
           ValidateCandleSeries(d, "daily", now) # "INVALID_DATA",
           Len(d) >= Periods.ema /\ Len(d) > Periods.atr /\ Len(d) >= Periods.volume
    PROVE  Clean(d)
<1>1. Len(d) \in Nat /\ DOMAIN d = 1..Len(d) /\ \A i \in 1..Len(d) : d[i] \in Bars
  OBVIOUS
<1>2. /\ \A i \in 1..Len(d) : ValidateOhlc(d[i]) /\ d[i].fits
      /\ \A i \in 1..Len(d) : ~(i > 1 /\ d[i].opens <= d[i - 1].opens)
  BY <1>1 DEF ValidateCandleSeries
<1>3. \A k \in Range(d) :
         /\ k.l > 0 /\ k.l <= k.c /\ k.c <= k.h /\ k.l <= k.o /\ k.o <= k.h /\ k.v >= 0
         /\ k.fits
  BY <1>1, <1>2 DEF ValidateOhlc, Range
<1>5. \A i \in 1..Len(d) : d[i].opens \in Int
  BY <1>1 DEF Bars
<1> DEFINE Q == {b \in 0..Len(d) : \A a \in 1..(b - 1) : d[a].opens < d[b].opens}
<1>6. 0 \in Q
  BY <1>1
<1>7. ASSUME NEW b \in 1..Len(d), b - 1 \in Q PROVE b \in Q
  <2>1. \A a \in 1..(b - 1) : /\ a \in 1..Len(d) /\ b - 1 \in 1..Len(d) /\ b > 1
                              /\ a \in 1..((b - 1) - 1) \/ a = b - 1
    BY <1>1
  <2>2. ASSUME NEW a \in 1..(b - 1) PROVE d[a].opens < d[b].opens
    <3>1. d[b - 1].opens < d[b].opens
      BY <1>2, <1>5, <2>1
    <3>2. a # b - 1 => d[a].opens < d[b - 1].opens
      BY <1>7, <2>1
    <3>. QED
      BY <1>5, <2>1, <3>1, <3>2
  <2>. QED
    BY <1>1, <2>2
<1> HIDE DEF Q
<1>8. \A b \in 0..Len(d) : b \in Q
  BY <1>1, <1>6, <1>7, StepInduction
<1>9. \A a, b \in 1..Len(d) : a < b => d[a].opens < d[b].opens
  <2>1. ASSUME NEW a \in 1..Len(d), NEW b \in 1..Len(d), a < b PROVE d[a].opens < d[b].opens
    <3>1. a \in 1..(b - 1) /\ b \in 0..Len(d)
      BY <1>1, <2>1
    <3>. QED
      BY <1>8, <3>1 DEF Q
  <2>. QED
    BY <2>1
<1>10. \A a, b \in 1..Len(d) : d[a].opens = d[b].opens => a = b
  BY <1>1, <1>5, <1>9
<1> DEFINE times == {k.opens : k \in Range(d)}
           f == [i \in 1..Len(d) |-> d[i].opens]
<1>11. f \in Bijection(1..Len(d), times)
  <2>1. \A x \in times : \E i \in 1..Len(d) : f[i] = x
    BY <1>1 DEF Range
  <2>2. \A i \in 1..Len(d) : f[i] \in times
    BY <1>1 DEF Range
  <2>3. \A a, b \in 1..Len(d) : f[a] = f[b] => a = b
    BY <1>10
  <2>4. f \in [1..Len(d) -> times]
    BY <2>2
  <2> HIDE DEF f, times
  <2>5. PICK D : D = 1..Len(d)
    OBVIOUS
  <2>6. DOMAIN f = D
    BY <2>4, <2>5
  <2>7. f \in Surjection(D, times)
    BY <2>1, <2>4, <2>5, Zenon DEF Surjection
  <2>8. f \in Injection(D, times)
    BY <2>3, <2>4, <2>5, <2>6, Zenon DEF Injection, IsInjective
  <2>. QED
    BY <2>5, <2>7, <2>8 DEF Bijection
<1>12. Cardinality(times) = Len(d)
  <2>1. IsFiniteSet(1..Len(d)) /\ Cardinality(1..Len(d)) = Len(d)
    BY <1>1, FS_Interval
  <2>2. ExistsBijection(1..Len(d), times)
    BY <1>11 DEF ExistsBijection
  <2>. QED
    BY <2>1, <2>2, FS_Bijection
<1>. QED
  BY <1>3, <1>12 DEF Clean

\* A close above no high of the lookback is at or below one of them.
LEMMA NoHighIsAbove ==
    ASSUME NEW d \in Seq(Bars), Len(d) > Periods.lookback,
           ~\E h \in At(ComputeHigh20(Column(d, "h"), Periods.lookback), Len(d)) :
               d[Len(d)].c > h
    PROVE  \E j \in (Len(d) - Periods.lookback)..(Len(d) - 1) : d[j].h >= d[Len(d)].c
<1>1. PICK n \in Nat \ {0} : n = Periods.lookback
  BY StrategyConstants
<1>2. PICK t \in Nat : t = Len(d) /\ t > n /\ DOMAIN d = 1..t
  BY <1>1
<1>3. \A i \in 1..t : d[i].h \in Int /\ d[i].c \in Int
  <2>1. \A i \in 1..t : d[i] \in Bars
    BY <1>2
  <2>. QED
    BY <2>1 DEF Bars
<1>4. PICK hs : hs = Column(d, "h")
  OBVIOUS
<1>5. hs \in Seq(Int) /\ Len(hs) = t /\ \A i \in 1..t : hs[i] = d[i].h
  <2>1. hs = [i \in 1..t |-> d[i].h]
    BY <1>2, <1>4 DEF Column
  <2>. QED
    BY <1>2, <1>3, <2>1
<1>6. PICK s : s = SubSeq(hs, t - n, t - 1)
  OBVIOUS
<1>7. DOMAIN s = 1..n /\ \A i \in 1..n : s[i] = hs[t - n + i - 1] /\ s[i] \in Int
  BY <1>2, <1>5, <1>6
<1>8. IsFiniteSet(Range(s)) /\ Range(s) # {} /\ Range(s) \subseteq Int
  <2>1. IsFiniteSet(1..n) /\ 1 \in 1..n
    BY FS_Interval
  <2>2. s \in Surjection(1..n, Range(s))
    <3>1. s \in Seq(Int)
      BY <1>2, <1>5, <1>6
    <3>2. s \in [1..n -> Range(s)] /\ \A y \in Range(s) : \E i \in 1..n : s[i] = y
      BY <1>7, <3>1 DEF Range
    <3>. QED
      BY <3>2, Zenon DEF Surjection
  <2>. QED
    BY <1>7, <2>1, <2>2, FS_Surjection DEF Range
<1>9. PICK x \in Range(s) : x = Max(Range(s))
  BY <1>8, MaxExists
<1>10. At(ComputeHigh20(hs, n), t) = {x}
  <2>1. t \in (n + 1)..Len(hs)
    BY <1>2, <1>5
  <2>2. ComputeHigh20(hs, n)[t] = Max(Range(s)) /\ t \in DOMAIN ComputeHigh20(hs, n)
    BY <1>6, <2>1 DEF ComputeHigh20
  <2>. QED
    BY <1>9, <2>2 DEF At
<1>11. ~(d[t].c > x)
  BY <1>1, <1>2, <1>4, <1>10
<1>12. PICK i \in 1..n : x = s[i]
  BY <1>7, <1>9 DEF Range
<1>13. PICK j \in 1..t : j = t - n + i - 1 /\ j \in (t - n)..(t - 1)
  BY <1>2
<1>14. x = d[j].h /\ x \in Int
  BY <1>3, <1>5, <1>7, <1>12, <1>13
<1>15. d[j].h >= d[t].c
  <2>1. t \in 1..t
    BY <1>2
  <2>. QED
    BY <1>3, <1>11, <1>14, <2>1
<1>. QED
  BY <1>1, <1>2, <1>13, <1>15

-----------------------------------------------------------------------------
(* The bundle and the verdicts grow together.                              *)

\* Types, and one verdict for every daily candle, made when it was the last to close.
GrowsTogether ==
    /\ bundle.daily \in Seq(Bars) /\ bundle.weekly \in Seq(Bars) /\ bundle.monthly \in Seq(Bars)
    /\ \A i \in DOMAIN bundle.daily : bundle.daily[i].closes <= Today
    /\ verdicts \in Seq(Range(verdicts)) /\ Len(verdicts) = Len(bundle.daily)
    /\ \A i \in DOMAIN verdicts : verdicts[i].now \in Int

\* The inductive invariant of the strategy engine.
StrategyInv ==
    GrowsTogether /\ NoLookAhead /\ EntryNeedsCleanHistory /\ PullbackIsNoBreakout

\* The closes of a typed series.
LEMMA AveragesFollow == GrowsTogether => AverageWithinRange
<1> SUFFICES ASSUME GrowsTogether, NEW s \in {bundle.daily, bundle.weekly, bundle.monthly}
             PROVE  LET cs == Column(s, "c")
                        ema == ComputeEma(cs, Periods.ema) IN
                    \A i \in DOMAIN ema :
                        /\ \E j \in 1..i : Ge(ema[i], Int2Q(cs[j]))
                        /\ \E j \in 1..i : Ge(Int2Q(cs[j]), ema[i])
  BY DEF AverageWithinRange
<1>1. s \in Seq(Bars)
  BY DEF GrowsTogether
<1>2. PICK cs : cs = Column(s, "c")
  OBVIOUS
<1>3. cs \in Seq(Int)
  <2>1. Len(s) \in Nat /\ DOMAIN s = 1..Len(s) /\ \A i \in 1..Len(s) : s[i].c \in Int
    <3>1. Len(s) \in Nat /\ DOMAIN s = 1..Len(s) /\ \A i \in 1..Len(s) : s[i] \in Bars
      BY <1>1
    <3>. QED
      BY <3>1 DEF Bars
  <2>2. cs = [i \in 1..Len(s) |-> s[i].c]
    BY <1>2, <2>1 DEF Column
  <2>. QED
    BY <2>1, <2>2
<1>4. PICK n \in Nat \ {0} : n = Periods.ema
  BY StrategyConstants
<1>5. PICK ema : ema = ComputeEma(cs, n)
  OBVIOUS
<1>6. \A i \in DOMAIN ema : Between(cs, i, ema[i])
  BY <1>3, <1>5, EmaIsBetween
<1>7. ASSUME NEW i \in DOMAIN ema
      PROVE  /\ \E j \in 1..i : Ge(ema[i], Int2Q(cs[j]))
             /\ \E j \in 1..i : Ge(Int2Q(cs[j]), ema[i])
  <2>1. PICK p, q \in Int : p = ema[i][1] /\ q = ema[i][2]
    BY <1>6 DEF Between
  <2>2. p * 1 = p
    OBVIOUS
  <2>3. ASSUME NEW y PROVE /\ Ge(ema[i], Int2Q(y)) <=> p >= y * q
                           /\ Ge(Int2Q(y), ema[i]) <=> y * q >= p
    <3>1. PICK z : z = Int2Q(y)
      OBVIOUS
    <3>2. z[1] = y /\ z[2] = 1
      BY <3>1 DEF Int2Q
    <3>3. /\ Ge(ema[i], z) <=> ema[i][1] * z[2] >= z[1] * ema[i][2]
          /\ Ge(z, ema[i]) <=> z[1] * ema[i][2] >= ema[i][1] * z[2]
      BY DEF Ge
    <3>4. ema[i][1] * z[2] = p /\ z[1] * ema[i][2] = y * q
      BY <2>1, <2>2, <3>2
    <3>. QED
      BY <3>1, <3>3, <3>4
  <2>4. (\E j \in 1..i : p >= cs[j] * q) /\ (\E j \in 1..i : cs[j] * q >= p)
    BY <1>6, <2>1, Zenon DEF Between
  <2>. QED
    BY <2>3, <2>4, Zenon
<1>. QED
  BY <1>2, <1>4, <1>5, <1>7, Zenon

\* Nothing has been decided before the first close.
LEMMA StrategyStarts == StrategyInit => StrategyInv
<1> SUFFICES ASSUME StrategyInit PROVE StrategyInv
  OBVIOUS
<1>1. /\ bundle.daily = <<>> /\ bundle.weekly = <<>> /\ bundle.monthly = <<>> /\ verdicts = <<>>
  BY DEF StrategyInit
<1>2. DOMAIN verdicts = {} /\ DOMAIN bundle.daily = {}
  BY <1>1
<1>3. GrowsTogether
  BY <1>1, <1>2 DEF GrowsTogether
<1>. QED
  BY <1>2, <1>3 DEF StrategyInv, NoLookAhead, EntryNeedsCleanHistory, PullbackIsNoBreakout

\* A series as it was, or with one candle more that closes now.
Grown(s, t, now) == t = s \/ \E e \in Bars : e.closes = now /\ t = Append(s, e)

\* What a daily close does to the bundle and to the verdicts.
LEMMA DailyCloseGrows ==
    ASSUME GrowsTogether, NEW shape \in DailyShapes,
           NEW wc \in Closes, NEW mc \in Closes, DailyClose(shape, wc, mc)
    PROVE  \E now \in Int, e \in Bars :
              /\ Today <= now /\ Today \in Int /\ e.closes = now
              /\ bundle'.daily = Append(bundle.daily, e)
              /\ Grown(bundle.weekly, bundle'.weekly, now)
              /\ Grown(bundle.monthly, bundle'.monthly, now)
              /\ verdicts' = Append(verdicts, [now |-> now, is |-> EvaluateAsOf(bundle', now)])
<1> DEFINE now == Today + (IF shape.again THEN 0 ELSE 1)
           e == [o |-> shape.o, h |-> shape.h, l |-> shape.l, c |-> shape.c, v |-> shape.v,
                 done |-> shape.done, fits |-> shape.fits, opens |-> now - 1, closes |-> now]
           wk == LongCandle(wc, now - WeekDays, now)
           mo == LongCandle(mc, now - MonthDays, now)
<1>1. Today \in Int
  <2>1. CASE bundle.daily = <<>>
    BY <2>1 DEF Today
  <2>2. CASE bundle.daily # <<>>
    <3>1. bundle.daily \in Seq(Bars)
      BY DEF GrowsTogether
    <3>2. Last(bundle.daily) \in Bars
      BY <2>2, <3>1 DEF Last
    <3>3. Last(bundle.daily).closes \in Int
      BY <3>2 DEF Bars
    <3>. QED
      BY <2>2, <3>3 DEF Today
  <2>. QED
    BY <2>1, <2>2
<1>2. now \in Int /\ Today <= now
  BY <1>1
<1>3. /\ bundle' = [daily |-> Append(bundle.daily, e),
                    weekly |-> IF now % WeekDays # 0 \/ shape.again THEN bundle.weekly
                               ELSE Append(bundle.weekly, wk),
                    monthly |-> IF now % MonthDays # 0 \/ shape.again THEN bundle.monthly
                                ELSE Append(bundle.monthly, mo)]
      /\ verdicts' = Append(verdicts, [now |-> now, is |-> EvaluateAsOf(bundle', now)])
  BY Zenon DEF DailyClose
<1> HIDE DEF now
<1>4. e \in Bars /\ e.closes = now
  BY <1>2, StrategyNumbers DEF Bars
<1>5. wk \in Bars /\ wk.closes = now /\ mo \in Bars /\ mo.closes = now
  BY <1>2, StrategyNumbers, StrategyConstants DEF Bars, LongCandle
<1> HIDE DEF e, wk, mo
<1>6. /\ bundle'.daily = Append(bundle.daily, e)
      /\ bundle'.weekly = bundle.weekly \/ bundle'.weekly = Append(bundle.weekly, wk)
      /\ bundle'.monthly = bundle.monthly \/ bundle'.monthly = Append(bundle.monthly, mo)
  BY <1>3
<1>7. Grown(bundle.weekly, bundle'.weekly, now) /\ Grown(bundle.monthly, bundle'.monthly, now)
  BY <1>5, <1>6 DEF Grown
<1>. QED
  BY <1>1, <1>2, <1>3, <1>4, <1>6, <1>7

\* A grown series is a series, cut before it grew as it was.
LEMMA GrownSlice ==
    ASSUME NEW s \in Seq(Bars), NEW t, NEW now \in Int, Grown(s, t, now)
    PROVE  /\ t \in Seq(Bars)
           /\ \A x \in Int : x < now => SliceClosedCandles(t, x) = SliceClosedCandles(s, x)
<1>1. CASE t = s
  BY <1>1
<1>2. CASE t # s
  <2>1. PICK e \in Bars : e.closes = now /\ t = Append(s, e)
    BY <1>2 DEF Grown
  <2>2. \A x \in Int : x < now => ~(e.closes <= x)
    BY <2>1
  <2>. QED
    BY <2>1, <2>2, SliceBefore
<1>. QED
  BY <1>1, <1>2

\* A daily close keeps the invariant: what was decided stays what the bundle gives for
\* its time, and the new verdict is made from what has closed of the daily series.
LEMMA DailyCloseKeeps ==
    ASSUME StrategyInv, NEW shape \in DailyShapes,
           NEW wc \in Closes, NEW mc \in Closes, DailyClose(shape, wc, mc)
    PROVE  StrategyInv'
<1>1. GrowsTogether /\ NoLookAhead /\ EntryNeedsCleanHistory /\ PullbackIsNoBreakout
  BY DEF StrategyInv
<1>2. PICK now \in Int, e \in Bars :
         /\ Today <= now /\ Today \in Int /\ e.closes = now
         /\ bundle'.daily = Append(bundle.daily, e)
         /\ Grown(bundle.weekly, bundle'.weekly, now)
         /\ Grown(bundle.monthly, bundle'.monthly, now)
         /\ verdicts' = Append(verdicts, [now |-> now, is |-> EvaluateAsOf(bundle', now)])
  BY <1>1, DailyCloseGrows
<1>3. PICK d, d2, n : /\ d = bundle.daily /\ d2 = bundle'.daily /\ n = Len(d)
                      /\ d \in Seq(Bars) /\ d2 = Append(d, e)
  BY <1>1, <1>2 DEF GrowsTogether
<1>4. /\ n \in Nat /\ DOMAIN d = 1..n /\ d2 \in Seq(Bars) /\ Len(d2) = n + 1
      /\ DOMAIN d2 = 1..(n + 1) /\ d2[n + 1] = e
      /\ \A i \in 1..n : d2[i] = d[i] /\ SubSeq(d2, 1, i) = SubSeq(d, 1, i)
      /\ SubSeq(d2, 1, n + 1) = d2
  BY <1>3
<1>5. \A i \in 1..n : d[i].closes \in Int /\ d[i].closes <= now
  <2>1. \A i \in 1..n : d[i] \in Bars
    BY <1>3, <1>4
  <2>2. \A i \in 1..n : d[i].closes \in Int
    BY <2>1 DEF Bars
  <2>3. \A i \in 1..n : d[i].closes <= Today
    BY <1>1, <1>3, <1>4 DEF GrowsTogether
  <2>. QED
    BY <1>2, <2>2, <2>3
<1>6. PICK v, v2, r : /\ v = verdicts /\ v2 = verdicts' /\ r.now = now
                      /\ r.is = EvaluateAsOf(bundle', now) /\ v2 = Append(v, r)
  BY <1>2
<1>7. /\ v \in Seq(Range(v)) /\ Len(v) = n /\ \A i \in 1..n : v[i].now \in Int
  BY <1>1, <1>3, <1>6 DEF GrowsTogether
<1>8. /\ DOMAIN v = 1..n /\ DOMAIN v2 = 1..(n + 1) /\ Len(v2) = n + 1 /\ v2[n + 1] = r
      /\ \A i \in 1..n : v2[i] = v[i]
      /\ v2 \in Seq(Range(v2))
  <2>1. PICK R : R = Range(v) \cup {r}
    OBVIOUS
  <2>2. v \in Seq(R) /\ r \in R
    BY <1>7, <2>1
  <2>3. /\ DOMAIN v = 1..n /\ DOMAIN v2 = 1..(n + 1) /\ Len(v2) = n + 1 /\ v2[n + 1] = r
        /\ \A i \in 1..n : v2[i] = v[i]
        /\ v2 \in Seq(R)
    BY <1>4, <1>6, <1>7, <2>2
  <2>4. \A i \in 1..(n + 1) : v2[i] \in Range(v2)
    BY <2>3 DEF Range
  <2>5. v2 \in Seq(Range(v2))
    BY <2>3, <2>4
  <2>. QED
    BY <2>3, <2>5
<1>9. \A i \in 1..(n + 1) : i \in 1..n \/ i = n + 1
  BY <1>4
<1>10. \A x \in Int : x < now => EvaluateAsOf(bundle', x) = EvaluateAsOf(bundle, x)
  <2>1. Grown(d, d2, now)
    BY <1>2, <1>3 DEF Grown
  <2>2. bundle.weekly \in Seq(Bars) /\ bundle.monthly \in Seq(Bars)
    BY <1>1 DEF GrowsTogether
  <2>3. \A x \in Int : x < now => SliceClosedCandles(d2, x) = SliceClosedCandles(d, x)
    BY <1>3, <2>1, GrownSlice
  <2>4. \A x \in Int : x < now =>
           SliceClosedCandles(bundle'.weekly, x) = SliceClosedCandles(bundle.weekly, x)
    BY <1>2, <2>2, GrownSlice
  <2>5. \A x \in Int : x < now =>
           SliceClosedCandles(bundle'.monthly, x) = SliceClosedCandles(bundle.monthly, x)
    BY <1>2, <2>2, GrownSlice
  <2>. QED
    BY <1>3, <2>3, <2>4, <2>5, Zenon DEF EvaluateAsOf
<1>11. GrowsTogether'
  <2>1. bundle'.weekly \in Seq(Bars) /\ bundle'.monthly \in Seq(Bars)
    BY <1>1, <1>2, GrownSlice DEF GrowsTogether
  <2>2. Today' = now
    <3>1. d2 # <<>> /\ Last(d2) = e
      BY <1>3, <1>4 DEF Last
    <3>. QED
      BY <1>2, <1>3, <3>1 DEF Today
  <2>3. \A i \in DOMAIN d2 : d2[i].closes <= now
    BY <1>2, <1>4, <1>5, <1>9
  <2>4. \A i \in DOMAIN v2 : v2[i].now \in Int
    BY <1>6, <1>7, <1>8, <1>9
  <2>. QED
    BY <1>3, <1>4, <1>6, <1>8, <2>1, <2>2, <2>3, <2>4 DEF GrowsTogether
<1>12. NoLookAhead'
  <2>1. SUFFICES ASSUME NEW i \in 1..(n + 1),
                        \A j \in 1..(n + 1) : j > i => v2[j].now > v2[i].now
                 PROVE  EvaluateAsOf(bundle', v2[i].now) = v2[i].is
    BY <1>6, <1>8 DEF NoLookAhead
  <2>2. CASE i = n + 1
    BY <1>6, <1>8, <2>2
  <2>3. CASE i \in 1..n
    <3>1. v2[i] = v[i] /\ n + 1 > i /\ n + 1 \in 1..(n + 1) /\ 1..n \subseteq 1..(n + 1)
      BY <1>4, <1>8, <2>3
    <3>2. v[i].now < now /\ v[i].now \in Int
      BY <1>2, <1>6, <1>7, <1>8, <2>1, <2>3, <3>1
    <3>3. \A j \in 1..n : j > i => v[j].now > v[i].now
      BY <1>8, <2>1, <2>3, <3>1
    <3>4. EvaluateAsOf(bundle, v[i].now) = v[i].is
      BY <1>1, <1>6, <1>8, <2>3, <3>3 DEF NoLookAhead
    <3>. QED
      BY <1>10, <3>1, <3>2, <3>4
  <2>. QED
    BY <1>9, <2>2, <2>3
<1>13. PICK s, w, m : s = SliceClosedCandles(d2, now) /\ r.is = Evaluation(s, w, m, now)
  BY <1>3, <1>6 DEF EvaluateAsOf
<1>14. s \in Seq(Bars)
  BY <1>4, <1>13, KeptTyped DEF SliceClosedCandles
<1>15. ASSUME NEW i \in 1..(n + 1)
       PROVE  /\ i \in 1..n => KnownAt(i)' = KnownAt(i) /\ v2[i] = v[i]
              /\ i = n + 1 => KnownAt(i)' = s /\ v2[i] = r
  <2>1. KnownAt(i)' = SliceClosedCandles(SubSeq(d2, 1, i), v2[i].now)
    BY <1>3, <1>6 DEF KnownAt
  <2>2. KnownAt(i) = SliceClosedCandles(SubSeq(d, 1, i), v[i].now)
    BY <1>3, <1>6 DEF KnownAt
  <2>3. CASE i \in 1..n
    <3>1. v2[i] = v[i] /\ SubSeq(d2, 1, i) = SubSeq(d, 1, i) /\ i # n + 1
      BY <1>4, <1>8, <2>3
    <3>. QED
      BY <2>1, <2>2, <3>1, Zenon
  <2>4. CASE i = n + 1
    <3>1. v2[i] = r /\ SubSeq(d2, 1, i) = d2 /\ r.now = now /\ i \notin 1..n
      BY <1>4, <1>6, <1>8, <2>4
    <3>. QED
      BY <1>13, <2>1, <3>1, Zenon
  <2>. QED
    BY <1>9, <2>3, <2>4
<1>16. EntryNeedsCleanHistory'
  <2>1. \A i \in 1..n : v[i].is.kind = "LONG_ENTRY" =>
           /\ Clean(KnownAt(i))
           /\ v[i].is.type = {"BREAKOUT"} => Len(KnownAt(i)) > Periods.lookback
    BY <1>1, <1>6, <1>8 DEF EntryNeedsCleanHistory, Clean
  <2>2. r.is.kind = "LONG_ENTRY" =>
           /\ Clean(s)
           /\ r.is.type = {"BREAKOUT"} => Len(s) > Periods.lookback
    <3> SUFFICES ASSUME r.is.kind = "LONG_ENTRY"
                 PROVE  /\ Clean(s)
                        /\ r.is.type = {"BREAKOUT"} => Len(s) > Periods.lookback
      OBVIOUS
    <3>1. /\ ValidateCandleSeries(s, "daily", now) # "INVALID_DATA"
          /\ At(ComputeEma(Column(s, "c"), Periods.ema), Len(s)) # {}
          /\ At(ComputeWilderAtr(s, Periods.atr), Len(s)) # {}
          /\ At(ComputeVolumeRatio(Column(s, "v"), Periods.volume), Len(s)) # {}
          /\ r.is.type = {"BREAKOUT"} =>
                At(ComputeHigh20(Column(s, "h"), Periods.lookback), Len(s)) # {}
      BY <1>13, EntryChecks
    <3>2. Clean(s)
      BY <1>14, <3>1, WindowsAreFull, ValidIsClean
    <3>3. ASSUME r.is.type = {"BREAKOUT"} PROVE Len(s) > Periods.lookback
      <4>1. PICK b \in Nat, q \in Nat : b = Periods.lookback /\ q = Len(s)
        BY <1>14, StrategyConstants
      <4>2. PICK hs : hs = Column(s, "h")
        OBVIOUS
      <4>3. q \in DOMAIN ComputeHigh20(hs, b)
        BY <3>1, <3>3, <4>1, <4>2 DEF At
      <4>4. q \in (b + 1)..Len(hs)
        BY <4>3 DEF ComputeHigh20
      <4>. QED
        BY <4>1, <4>4
    <3>. QED
      BY <3>2, <3>3
  <2>3. \A i \in 1..(n + 1) : v2[i].is.kind = "LONG_ENTRY" =>
           /\ Clean(KnownAt(i)')
           /\ v2[i].is.type = {"BREAKOUT"} => Len(KnownAt(i)') > Periods.lookback
    BY <1>9, <1>15, <2>1, <2>2
  <2>. QED
    BY <1>6, <1>8, <2>3 DEF EntryNeedsCleanHistory, Clean
<1>17. PullbackIsNoBreakout'
  <2> DEFINE Below(k) == Len(k) > Periods.lookback =>
                            \E j \in (Len(k) - Periods.lookback)..(Len(k) - 1) : k[j].h >= Last(k).c
  <2>1. \A i \in 1..n : v[i].is.type = {"PULLBACK"} => Below(KnownAt(i))
    BY <1>1, <1>6, <1>8, Zenon DEF PullbackIsNoBreakout
  <2>2. r.is.type = {"PULLBACK"} => Below(s)
    <3> SUFFICES ASSUME r.is.type = {"PULLBACK"}, Len(s) > Periods.lookback
                 PROVE  \E j \in (Len(s) - Periods.lookback)..(Len(s) - 1) : s[j].h >= Last(s).c
      OBVIOUS
    <3>1. ~\E h \in At(ComputeHigh20(Column(s, "h"), Periods.lookback), Len(s)) : s[Len(s)].c > h
      BY <1>13, EntryChecks
    <3>2. \E j \in (Len(s) - Periods.lookback)..(Len(s) - 1) : s[j].h >= s[Len(s)].c
      BY <1>14, <3>1, NoHighIsAbove
    <3>. QED
      BY <3>2 DEF Last
  <2> HIDE DEF Below
  <2>3. \A i \in 1..(n + 1) : v2[i].is.type = {"PULLBACK"} => Below(KnownAt(i)')
    BY <1>9, <1>15, <2>1, <2>2
  <2>. QED
    BY <1>6, <1>8, <2>3, Zenon DEF PullbackIsNoBreakout, Below
<1>. QED
  BY <1>11, <1>12, <1>16, <1>17 DEF StrategyInv

\* Every step of the strategy engine keeps the invariant.
LEMMA StrategyStep == StrategyInv /\ [StrategyNext]_stVars => StrategyInv'
<1>1. ASSUME StrategyInv, StrategyNext PROVE StrategyInv'
  <2>1. PICK shape \in DailyShapes, wc \in Closes, mc \in Closes : DailyClose(shape, wc, mc)
    BY <1>1 DEF StrategyNext
  <2>. QED
    BY <1>1, <2>1, DailyCloseKeeps
<1>2. ASSUME StrategyInv, UNCHANGED stVars PROVE StrategyInv'
  <2>1. bundle' = bundle /\ verdicts' = verdicts
    BY <1>2 DEF stVars
  <2>2. Today' = Today
    BY <2>1 DEF Today
  <2>3. GrowsTogether'
    BY <1>2, <2>1, <2>2 DEF StrategyInv, GrowsTogether
  <2>4. NoLookAhead'
    BY <1>2, <2>1, Zenon DEF StrategyInv, NoLookAhead
  <2>5. EntryNeedsCleanHistory' /\ PullbackIsNoBreakout'
    BY <1>2, <2>1, Zenon DEF StrategyInv, EntryNeedsCleanHistory, PullbackIsNoBreakout, KnownAt
  <2>. QED
    BY <2>3, <2>4, <2>5 DEF StrategyInv
<1>. QED
  BY <1>1, <1>2

\* Entries rest on what was known when they were decided (evaluate_strategy called by
\* _strategy_and_queue): what the finished bundle gives for an earlier close is what was
\* decided then, no entry on a dirty, repeated, foreign or short history, whatever periods
\* are configured and whatever are the default ones, averages within their series, and no
\* pullback above the highs of a full lookback.
THEOREM EntriesStayGrounded == StrategySpec => []EntriesAreGrounded
<1>1. StrategyInv => EntriesAreGrounded
  BY AveragesFollow DEF StrategyInv, EntriesAreGrounded
<1>. QED
  BY <1>1, StrategyStarts, StrategyStep, PTL DEF StrategySpec
=============================================================================
