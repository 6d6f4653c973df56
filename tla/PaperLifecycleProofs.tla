------------------------ MODULE PaperLifecycleProofs ------------------------
(***************************************************************************)
(* The safety properties of PaperLifecycle and of the recovery over its     *)
(* rows (StartupRecovery), for every set of symbols, every number of days   *)
(* and every price level: first the lifecycle, then the wallet as the sum   *)
(* of the fills, a restart over what the worker has committed, which is     *)
(* never wedged, and recovery over damaged rows, which is safe for every    *)
(* set of trades and every damage.                                          *)
(***************************************************************************)
EXTENDS StartupRecovery, FiniteSetTheorems, WellFoundedInduction, TLAPS

\* The entry gates read before an evaluation are still true of the rows when
\* the evaluation uses them: the poll does nothing in between.
GatesFresh ==
    \A g \in gates :
       /\ g.hasPosition = HasOpenPosition(tx, g.symbol)
       /\ g.hasIntent = (NonterminalIntents(tx, g.symbol) # {})

\* Without an open transaction there is nothing uncommitted and nothing locked.
IdleIsClean == ~inTx => tx = db /\ ~rowLocked /\ gates = {}

\* Uncommitted new risk is protected by the row lock taken when it was
\* authorized: until the COMMIT nobody can pause, kill or demote.
RiskIsLocked == NewRisk(db, tx) => rowLocked /\ ControlsAllowEntry

\* What t2 may not undo of t1.
Extends(t1, t2) ==
    \A i \in Intents :
       /\ t1.intent[i] \in TerminalIntentStatuses => t2.intent[i] = t1.intent[i]
       /\ t1.position[i].status # "ABSENT" =>
             t2.position[i].stop >= t1.position[i].stop
       /\ t1.position[i].status = "CLOSED" => t2.position[i] = t1.position[i]
       /\ t1.position[i].status = "OPEN" => t2.position[i].status # "ABSENT"

\* The inductive invariant.
IInv ==
    /\ TypeOK
    /\ Sound(db)
    /\ Sound(tx)
    /\ IdleIsClean
    /\ GatesFresh
    /\ RiskIsLocked
    /\ Extends(db, tx)

-----------------------------------------------------------------------------
(* Typing of the operators.                                                *)

\* There are finitely many intents, so open positions can be counted.
LEMMA IntentsFinite == IsFiniteSet(Intents)
<1>1. IsFiniteSet(Days)
  BY LifecycleConstants, FS_Interval DEF Days
<1>2. IsFiniteSet(Symbols \X (Days \X SignalTypes))
  BY <1>1, LifecycleConstants, FS_Product
<1> DEFINE f == [i \in Intents |-> <<i[1], <<i[2], i[3]>>>>]
<1>3. f \in [Intents -> Symbols \X (Days \X SignalTypes)]
  BY DEF Intents
<1>4. ASSUME NEW i \in Intents, NEW j \in Intents, f[i] = f[j]
      PROVE  i = j
  BY <1>4 DEF Intents
<1>5. f \in Injection(Intents, Symbols \X (Days \X SignalTypes))
  <2> HIDE DEF f
  <2> QED BY <1>3, <1>4 DEF Injection, IsInjective
<1>6. QED
  BY <1>2, <1>5, FS_Injection

\* get_open_positions_count is a natural number.
LEMMA OpenCountType ==
    ASSUME NEW t \in Tables
    PROVE  Cardinality(OpenPositions(t)) \in Nat
BY IntentsFinite, FS_Subset, FS_CardinalityType DEF OpenPositions

-----------------------------------------------------------------------------
(* The rows each operation writes, component by component.                 *)

\* strategy_evaluations only: no other table depends on it.
EvaluatedTables(t, u) ==
    /\ u \in Tables
    /\ u.intent = t.intent /\ u.position = t.position
    /\ u.orders = t.orders /\ u.entryFills = t.entryFills
    /\ u.exitFills = t.exitFills

\* ... and that is what the operator writes.
LEMMA EvaluatedRows ==
    ASSUME NEW t \in Tables, NEW s \in Symbols, NEW d \in Days,
           NEW u, u = Evaluated(t, s, d)
    PROVE  EvaluatedTables(t, u)
BY DEF EvaluatedTables, Evaluated, Tables

\* insert_or_get_trade_intent writes at most one status.
WithIntentTables(t, i, u) ==
    /\ u \in Tables
    /\ \A j \in Intents :
          u.intent[j] = IF j = i /\ t.intent[i] = "ABSENT"
                        THEN "SCHEDULED" ELSE t.intent[j]
    /\ u.position = t.position
    /\ u.orders = t.orders /\ u.entryFills = t.entryFills
    /\ u.exitFills = t.exitFills

\* ... and that is what the operator writes.
LEMMA WithIntentRows ==
    ASSUME NEW t \in Tables, NEW i \in Intents,
           NEW u, u = WithIntent(t, i)
    PROVE  WithIntentTables(t, i, u)
BY DEF WithIntentTables, WithIntent, Tables, IntentStatus

\* update_intent_status writes one status.
WithStatusTables(t, i, st, u) ==
    /\ u \in Tables
    /\ \A j \in Intents : u.intent[j] = IF j = i THEN st ELSE t.intent[j]
    /\ u.position = t.position
    /\ u.orders = t.orders /\ u.entryFills = t.entryFills
    /\ u.exitFills = t.exitFills

\* ... and that is what the operator writes.
LEMMA WithStatusRows ==
    ASSUME NEW t \in Tables, NEW i \in Intents, NEW st \in IntentStatus,
           NEW u, u = WithStatus(t, i, st)
    PROVE  WithStatusTables(t, i, st, u)
BY DEF WithStatusTables, WithStatus, Tables

\* _persist_successful_fill writes the whole chain of one intent.
FilledTables(t, i, stop, u) ==
    /\ u \in Tables
    /\ \A j \in Intents : j # i => /\ u.intent[j] = t.intent[j]
                                   /\ u.position[j] = t.position[j]
    /\ u.intent[i] = "FILLED"
    /\ u.position[i] = [status |-> "OPEN", initial |-> stop, stop |-> stop]
    /\ u.orders = t.orders \cup {i}
    /\ u.entryFills = t.entryFills \cup {i}
    /\ u.exitFills = t.exitFills

\* ... and that is what the operator writes.
LEMMA FilledRows ==
    ASSUME NEW t \in Tables, NEW i \in Intents, NEW stop \in Nat,
           NEW u, u = Filled(t, i, stop)
    PROVE  FilledTables(t, i, stop, u)
<1>1. u.cash \in Int
  BY LifecycleConstants DEF Filled, Tables
<1>2. u.position \in [Intents -> Position]
  BY DEF Filled, Tables, Position
<1>3. QED
  BY <1>1, <1>2 DEF FilledTables, Filled, Tables, IntentStatus

\* _close_if_stopped writes one exit fill and closes its position.
ClosedTables(t, i, u) ==
    /\ u \in Tables
    /\ \A j \in Intents : j # i => /\ u.position[j] = t.position[j]
                                   /\ u.exitFills[j] = t.exitFills[j]
    /\ u.position[i] = [t.position[i] EXCEPT !.status = "CLOSED"]
    /\ u.exitFills[i] = t.exitFills[i] + 1
    /\ u.intent = t.intent
    /\ u.orders = t.orders /\ u.entryFills = t.entryFills

\* ... and that is what the operator writes.
LEMMA ClosedRows ==
    ASSUME NEW t \in Tables, NEW i \in Intents, NEW delta \in Int,
           NEW u, u = Closed(t, i, delta)
    PROVE  ClosedTables(t, i, u)
<1>1. u.cash \in Int /\ u.pnl \in [Intents -> Int] /\ u.exitFills \in [Intents -> Nat]
  BY DEF Closed, Tables
<1>2. u.position \in [Intents -> Position]
  BY DEF Closed, Tables, Position
<1>3. QED
  BY <1>1, <1>2 DEF ClosedTables, Closed, Tables

\* update_daily_trailing_stops moves one stop.
TrailedTables(t, i, level, u) ==
    /\ u \in Tables
    /\ \A j \in Intents : j # i => u.position[j] = t.position[j]
    /\ u.position[i] = [t.position[i] EXCEPT !.stop = level]
    /\ u.intent = t.intent
    /\ u.orders = t.orders /\ u.entryFills = t.entryFills
    /\ u.exitFills = t.exitFills

\* ... and that is what the operator writes.
LEMMA TrailedRows ==
    ASSUME NEW t \in Tables, NEW i \in Intents, NEW d \in Days, NEW level \in Nat,
           NEW u, u = Trailed(t, i, d, level)
    PROVE  TrailedTables(t, i, level, u)
<1>1. u.position \in [Intents -> Position]
  BY DEF Trailed, Tables, Position
<1>2. u.stopEvents \in SUBSET (Intents \X Days)
  BY DEF Trailed, Tables
<1>3. QED
  BY <1>1, <1>2 DEF TrailedTables, Trailed, Tables

-----------------------------------------------------------------------------
(* What each operation keeps true: d are the committed rows, t the rows of   *)
(* the transaction before and u after it.                                    *)

Keeps(d, t, u) ==
    /\ Sound(u)
    /\ Extends(d, u)
    /\ NewRisk(d, u) => NewRisk(d, t)

\* An evaluation without an intent.
LEMMA EvaluatedKeeps ==
    ASSUME NEW d \in Tables, NEW t \in Tables, Sound(t), Extends(d, t),
           NEW u, EvaluatedTables(t, u)
    PROVE  Keeps(d, t, u)
BY DEF EvaluatedTables, Keeps, Sound, OneExposurePerSymbol, Exposed, Open, FillChain,
   NoStrandedSubmission, StopAboveInitial, Extends, NewRisk

\* A new intent for a symbol that has neither a position nor an intent.
LEMMA WithIntentSound ==
    ASSUME NEW d \in Tables, NEW t \in Tables, Sound(t), Extends(d, t),
           NEW i \in Intents,
           ~HasOpenPosition(t, SymbolOf(i)), NonterminalIntents(t, SymbolOf(i)) = {},
           NEW u, WithIntentTables(t, i, u)
    PROVE  Sound(u) /\ Extends(d, u)
<1>1. \A j \in Intents : Exposed(u, j) => Exposed(t, j) \/ j = i
  BY DEF WithIntentTables, Exposed, Open
<1>2. \A j \in Intents : SymbolOf(j) = SymbolOf(i) => ~Exposed(t, j)
  BY DEF Exposed, HasOpenPosition, OpenPositions, NonterminalIntents
<1>3. OneExposurePerSymbol(u)
  BY <1>1, <1>2 DEF OneExposurePerSymbol, Sound
<1>4. FillChain(u)
  BY DEF WithIntentTables, FillChain, Sound
<1>5. NoStrandedSubmission(u) /\ StopAboveInitial(u)
  BY DEF WithIntentTables, NoStrandedSubmission, StopAboveInitial, Sound
<1>6. Extends(d, u)
  BY DEF WithIntentTables, Extends, TerminalIntentStatuses
<1>7. QED
  BY <1>3, <1>4, <1>5, <1>6 DEF Sound

\* A pending intent that ends without a fill.
LEMMA EndedKeeps ==
    ASSUME NEW d \in Tables, NEW t \in Tables, Sound(t), Extends(d, t),
           NEW i \in Intents, t.intent[i] \in NonterminalIntentStatuses,
           NEW st \in {"REJECTED", "CANCELLED"},
           NEW u, WithStatusTables(t, i, st, u)
    PROVE  Keeps(d, t, u)
<1> st \in IntentStatus
  BY DEF IntentStatus
<1>1. \A j \in Intents : Exposed(u, j) => Exposed(t, j)
  BY DEF WithStatusTables, Exposed, Open, NonterminalIntentStatuses
<1>2. OneExposurePerSymbol(u)
  BY <1>1 DEF OneExposurePerSymbol, Sound
<1>3. FillChain(u)
  BY DEF WithStatusTables, FillChain, Sound, NonterminalIntentStatuses
<1>4. NoStrandedSubmission(u) /\ StopAboveInitial(u)
  BY DEF WithStatusTables, NoStrandedSubmission, StopAboveInitial, Sound
<1>5. Extends(d, u)
  BY DEF WithStatusTables, Extends, TerminalIntentStatuses, NonterminalIntentStatuses
<1>6. NewRisk(d, u) => NewRisk(d, t)
  BY DEF WithStatusTables, NewRisk, NonterminalIntentStatuses
<1>7. QED
  BY <1>2, <1>3, <1>4, <1>5, <1>6 DEF Keeps, Sound

\* A pending intent is the only exposure of its symbol: no fill exists for it
\* and no position blocks it.
LEMMA PendingAlone ==
    ASSUME NEW t \in Tables, Sound(t),
           NEW i \in Intents, t.intent[i] \in NonterminalIntentStatuses
    PROVE  /\ i \notin t.entryFills
           /\ t.position[i].status = "ABSENT"
           /\ ~HasOpenPosition(t, SymbolOf(i))
<1>1. i \notin t.entryFills
  BY DEF Sound, FillChain, NonterminalIntentStatuses
<1>2. t.position[i].status = "ABSENT"
  BY <1>1 DEF Sound, FillChain
<1>3. \A j \in Intents : Open(t, j) /\ SymbolOf(j) = SymbolOf(i) => j = i
  BY DEF Sound, OneExposurePerSymbol, Exposed
<1>4. QED
  BY <1>1, <1>2, <1>3 DEF HasOpenPosition, OpenPositions, Open

\* A pending intent that is filled.
LEMMA FilledSound ==
    ASSUME NEW d \in Tables, NEW t \in Tables, Sound(t), Extends(d, t),
           NEW i \in Intents, t.intent[i] \in NonterminalIntentStatuses,
           NEW stop \in Nat,
           NEW u, FilledTables(t, i, stop, u)
    PROVE  Sound(u) /\ Extends(d, u)
<1>1. \A j \in Intents : Exposed(u, j) => Exposed(t, j)
  BY DEF FilledTables, Exposed, Open
<1>2. OneExposurePerSymbol(u)
  BY <1>1 DEF OneExposurePerSymbol, Sound
<1>3. FillChain(u)
  BY PendingAlone DEF FilledTables, FillChain, Sound
<1>4. NoStrandedSubmission(u) /\ StopAboveInitial(u)
  BY DEF FilledTables, NoStrandedSubmission, StopAboveInitial, Sound
<1>5. Extends(d, u)
  <2>1. /\ d.intent[i] \notin TerminalIntentStatuses
        /\ d.position[i].status \notin {"OPEN", "CLOSED"}
    BY PendingAlone DEF Extends, TerminalIntentStatuses, NonterminalIntentStatuses
  <2>2. d.position[i].status = "ABSENT"
    BY <2>1 DEF Tables, Position
  <2>3. QED
    BY <2>1, <2>2 DEF FilledTables, Extends
<1>6. QED
  BY <1>2, <1>3, <1>4, <1>5 DEF Sound

\* An open position that is closed by its stop.
LEMMA ClosedKeeps ==
    ASSUME NEW d \in Tables, NEW t \in Tables, Sound(t), Extends(d, t),
           NEW i \in Intents, Open(t, i),
           NEW u, ClosedTables(t, i, u)
    PROVE  Keeps(d, t, u)
<1>0. /\ t.position[i] \in Position
      /\ u.position[i].status = "CLOSED"
      /\ u.position[i].stop = t.position[i].stop
      /\ u.position[i].initial = t.position[i].initial
  BY DEF ClosedTables, Position, Tables
<1>1. \A j \in Intents : Exposed(u, j) => Exposed(t, j)
  BY <1>0 DEF ClosedTables, Exposed, Open
<1>2. OneExposurePerSymbol(u)
  BY <1>1 DEF OneExposurePerSymbol, Sound
<1>3. FillChain(u)
  <2> SUFFICES ASSUME NEW j \in Intents
               PROVE  /\ (u.intent[j] = "FILLED") <=> (j \in u.entryFills)
                      /\ (j \in u.orders) <=> (j \in u.entryFills)
                      /\ (u.position[j].status # "ABSENT") <=> (j \in u.entryFills)
                      /\ u.exitFills[j] = (IF u.position[j].status = "CLOSED" THEN 1 ELSE 0)
    BY DEF FillChain
  <2>1. FillChain(t)
    BY DEF Sound
  <2>2. CASE j = i
    <3>1. /\ t.intent[i] = "FILLED" /\ i \in t.orders /\ i \in t.entryFills
          /\ t.exitFills[i] = 0
      BY <2>1 DEF FillChain, Open
    <3>2. u.exitFills[i] = 1
      BY <3>1 DEF ClosedTables
    <3>3. QED
      BY <1>0, <2>2, <3>1, <3>2 DEF ClosedTables
  <2>3. CASE j # i
    BY <2>1, <2>3 DEF ClosedTables, FillChain
  <2>4. QED
    BY <2>2, <2>3
<1>4. NoStrandedSubmission(u) /\ StopAboveInitial(u)
  BY <1>0 DEF ClosedTables, NoStrandedSubmission, StopAboveInitial, Sound
<1>5. Extends(d, u)
  BY <1>0 DEF ClosedTables, Extends, Open
<1>6. NewRisk(d, u) => NewRisk(d, t)
  BY DEF ClosedTables, NewRisk
<1>7. QED
  BY <1>2, <1>3, <1>4, <1>5, <1>6 DEF Keeps, Sound

\* An open position whose stop is raised.
LEMMA TrailedKeeps ==
    ASSUME NEW d \in Tables, NEW t \in Tables, Sound(t), Extends(d, t),
           NEW i \in Intents, Open(t, i),
           NEW level \in Nat, level > t.position[i].stop,
           NEW u, TrailedTables(t, i, level, u)
    PROVE  Keeps(d, t, u)
<1>0. /\ t.position[i] \in Position /\ d.position[i] \in Position
      /\ u.position[i].status = t.position[i].status
      /\ u.position[i].stop = level
      /\ u.position[i].initial = t.position[i].initial
  BY DEF TrailedTables, Position, Tables
<1>1. \A j \in Intents : Exposed(u, j) => Exposed(t, j)
  BY <1>0 DEF TrailedTables, Exposed, Open
<1>2. OneExposurePerSymbol(u)
  BY <1>1 DEF OneExposurePerSymbol, Sound
<1>3. FillChain(u)
  <2>1. \A j \in Intents : u.position[j].status = t.position[j].status
    BY <1>0 DEF TrailedTables
  <2>2. QED
    BY <2>1 DEF TrailedTables, FillChain, Sound
<1>4. NoStrandedSubmission(u)
  BY <1>0 DEF TrailedTables, NoStrandedSubmission, Sound
<1>5. StopAboveInitial(u)
  BY <1>0 DEF TrailedTables, StopAboveInitial, Sound, Position
<1>6. Extends(d, u)
  BY <1>0 DEF TrailedTables, Extends, Open, Position
<1>7. NewRisk(d, u) => NewRisk(d, t)
  BY DEF TrailedTables, NewRisk
<1>8. QED
  BY <1>2, <1>3, <1>4, <1>5, <1>6, <1>7 DEF Keeps, Sound

-----------------------------------------------------------------------------
(* The inductive invariant.                                                *)

\* The initial rows satisfy it.
LEMMA InitIInv == Init => IInv
<1> SUFFICES ASSUME Init PROVE IInv
  OBVIOUS
<1>1. db \in Tables /\ tx = db
  <2>1. NoPosition \in Position
    BY DEF NoPosition, Position
  <2>2. [i \in Intents |-> NoPosition] \in [Intents -> Position]
    BY <2>1
  <2>3. InitialCash \in Int
    BY LifecycleConstants
  <2>4. QED
    BY <2>2, <2>3 DEF Init, Tables, IntentStatus
<1>2. TypeOK
  <2>1. day \in Days
    BY LifecycleConstants DEF Init, Days
  <2>2. runtime \in Runtime /\ gates \subseteq EntryGateContext
    BY DEF Init, Runtime
  <2>3. QED
    BY <1>1, <2>1, <2>2 DEF Init, TypeOK
<1>3. Sound(db)
  <2>1. /\ db.orders = {} /\ db.entryFills = {}
        /\ \A i \in Intents : /\ db.intent[i] = "ABSENT" /\ db.exitFills[i] = 0
                              /\ db.position[i].status = "ABSENT"
                              /\ db.position[i].stop = 0 /\ db.position[i].initial = 0
    BY DEF Init, NoPosition
  <2>2. QED
    BY <2>1 DEF Sound, OneExposurePerSymbol, Exposed, Open, FillChain,
       NoStrandedSubmission, StopAboveInitial, NonterminalIntentStatuses
<1>4. Extends(db, tx)
  BY DEF Init, Extends, NoPosition
<1>5. ~NewRisk(db, tx)
  BY <1>1 DEF NewRisk
<1>6. IdleIsClean /\ GatesFresh
  BY <1>1 DEF Init, IdleIsClean, GatesFresh
<1>7. QED
  BY <1>1, <1>2, <1>3, <1>4, <1>5, <1>6 DEF IInv, RiskIsLocked

\* An operation of the poll that needs no fresh authorization: if its new rows
\* keep what Keeps says and it leaves db, the controls and the clock alone,
\* the invariant is kept.
LEMMA KeepingStep ==
    ASSUME IInv, inTx, inTx' = inTx, db' = db, runtime' = runtime, mdReady' = mdReady,
           day' = day, closed' = closed,
           gates' = {},
           rowLocked' \in {rowLocked, TRUE},
           tx' \in Tables, Keeps(db, tx, tx')
    PROVE  IInv'
<1>1. TypeOK'
  BY DEF IInv, TypeOK
<1>2. RiskIsLocked'
  BY DEF IInv, RiskIsLocked, Keeps, NewRisk, ControlsAllowEntry
<1>3. IdleIsClean' /\ GatesFresh'
  BY DEF IdleIsClean, GatesFresh
<1>4. Sound(db)' /\ Sound(tx)' /\ Extends(db, tx)'
  BY DEF IInv, Keeps
<1>5. QED
  BY <1>1, <1>2, <1>3, <1>4 DEF IInv

\* An operation that creates risk: it holds the row lock and has just found the
\* controls to allow an entry.
LEMMA RiskStep ==
    ASSUME IInv, inTx, inTx' = inTx, db' = db, runtime' = runtime, mdReady' = mdReady,
           day' = day, closed' = closed,
           gates' = {},
           rowLocked' = TRUE, EntryAuthorized,
           tx' \in Tables, Sound(tx'), Extends(db, tx')
    PROVE  IInv'
<1>1. TypeOK'
  BY DEF IInv, TypeOK
<1>2. RiskIsLocked'
  BY DEF RiskIsLocked, EntryAuthorized, ControlsAllowEntry
<1>3. IdleIsClean' /\ GatesFresh'
  BY DEF IdleIsClean, GatesFresh
<1>4. Sound(db)' /\ Sound(tx)' /\ Extends(db, tx)'
  BY DEF IInv
<1>5. QED
  BY <1>1, <1>2, <1>3, <1>4 DEF IInv

\* Rows that do not change keep everything.
LEMMA SameRowsKeep ==
    ASSUME NEW d \in Tables, NEW t \in Tables, Sound(t), Extends(d, t)
    PROVE  Keeps(d, t, t)
BY DEF Keeps

\* A typed context of the gates.
LEMMA GateType ==
    ASSUME IInv, NEW s \in Symbols, BuildEvaluationContext(s)
    PROVE  gates' \subseteq EntryGateContext
<1>1. Cardinality(OpenPositions(tx)) \in Nat
  BY OpenCountType DEF IInv, TypeOK
<1>2. /\ (runtime.ready /\ ~runtime.kill /\ ~runtime.paused) \in BOOLEAN
      /\ mdReady \in BOOLEAN
      /\ HasOpenPosition(tx, s) \in BOOLEAN
      /\ (NonterminalIntents(tx, s) # {}) \in BOOLEAN
  BY DEF IInv, TypeOK, HasOpenPosition
<1>3. QED
  BY <1>1, <1>2 DEF BuildEvaluationContext, EntryGateContext

\* The operations of the poll.
LEMMA WorkerStep ==
    ASSUME IInv,
           \/ \E type \in SignalTypes : EvaluateLongEntry(type)
           \/ EvaluateNoSignal
           \/ \E i \in Intents : CancelDueIntent(i)
           \/ \E i \in Intents, approved \in BOOLEAN, stop \in Levels :
                 ExecuteDueIntent(i, approved, stop)
    PROVE  IInv'
<1> USE DEF IInv
<1>0. /\ db \in Tables /\ tx \in Tables /\ Sound(tx) /\ Extends(db, tx)
      /\ gates \subseteq EntryGateContext /\ day \in Days
  BY DEF TypeOK
<1>1. ASSUME EvaluateNoSignal PROVE IInv'
  <2>1. PICK g \in gates : tx' = Evaluated(tx, g.symbol, day)
    BY <1>1 DEF EvaluateNoSignal
  <2>2. g.symbol \in Symbols
    BY <1>0 DEF EntryGateContext
  <2>3. EvaluatedTables(tx, tx')
    BY <1>0, <2>1, <2>2, EvaluatedRows
  <2>4. tx' \in Tables /\ Keeps(db, tx, tx')
    BY <1>0, <2>3, EvaluatedKeeps DEF EvaluatedTables
  <2>5. QED
    BY <1>1, <2>4, KeepingStep DEF EvaluateNoSignal
<1>2. ASSUME NEW type \in SignalTypes, EvaluateLongEntry(type) PROVE IInv'
  <2>1. PICK g \in gates :
           tx' = LET t == Evaluated(tx, g.symbol, day)
                 IN  IF EntryAllowed(g, EntryAuthorized)
                     THEN WithIntent(t, <<g.symbol, day, type>>)
                     ELSE t
    BY <1>2 DEF EvaluateLongEntry
  <2> DEFINE t == Evaluated(tx, g.symbol, day)
             i == <<g.symbol, day, type>>
  <2>2. g.symbol \in Symbols
    BY <1>0 DEF EntryGateContext
  <2>3. EvaluatedTables(tx, t)
    BY <1>0, <2>2, EvaluatedRows
  <2>4. t \in Tables /\ Keeps(db, tx, t)
    BY <1>0, <2>3, EvaluatedKeeps DEF EvaluatedTables
  <2>5. CASE ~EntryAllowed(g, EntryAuthorized)
    BY <1>2, <2>1, <2>4, <2>5, KeepingStep DEF EvaluateLongEntry
  <2>6. CASE EntryAllowed(g, EntryAuthorized)
    <3>1. tx' = WithIntent(t, i)
      BY <2>1, <2>6
    <3>2. i \in Intents /\ SymbolOf(i) = g.symbol
      BY <1>0, <2>2 DEF Intents, SymbolOf
    <3>3. ~HasOpenPosition(tx, g.symbol) /\ NonterminalIntents(tx, g.symbol) = {}
      BY <2>6 DEF GatesFresh, EntryAllowed
    <3>4. ~HasOpenPosition(t, SymbolOf(i)) /\ NonterminalIntents(t, SymbolOf(i)) = {}
      BY <2>3, <3>2, <3>3
         DEF EvaluatedTables, HasOpenPosition, OpenPositions, Open, NonterminalIntents
    <3>5. WithIntentTables(t, i, tx')
      BY <2>4, <3>1, <3>2, WithIntentRows
    <3>6. Sound(t) /\ Extends(db, t)
      BY <2>4 DEF Keeps
    <3> HIDE DEF t, i
    <3>7. tx' \in Tables /\ Sound(tx') /\ Extends(db, tx')
      BY <1>0, <2>4, <3>2, <3>4, <3>5, <3>6, WithIntentSound DEF WithIntentTables
    <3>8. EntryAuthorized
      BY <2>6 DEF EntryAllowed
    <3>9. QED
      BY <1>2, <3>7, <3>8, RiskStep DEF EvaluateLongEntry
  <2>7. QED
    BY <2>5, <2>6
<1>3. ASSUME NEW i \in Intents, CancelDueIntent(i) PROVE IInv'
  <2>1. tx.intent[i] \in NonterminalIntentStatuses
    BY <1>3 DEF CancelDueIntent, DueIntents, NonterminalIntents
  <2>2. CASE tx.intent[i] = "SCHEDULED"
    <3>1. WithStatusTables(tx, i, "CANCELLED", tx')
      BY <1>0, <1>3, <2>2, WithStatusRows DEF CancelDueIntent, IntentStatus
    <3>2. tx' \in Tables /\ Keeps(db, tx, tx')
      BY <1>0, <2>1, <3>1, EndedKeeps DEF WithStatusTables
    <3>3. QED
      BY <1>3, <3>2, KeepingStep DEF CancelDueIntent, Quiet
  <2>3. CASE tx.intent[i] # "SCHEDULED"
    BY <1>0, <1>3, <2>3, SameRowsKeep, KeepingStep DEF CancelDueIntent, Quiet
  <2>4. QED
    BY <2>2, <2>3
<1>4. ASSUME NEW i \in Intents, NEW approved \in BOOLEAN, NEW stop \in Levels,
             ExecuteDueIntent(i, approved, stop)
      PROVE  IInv'
  <2>0. stop \in Nat
    BY LifecycleConstants
  <2>1. tx.intent[i] \in NonterminalIntentStatuses
    BY <1>4 DEF ExecuteDueIntent, DueIntents, NonterminalIntents
  <2>2. ~(i \in tx.entryFills \/ HasOpenPosition(tx, SymbolOf(i)))
    BY <1>0, <2>1, PendingAlone
  <2>3. CASE approved /\ EntryFee <= tx.cash
    <3>1. FilledTables(tx, i, stop, tx')
      BY <1>0, <1>4, <2>0, <2>2, <2>3, FilledRows DEF ExecuteDueIntent
    <3>2. tx' \in Tables /\ Sound(tx') /\ Extends(db, tx')
      BY <1>0, <2>0, <2>1, <3>1, FilledSound DEF FilledTables
    <3>3. QED
      BY <1>4, <3>2, RiskStep DEF ExecuteDueIntent, Quiet
  <2>4. CASE ~(approved /\ EntryFee <= tx.cash)
    <3>1. WithStatusTables(tx, i, "REJECTED", tx')
      BY <1>0, <1>4, <2>2, <2>4, WithStatusRows DEF ExecuteDueIntent, IntentStatus
    <3>2. tx' \in Tables /\ Keeps(db, tx, tx')
      BY <1>0, <2>1, <3>1, EndedKeeps DEF WithStatusTables
    <3>3. QED
      BY <1>4, <3>2, KeepingStep DEF ExecuteDueIntent, Quiet
  <2>5. QED
    BY <2>3, <2>4
<1>5. QED
  BY <1>1, <1>2, <1>3, <1>4

\* The stops of the open positions.
LEMMA StopStep ==
    ASSUME IInv,
           \/ \E i \in Intents, open \in Levels, delta \in ExitDeltas : GapStop(i, open, delta)
           \/ \E i \in Intents, low \in Levels, delta \in ExitDeltas : IntradayStop(i, low, delta)
           \/ \E i \in Intents, level \in Levels : UpdateTrailingStop(i, level)
    PROVE  IInv'
<1> USE DEF IInv
<1>0. /\ db \in Tables /\ tx \in Tables /\ Sound(tx) /\ Extends(db, tx)
      /\ day \in Days
  BY DEF TypeOK
<1>1. ASSUME NEW i \in Intents, NEW delta \in ExitDeltas, inTx, Quiet, Open(tx, i),
             tx' = Closed(tx, i, delta),
             UNCHANGED <<db, inTx, rowLocked, runtime, mdReady, gates, day, closed>>
      PROVE  IInv'
  <2>0. delta \in Int
    BY LifecycleConstants
  <2>1. ClosedTables(tx, i, tx')
    BY <1>0, <1>1, <2>0, ClosedRows
  <2>2. tx' \in Tables /\ Keeps(db, tx, tx')
    BY <1>0, <1>1, <2>1, ClosedKeeps DEF ClosedTables
  <2>3. QED
    BY <1>1, <2>2, KeepingStep DEF Quiet
<1>2. ASSUME NEW i \in Intents, NEW level \in Levels, UpdateTrailingStop(i, level)
      PROVE  IInv'
  <2>0. level \in Nat
    BY LifecycleConstants
  <2>1. TrailedTables(tx, i, level, tx')
    BY <1>0, <1>2, <2>0, TrailedRows DEF UpdateTrailingStop
  <2>2. tx' \in Tables /\ Keeps(db, tx, tx')
    BY <1>0, <1>2, <2>0, <2>1, TrailedKeeps DEF TrailedTables, UpdateTrailingStop
  <2>3. QED
    BY <1>2, <2>2, KeepingStep DEF UpdateTrailingStop, Quiet
<1>3. QED
  BY <1>1, <1>2 DEF GapStop, IntradayStop

\* The transaction's boundaries and the reading of the gates.
LEMMA PollStep ==
    ASSUME IInv,
           \/ BeginPoll
           \/ \E s \in Symbols : BuildEvaluationContext(s)
           \/ DiscardEvaluationContext
           \/ CommitPoll
           \/ AbortPoll
    PROVE  IInv'
<1> USE DEF IInv
<1>1. CASE BeginPoll
  BY <1>1 DEF BeginPoll, TypeOK, IdleIsClean, GatesFresh, RiskIsLocked, ControlsAllowEntry
<1>2. ASSUME NEW s \in Symbols, BuildEvaluationContext(s) PROVE IInv'
  <2>1. gates' \subseteq EntryGateContext
    BY <1>2, GateType
  <2>2. UNCHANGED <<db, tx, inTx, rowLocked, runtime, mdReady, day, closed>>
    BY <1>2 DEF BuildEvaluationContext
  <2>3. GatesFresh'
    BY <1>2, <2>2 DEF BuildEvaluationContext, GatesFresh
  <2>4. IdleIsClean'
    BY <1>2 DEF BuildEvaluationContext, IdleIsClean
  <2>5. TypeOK'
    BY <2>1, <2>2 DEF TypeOK
  <2>6. QED
    BY <2>2, <2>3, <2>4, <2>5 DEF RiskIsLocked, ControlsAllowEntry
<1>3. CASE DiscardEvaluationContext
  <2>1. UNCHANGED <<db, tx, inTx, rowLocked, runtime, mdReady, day, closed>> /\ gates' = {}
    BY <1>3 DEF DiscardEvaluationContext
  <2>2. TypeOK' /\ IdleIsClean' /\ GatesFresh'
    BY <2>1 DEF TypeOK, IdleIsClean, GatesFresh
  <2>3. QED
    BY <2>1, <2>2 DEF RiskIsLocked, ControlsAllowEntry
<1>4. CASE CommitPoll
  <2>1. db' = tx /\ tx' = tx /\ ~inTx' /\ ~rowLocked' /\ gates' = {}
    BY <1>4 DEF CommitPoll, Quiet
  <2>2. TypeOK'
    BY <1>4 DEF CommitPoll, TypeOK
  <2>3. IdleIsClean' /\ GatesFresh'
    BY <2>1 DEF IdleIsClean, GatesFresh
  <2>4. Sound(db)' /\ Sound(tx)'
    BY <2>1
  <2>5. RiskIsLocked'
    BY <2>1 DEF RiskIsLocked, NewRisk
  <2>6. Extends(db, tx)'
    <3>1. \A i \in Intents : tx.position[i].stop \in Nat
      BY DEF TypeOK, Tables, Position
    <3>2. QED
      BY <2>1, <3>1 DEF Extends
  <2>7. QED
    BY <2>2, <2>3, <2>4, <2>5, <2>6
<1>5. CASE AbortPoll
  <2>1. db' = db /\ tx' = db /\ ~inTx' /\ ~rowLocked' /\ gates' = {}
    BY <1>5 DEF AbortPoll
  <2>2. TypeOK'
    BY <1>5 DEF AbortPoll, TypeOK
  <2>3. IdleIsClean' /\ GatesFresh'
    BY <2>1 DEF IdleIsClean, GatesFresh
  <2>4. Sound(db)' /\ Sound(tx)'
    BY <2>1
  <2>5. RiskIsLocked'
    BY <2>1 DEF RiskIsLocked, NewRisk
  <2>6. Extends(db, tx)'
    <3>1. \A i \in Intents : db.position[i].stop \in Nat
      BY DEF TypeOK, Tables, Position
    <3>2. QED
      BY <2>1, <3>1 DEF Extends
  <2>7. QED
    BY <2>2, <2>3, <2>4, <2>5, <2>6
<1>6. QED
  BY <1>1, <1>2, <1>3, <1>4, <1>5

\* The environment writes no row of the lifecycle, and no control while the
\* row is locked.
LEMMA EnvironmentStep ==
    ASSUME IInv,
           \/ Pause \/ Kill \/ OperatorClearsControls \/ RuntimeReadiness
           \/ MarketDataReadiness \/ CloseDay \/ OpenDay
           \/ UNCHANGED vars
    PROVE  IInv'
<1> USE DEF IInv
<1>1. /\ UNCHANGED <<db, tx, inTx, rowLocked, gates>>
      /\ rowLocked => UNCHANGED runtime
  BY DEF Pause, Kill, OperatorClearsControls, RuntimeReadiness, MarketDataReadiness,
     CloseDay, OpenDay, vars
<1>2. runtime' \in Runtime /\ mdReady' \in BOOLEAN
  BY DEF Pause, Kill, OperatorClearsControls, RuntimeReadiness, MarketDataReadiness,
     CloseDay, OpenDay, vars, TypeOK, Runtime
<1>3. day' \in Days /\ closed' \in BOOLEAN
  <2>1. /\ day' = day \/ (day < LastDay /\ day' = day + 1)
        /\ closed' \in {closed, TRUE, FALSE}
    BY DEF Pause, Kill, OperatorClearsControls, RuntimeReadiness, MarketDataReadiness,
       CloseDay, OpenDay, vars
  <2>2. day' \in Days
    BY <2>1, LifecycleConstants DEF TypeOK, Days
  <2>3. QED
    BY <2>1, <2>2 DEF TypeOK
<1>4. TypeOK'
  BY <1>1, <1>2, <1>3 DEF TypeOK
<1>5. RiskIsLocked'
  BY <1>1 DEF RiskIsLocked, NewRisk, ControlsAllowEntry
<1>6. QED
  BY <1>1, <1>4, <1>5 DEF IdleIsClean, GatesFresh

\* Every step keeps the invariant.
LEMMA NextIInv == IInv /\ [Next]_vars => IInv'
<1> SUFFICES ASSUME IInv, [Next]_vars PROVE IInv'
  OBVIOUS
<1>1. CASE Next
  BY <1>1, WorkerStep, StopStep, PollStep, EnvironmentStep DEF Next
<1>2. CASE UNCHANGED vars
  BY <1>2, EnvironmentStep
<1>3. QED
  BY <1>1, <1>2

\* The invariant holds in every reachable state.
THEOREM Invariance == Spec => []IInv
BY InitIInv, NextIInv, PTL DEF Spec

\* A symbol never carries two exposures, for any number of symbols, signal
\* types and days (create_intent_from_evaluation, execute_scheduled_paper_fill).
THEOREM OneExposure == Spec => []ExposureInv
<1>1. IInv => ExposureInv
  BY DEF IInv, Sound, ExposureInv
<1>2. QED
  BY Invariance, <1>1, PTL

\* Order, fill, position and FILLED intent exist together, at every savepoint
\* boundary and after every crash (_persist_successful_fill, _close_if_stopped).
THEOREM ChainComplete == Spec => []ChainInv
<1>1. IInv => ChainInv
  BY DEF IInv, Sound, ChainInv
<1>2. QED
  BY Invariance, <1>1, PTL

\* Every row is legal by itself: typed, not stranded in SUBMITTED_TO_PAPER_ENGINE, its
\* stop at or above the initial one.
THEOREM RowsStayLegal == Spec => []RowsLegal
<1>1. IInv => TypeOK
  BY DEF IInv
<1>2. IInv => SubmissionInv /\ StopInv
  BY DEF IInv, Sound, SubmissionInv, StopInv
<1>3. QED
  BY Invariance, <1>1, <1>2, PTL DEF RowsLegal

-----------------------------------------------------------------------------
(* The action properties: only CommitPoll writes db, and it writes tx.     *)

\* A step leaves the committed rows alone or commits the transaction.
LEMMA OnlyCommitsWrite ==
    ASSUME [Next]_vars
    PROVE  db' = db \/ (db' = tx /\ UNCHANGED runtime)
BY DEF Next, vars, BeginPoll, BuildEvaluationContext, DiscardEvaluationContext,
   EvaluateNoSignal, EvaluateLongEntry, CancelDueIntent, ExecuteDueIntent, GapStop,
   IntradayStop, UpdateTrailingStop, CommitPoll, AbortPoll, Pause, Kill,
   OperatorClearsControls, RuntimeReadiness, MarketDataReadiness, CloseDay, OpenDay

\* No intent and no entry fill is committed while the worker is paused, killed
\* or not READY.
THEOREM RiskAuthorized == Spec => NewRiskOnlyWhenAuthorized
<1>1. IInv /\ [Next]_vars => [NewRisk(db, db') => ControlsAllowEntry]_vars
  BY OnlyCommitsWrite DEF IInv, RiskIsLocked, NewRisk
<1>2. QED
  BY Invariance, <1>1, PTL DEF Spec, NewRiskOnlyWhenAuthorized

\* What is settled stays settled: a terminal intent is never revived, a committed stop
\* never lowered, a closed position never touched again.
THEOREM NothingUndone == Spec => SettledNeverUndone
<1>1. IInv /\ [Next]_vars =>
        [\A i \in Intents :
           /\ db.intent[i] \in TerminalIntentStatuses => db'.intent[i] = db.intent[i]
           /\ db.position[i].status # "ABSENT" =>
                 db'.position[i].stop >= db.position[i].stop
           /\ db.position[i].status = "CLOSED" => db'.position[i] = db.position[i]
           /\ db.position[i].status = "OPEN" => db'.position[i].status # "ABSENT"]_vars
  <2>1. IInv => \A i \in Intents : db.position[i].stop \in Nat
    BY DEF IInv, TypeOK, Tables, Position
  <2>2. IInv /\ [Next]_vars =>
          \A i \in Intents : db.intent[i] \in TerminalIntentStatuses
                                 => db'.intent[i] = db.intent[i]
    BY OnlyCommitsWrite DEF IInv, Extends
  <2>3. QED
    BY <2>1, <2>2, OnlyCommitsWrite DEF IInv, Extends
<1>2. QED
  BY Invariance, <1>1, PTL DEF Spec, SettledNeverUndone

--------------------------------------------------------------------------------
(* Sums over finite sets: the sum of the model is the fold of the community    *)
(* modules, which takes its elements in an order of its own.  The lemmas       *)
(* unfold it and show by induction on the set (a minimal counterexample,       *)
(* WFMin) that the order does not matter.                                      *)

\* The element that the fold takes first, one turn of the fold, and the sum.
Pick(s) == CHOOSE x \in s : TRUE

SumStep(f, D, g) ==
    [s \in SUBSET D |-> IF s = {} THEN 0 ELSE f[Pick(s)] + g[s \ {Pick(s)}]]

SumOver(f, D) == MapThenSumSet(LAMBDA x : f[x], D)

\* The element that is picked is one of the set.
LEMMA PickIn == ASSUME NEW s, s # {} PROVE Pick(s) \in s
BY DEF Pick

\* Induction on the subsets of a finite set.
LEMMA SubsetInduction ==
    ASSUME NEW D, IsFiniteSet(D), NEW Q,
           \A s \in SUBSET D : (\A y \in s : s \ {y} \in Q) => s \in Q
    PROVE  \A s \in SUBSET D : s \in Q
<1> DEFINE B == {n \in Nat : \E s \in SUBSET D : s \notin Q /\ Cardinality(s) = n}
<1>1. SUFFICES ASSUME NEW s \in SUBSET D, s \notin Q PROVE FALSE
  OBVIOUS
<1>2. B \subseteq Nat /\ B # {}
  <2>1. Cardinality(s) \in Nat
    BY FS_Subset, FS_CardinalityType
  <2>2. Cardinality(s) \in B
    BY <1>1, <2>1
  <2>. QED
    BY <2>2
<1>3. PICK n \in B : \A m \in B : ~ (<<m, n>> \in OpToRel(<, Nat))
  BY <1>2, WFMin, NatLessThanWellFounded, Zenon
<1>4. \A m \in B : ~ (m < n)
  BY <1>2, <1>3 DEF OpToRel
<1>5. PICK t \in SUBSET D : t \notin Q /\ Cardinality(t) = n
  OBVIOUS
<1>6. ASSUME NEW y \in t PROVE t \ {y} \in Q
  <2>1. IsFiniteSet(t) /\ IsFiniteSet(t \ {y})
    BY FS_Subset, FS_RemoveElement
  <2>2. Cardinality(t \ {y}) = n - 1 /\ Cardinality(t \ {y}) \in Nat
    BY <2>1, <1>5, FS_RemoveElement, FS_CardinalityType
  <2>3. Cardinality(t \ {y}) \notin B
    <3> HIDE DEF B
    <3>. QED
      BY <2>2, <1>2, <1>4
  <2>. QED
    BY <2>2, <2>3
<1>. QED
  BY <1>5, <1>6

\* The fold's recursive function exists: it is built one cardinality at a time.
LEMMA SumFcnExists ==
    ASSUME NEW D, IsFiniteSet(D), NEW f
    PROVE  \E g : g = SumStep(f, D, g)
<1> DEFINE Layer(n) == {s \in SUBSET D : Cardinality(s) <= n}
           Sums(n, g) == g = [s \in Layer(n) |-> IF s = {} THEN 0
                                                 ELSE f[Pick(s)] + g[s \ {Pick(s)}]]
           B == {n \in Nat : ~\E g : Sums(n, g)}
<1>1. \A s \in SUBSET D : IsFiniteSet(s) /\ Cardinality(s) \in Nat
  BY FS_Subset, FS_CardinalityType
<1>2. \A s \in SUBSET D : s # {} => /\ Pick(s) \in s /\ s \ {Pick(s)} \in SUBSET D
                                    /\ Cardinality(s \ {Pick(s)}) = Cardinality(s) - 1
  BY <1>1, PickIn, FS_RemoveElement
<1>3. \E g : Sums(0, g)
  <2>1. Layer(0) = {{}}
    BY <1>1, FS_EmptySet
  <2>2. Sums(0, [s \in Layer(0) |-> 0])
    BY <2>1
  <2>. QED
    BY <2>2
<1>4. ASSUME NEW n \in Nat, NEW g, Sums(n, g) PROVE \E h : Sums(n + 1, h)
  <2> DEFINE h == [s \in Layer(n + 1) |-> IF s = {} THEN 0
                                          ELSE f[Pick(s)] + g[s \ {Pick(s)}]]
  <2>1. \A s \in Layer(n) : s \in Layer(n + 1) /\ h[s] = g[s]
    <3>1. ASSUME NEW s \in Layer(n) PROVE s \in Layer(n + 1)
      BY <1>1
    <3>2. ASSUME NEW s \in Layer(n)
          PROVE  g[s] = IF s = {} THEN 0 ELSE f[Pick(s)] + g[s \ {Pick(s)}]
      BY <1>4, Zenon
    <3>3. ASSUME NEW s \in Layer(n + 1)
          PROVE  h[s] = IF s = {} THEN 0 ELSE f[Pick(s)] + g[s \ {Pick(s)}]
      BY Zenon
    <3> HIDE DEF h, Layer
    <3>. QED
      BY <3>1, <3>2, <3>3
  <2>2. \A s \in Layer(n + 1) : s # {} => s \ {Pick(s)} \in Layer(n)
    BY <1>1, <1>2
  <2>3. \A s \in Layer(n + 1) : s # {} => h[s \ {Pick(s)}] = g[s \ {Pick(s)}]
    <3> HIDE DEF h, Layer
    <3>. QED
      BY <2>1, <2>2
  <2>4. h = [s \in Layer(n + 1) |-> IF s = {} THEN 0 ELSE f[Pick(s)] + h[s \ {Pick(s)}]]
    <3>1. \A s \in Layer(n + 1) :
             h[s] = IF s = {} THEN 0 ELSE f[Pick(s)] + h[s \ {Pick(s)}]
      BY <2>3, Zenon
    <3>. QED
      BY <3>1, Zenon
  <2>. QED
    BY <2>4
<1>5. B = {}
  <2>1. SUFFICES ASSUME B # {} PROVE FALSE
    OBVIOUS
  <2>2. PICK n \in B : \A m \in B : ~ (<<m, n>> \in OpToRel(<, Nat))
    BY <2>1, WFMin, NatLessThanWellFounded, Zenon
  <2>3. \A m \in B : ~ (m < n)
    BY <2>2 DEF OpToRel
  <2>4. n # 0
    BY <1>3
  <2>5. n \in Nat /\ n - 1 \in Nat /\ n - 1 < n /\ (n - 1) + 1 = n
    BY <2>4
  <2>6. n - 1 \notin B
    <3> HIDE DEF B
    <3>. QED
      BY <2>3, <2>5
  <2>7. PICK g : Sums(n - 1, g)
    <3> HIDE DEF Sums
    <3>. QED
      BY <2>5, <2>6
  <2>8. PICK h : Sums((n - 1) + 1, h)
    <3> HIDE DEF Sums
    <3>. QED
      BY <1>4, <2>5, <2>7
  <2>9. \E k : Sums(n, k)
    <3> HIDE DEF Sums
    <3>. QED
      BY <2>5, <2>8
  <2>. QED
    BY <2>9
<1>6. PICK n \in Nat : n = Cardinality(D)
  BY FS_CardinalityType
<1>7. Layer(n) = SUBSET D
  BY <1>6, FS_Subset
<1>8. PICK g : Sums(n, g)
  <2> HIDE DEF Sums
  <2>. QED
    BY <1>5
<1>9. g = SumStep(f, D, g)
  <2> HIDE DEF Layer
  <2>. QED
    BY <1>7, <1>8 DEF SumStep
<1>. QED
  BY <1>9

\* The sum is the value of a function that satisfies the fold's equation.
LEMMA SumByFold ==
    ASSUME NEW S, IsFiniteSet(S), NEW f
    PROVE  \E g : g = SumStep(f, S, g) /\ SumOver(f, S) = g[S]
<1> DEFINE g == CHOOSE h : h = SumStep(f, S, h)
<1>1. g = SumStep(f, S, g)
  BY SumFcnExists
<1>2. SumOver(f, S) = g[S]
  BY DEF SumOver, MapThenSumSet, MapThenFoldSet, SumStep, Pick
<1> HIDE DEF g
<1>. QED
  BY <1>1, <1>2

\* One turn of the fold.
LEMMA FoldTurn ==
    ASSUME NEW D, NEW f, NEW g, g = SumStep(f, D, g), NEW s \in SUBSET D
    PROVE  g[s] = IF s = {} THEN 0 ELSE f[Pick(s)] + g[s \ {Pick(s)}]
<1>1. SumStep(f, D, g)[s] = IF s = {} THEN 0 ELSE f[Pick(s)] + g[s \ {Pick(s)}]
  BY Zenon DEF SumStep
<1>. QED
  BY <1>1

\* Two folds agree on the subsets where they add the same terms.
LEMMA FoldsAgree ==
    ASSUME NEW D, NEW f, NEW g, g = SumStep(f, D, g),
           NEW S \in SUBSET D, IsFiniteSet(S), NEW k, NEW h, h = SumStep(k, S, h),
           \A x \in S : f[x] = k[x]
    PROVE  \A s \in SUBSET S : g[s] = h[s]
<1> DEFINE Q == {s \in SUBSET S : g[s] = h[s]}
<1>1. ASSUME NEW s \in SUBSET S, \A y \in s : s \ {y} \in Q PROVE s \in Q
  <2>1. /\ g[s] = IF s = {} THEN 0 ELSE f[Pick(s)] + g[s \ {Pick(s)}]
        /\ h[s] = IF s = {} THEN 0 ELSE k[Pick(s)] + h[s \ {Pick(s)}]
    BY FoldTurn
  <2>2. CASE s = {}
    BY <2>1, <2>2
  <2>3. CASE s # {}
    <3>1. Pick(s) \in s
      BY <2>3, PickIn
    <3>2. g[s \ {Pick(s)}] = h[s \ {Pick(s)}] /\ f[Pick(s)] = k[Pick(s)]
      BY <1>1, <3>1
    <3>. QED
      BY <2>1, <2>3, <3>2
  <2>. QED
    BY <2>2, <2>3
<1> HIDE DEF Q
<1>2. \A s \in SUBSET S : s \in Q
  BY <1>1, SubsetInduction
<1>. QED
  BY <1>2 DEF Q

\* One fold computes the sums over all subsets.
LEMMA SumsAreFold ==
    ASSUME NEW D, IsFiniteSet(D), NEW f
    PROVE  \E g : g = SumStep(f, D, g) /\ \A s \in SUBSET D : SumOver(f, s) = g[s]
<1>1. PICK g : g = SumStep(f, D, g)
  BY SumFcnExists
<1>2. ASSUME NEW s \in SUBSET D PROVE SumOver(f, s) = g[s]
  <2>1. IsFiniteSet(s)
    BY FS_Subset
  <2>2. PICK h : h = SumStep(f, s, h) /\ SumOver(f, s) = h[s]
    BY <2>1, SumByFold
  <2>3. s \in SUBSET s
    OBVIOUS
  <2>4. g[s] = h[s]
    BY <1>1, <2>1, <2>2, <2>3, FoldsAgree
  <2>. QED
    BY <2>2, <2>4
<1>. QED
  BY <1>1, <1>2

\* The empty sum, the type of a sum, and a sum with one term more, in whatever order
\* the fold takes its elements.
LEMMA SumLaws ==
    ASSUME NEW D, IsFiniteSet(D), NEW f, \A x \in D : f[x] \in Int
    PROVE  /\ SumOver(f, {}) = 0
           /\ \A s \in SUBSET D : SumOver(f, s) \in Int
           /\ \A s \in SUBSET D : \A x \in D \ s :
                 SumOver(f, s \cup {x}) = SumOver(f, s) + f[x]
<1>1. PICK g : g = SumStep(f, D, g) /\ \A s \in SUBSET D : SumOver(f, s) = g[s]
  BY SumsAreFold
<1>2. ASSUME NEW s \in SUBSET D
      PROVE  g[s] = IF s = {} THEN 0 ELSE f[Pick(s)] + g[s \ {Pick(s)}]
  <2>1. g = SumStep(f, D, g)
    BY <1>1
  <2>2. SumStep(f, D, g)[s] = IF s = {} THEN 0 ELSE f[Pick(s)] + g[s \ {Pick(s)}]
    BY Zenon DEF SumStep
  <2>. QED
    BY <2>1, <2>2, Zenon
<1>3. g[{}] = 0
  <2>1. PICK s \in SUBSET D : s = {}
    OBVIOUS
  <2>2. g[s] = IF s = {} THEN 0 ELSE f[Pick(s)] + g[s \ {Pick(s)}]
    BY <1>2
  <2>. QED
    BY <2>1, <2>2
<1>4. \A s \in SUBSET D : g[s] \in Int
  <2> DEFINE Q == {s \in SUBSET D : g[s] \in Int}
  <2>1. ASSUME NEW s \in SUBSET D, \A y \in s : s \ {y} \in Q PROVE s \in Q
    <3>1. CASE s = {}
      BY <3>1, <1>3
    <3>2. CASE s # {}
      <4>1. Pick(s) \in s
        BY <3>2, PickIn
      <4>2. g[s \ {Pick(s)}] \in Int /\ f[Pick(s)] \in Int
        BY <2>1, <4>1
      <4>3. g[s] = f[Pick(s)] + g[s \ {Pick(s)}]
        BY <1>2, <3>2
      <4>. QED
        BY <4>2, <4>3
    <3>. QED
      BY <3>1, <3>2
  <2> HIDE DEF Q
  <2>2. \A s \in SUBSET D : s \in Q
    BY <2>1, SubsetInduction
  <2>. QED
    BY <2>2 DEF Q
<1>5. \A s \in SUBSET D : \A x \in D \ s : g[s \cup {x}] = g[s] + f[x]
  <2> DEFINE Q == {s \in SUBSET D : \A x \in D \ s : g[s \cup {x}] = g[s] + f[x]}
  <2>1. ASSUME NEW s \in SUBSET D, \A y \in s : s \ {y} \in Q,
               NEW x \in D \ s
        PROVE  g[s \cup {x}] = g[s] + f[x]
    <3>1. PICK t \in SUBSET D : t = s \cup {x}
      OBVIOUS
    <3>2. PICK y : y = Pick(t)
      OBVIOUS
    <3>3. y \in t /\ g[t] = f[y] + g[t \ {y}]
      BY <3>1, <3>2, <1>2, PickIn
    <3>4. g[s] \in Int /\ f[x] \in Int /\ f[y] \in Int
      BY <3>1, <3>3, <1>4
    <3>5. CASE y = x
      <4>1. t \ {y} = s
        BY <3>1, <3>5
      <4>2. g[t] = f[x] + g[s]
        BY <3>3, <3>5, <4>1
      <4>3. g[t] = g[s] + f[x]
        BY <3>4, <4>2
      <4>. QED
        BY <3>1, <4>3
    <3>6. CASE y # x
      <4>1. y \in s
        BY <3>1, <3>3, <3>6
      <4>2. PICK r \in SUBSET D : r = s \ {y}
        OBVIOUS
      <4>3. t \ {y} = r \cup {x} /\ s = r \cup {y} /\ x \in D \ r /\ y \in D \ r
        BY <3>1, <3>6, <4>1, <4>2
      <4>4. r \in Q
        BY <2>1, <4>1, <4>2
      <4>5. g[r \cup {x}] = g[r] + f[x] /\ g[r \cup {y}] = g[r] + f[y]
        BY <4>3, <4>4
      <4>6. g[r] \in Int
        BY <1>4
      <4>7. g[t] = f[y] + (g[r] + f[x]) /\ g[s] = g[r] + f[y]
        BY <3>3, <4>3, <4>5
      <4>8. g[t] = g[s] + f[x]
        BY <3>4, <4>6, <4>7
      <4>. QED
        BY <3>1, <4>8
    <3>. QED
      BY <3>5, <3>6
  <2>2. ASSUME NEW s \in SUBSET D, \A y \in s : s \ {y} \in Q PROVE s \in Q
    BY <2>1, <2>2
  <2> HIDE DEF Q
  <2>3. \A s \in SUBSET D : s \in Q
    BY <2>2, SubsetInduction
  <2>. QED
    BY <2>3 DEF Q
<1>6. ASSUME NEW s \in SUBSET D, NEW x \in D \ s
      PROVE  SumOver(f, s \cup {x}) = SumOver(f, s) + f[x]
  <2>1. PICK t \in SUBSET D : t = s \cup {x}
    OBVIOUS
  <2>2. SumOver(f, t) = g[t] /\ SumOver(f, s) = g[s]
    BY <1>1
  <2>. QED
    BY <1>5, <2>1, <2>2
<1>. QED
  BY <1>1, <1>3, <1>4, <1>6

\* Only the terms of the set count.
LEMMA SumSame ==
    ASSUME NEW S, IsFiniteSet(S), NEW f, NEW k, \A x \in S : f[x] = k[x]
    PROVE  SumOver(f, S) = SumOver(k, S)
<1>1. PICK g : g = SumStep(f, S, g) /\ SumOver(f, S) = g[S]
  BY SumByFold
<1>2. PICK h : h = SumStep(k, S, h) /\ SumOver(k, S) = h[S]
  BY SumByFold
<1>3. S \in SUBSET S
  OBVIOUS
<1>4. g[S] = h[S]
  BY <1>1, <1>2, <1>3, FoldsAgree
<1>. QED
  BY <1>1, <1>2, <1>4

\* A term that changes changes the sum by as much.
LEMMA SumUpdate ==
    ASSUME NEW D, IsFiniteSet(D), NEW f \in [D -> Int], NEW x \in D, NEW d \in Int
    PROVE  SumOver([f EXCEPT ![x] = @ + d], D) = SumOver(f, D) + d
<1>1. PICK k \in [D -> Int] : k = [f EXCEPT ![x] = @ + d]
  <2>1. [f EXCEPT ![x] = f[x] + d] \in [D -> Int]
    OBVIOUS
  <2>. QED
    BY <2>1
<1>2. PICK s \in SUBSET D : s = D \ {x}
  OBVIOUS
<1>3. D = s \cup {x} /\ x \in D \ s /\ IsFiniteSet(s)
  BY <1>2, FS_Subset
<1>4. SumOver(f, s) = SumOver(k, s)
  BY <1>1, <1>2, <1>3, SumSame
<1>5. /\ SumOver(f, s \cup {x}) = SumOver(f, s) + f[x]
      /\ SumOver(k, s \cup {x}) = SumOver(k, s) + k[x]
      /\ SumOver(f, s) \in Int
  BY <1>3, SumLaws
<1>6. k[x] = f[x] + d /\ f[x] \in Int
  BY <1>1
<1>. QED
  BY <1>1, <1>3, <1>4, <1>5, <1>6

\* Terms that are zero need not be added.
LEMMA SumNonzero ==
    ASSUME NEW D, IsFiniteSet(D), NEW f, \A x \in D : f[x] \in Int,
           NEW S \in SUBSET D, \A x \in D \ S : f[x] = 0
    PROVE  SumOver(f, D) = SumOver(f, S)
<1> DEFINE Q == {t \in SUBSET D : SumOver(f, t) = SumOver(f, t \cap S)}
<1>1. ASSUME NEW t \in SUBSET D, \A y \in t : t \ {y} \in Q PROVE t \in Q
  <2>1. CASE t = {}
    <3>1. t \cap S = t
      BY <2>1
    <3>. QED
      BY <3>1
  <2>2. CASE t # {}
    <3>1. PICK y \in t : TRUE
      BY <2>2
    <3>2. PICK r \in SUBSET D : r = t \ {y}
      OBVIOUS
    <3>3. PICK q \in SUBSET D : q = r \cap S
      OBVIOUS
    <3>4. /\ t = r \cup {y} /\ y \in D \ r /\ y \in D \ q
          /\ SumOver(f, r) = SumOver(f, q)
      BY <1>1, <3>1, <3>2, <3>3
    <3>5. /\ SumOver(f, r \cup {y}) = SumOver(f, r) + f[y]
          /\ SumOver(f, q \cup {y}) = SumOver(f, q) + f[y]
          /\ SumOver(f, q) \in Int /\ f[y] \in Int
      BY <3>4, SumLaws
    <3>6. CASE y \in S
      <4>1. t \cap S = q \cup {y}
        BY <3>2, <3>3, <3>4, <3>6
      <4>2. SumOver(f, t) = SumOver(f, t \cap S)
        BY <3>4, <3>5, <4>1
      <4>. QED
        BY <4>2
    <3>7. CASE y \notin S
      <4>1. t \cap S = q /\ f[y] = 0
        BY <3>2, <3>3, <3>4, <3>7
      <4>2. SumOver(f, t) = SumOver(f, q)
        BY <3>4, <3>5, <4>1
      <4>. QED
        BY <4>1, <4>2
    <3>. QED
      BY <3>6, <3>7
  <2>. QED
    BY <2>1, <2>2
<1> HIDE DEF Q
<1>2. D \in Q
  BY <1>1, SubsetInduction
<1>3. D \cap S = S
  OBVIOUS
<1>. QED
  BY <1>2, <1>3 DEF Q

--------------------------------------------------------------------------------
(* The wallet of the worker.                                                  *)

\* The books of the rows t: the cash is what the fills say, and only a closed
\* position has a result.
Balanced(t) ==
    /\ t.cash = InitialCash - EntryFee * Cardinality(t.entryFills) + SumOver(t.pnl, Intents)
    /\ \A i \in Intents : t.position[i].status # "CLOSED" => t.pnl[i] = 0

\* The inductive invariant: the books balance in the committed rows and in those of the
\* open transaction.
BooksInv == IInv /\ Balanced(db) /\ Balanced(tx)

\* Rows without a new fill.
LEMMA SameBooks ==
    ASSUME NEW t, NEW u, Balanced(t),
           u.cash = t.cash, u.pnl = t.pnl, u.entryFills = t.entryFills,
           \A i \in Intents : u.position[i].status = t.position[i].status
    PROVE  Balanced(u)
BY DEF Balanced

\* Every result of an exit is a number, and so is their sum.
LEMMA SumOfPnl ==
    ASSUME NEW t \in Tables
    PROVE  SumOver(t.pnl, Intents) \in Int
<1>1. t.pnl \in [Intents -> Int]
  BY DEF Tables
<1>2. PICK f \in [Intents -> Int] : f = t.pnl
  BY <1>1
<1>3. Intents \in SUBSET Intents /\ \A x \in Intents : f[x] \in Int
  OBVIOUS
<1>4. SumOver(f, Intents) \in Int
  BY <1>3, IntentsFinite, SumLaws
<1>. QED
  BY <1>2, <1>4

\* An evaluation moves no money.
LEMMA EvaluatedBooks ==
    ASSUME NEW t \in Tables, Balanced(t), NEW s, NEW d, NEW u, u = Evaluated(t, s, d)
    PROVE  Balanced(u)
<1>1. /\ u.cash = t.cash /\ u.pnl = t.pnl /\ u.entryFills = t.entryFills
      /\ u.position = t.position
  BY DEF Evaluated, Tables
<1>. QED
  BY <1>1, SameBooks

\* An intent moves no money.
LEMMA WithIntentBooks ==
    ASSUME NEW t \in Tables, Balanced(t), NEW i \in Intents, NEW u, u = WithIntent(t, i)
    PROVE  Balanced(u)
<1>1. /\ u.cash = t.cash /\ u.pnl = t.pnl /\ u.entryFills = t.entryFills
      /\ u.position = t.position
  BY DEF WithIntent, Tables
<1>. QED
  BY <1>1, SameBooks

\* A status moves no money.
LEMMA WithStatusBooks ==
    ASSUME NEW t \in Tables, Balanced(t), NEW i \in Intents, NEW st, NEW u, u = WithStatus(t, i, st)
    PROVE  Balanced(u)
<1>1. /\ u.cash = t.cash /\ u.pnl = t.pnl /\ u.entryFills = t.entryFills
      /\ u.position = t.position
  BY DEF WithStatus, Tables
<1>. QED
  BY <1>1, SameBooks

\* A raised stop moves no money.
LEMMA TrailedBooks ==
    ASSUME NEW t \in Tables, Balanced(t), NEW i \in Intents, NEW d, NEW level,
           NEW u, u = Trailed(t, i, d, level)
    PROVE  Balanced(u)
<1>1. u.cash = t.cash /\ u.pnl = t.pnl /\ u.entryFills = t.entryFills
  BY DEF Trailed, Tables
<1>2. \A j \in Intents : u.position[j].status = t.position[j].status
  BY DEF Trailed, Tables, Position
<1>. QED
  BY <1>1, <1>2, SameBooks

\* An entry fill costs its fee, once (_persist_successful_fill).
LEMMA FilledBooks ==
    ASSUME NEW t \in Tables, Balanced(t), NEW i \in Intents, i \notin t.entryFills,
           t.position[i].status = "ABSENT", NEW stop, NEW u, u = Filled(t, i, stop)
    PROVE  Balanced(u)
<1>1. /\ u.cash = t.cash - EntryFee /\ u.pnl = t.pnl
      /\ u.entryFills = t.entryFills \cup {i}
  BY DEF Filled, Tables
<1>2. \A j \in Intents : u.position[j].status # "CLOSED" => t.position[j].status # "CLOSED"
  BY DEF Filled, Tables, Position
<1>3. IsFiniteSet(t.entryFills)
  BY IntentsFinite, FS_Subset DEF Tables
<1>4. PICK n \in Nat : n = Cardinality(t.entryFills)
  BY <1>3, FS_CardinalityType
<1>5. Cardinality(u.entryFills) = n + 1
  BY <1>1, <1>3, <1>4, FS_AddElement
<1>6. PICK sum \in Int : sum = SumOver(t.pnl, Intents)
  BY SumOfPnl
<1>7. t.cash = InitialCash - EntryFee * n + sum
  BY <1>4, <1>6 DEF Balanced
<1>8. EntryFee \in Nat /\ InitialCash \in Int
  BY LifecycleConstants
<1>9. u.cash = InitialCash - EntryFee * (n + 1) + sum
  <2>1. EntryFee * (n + 1) = EntryFee * n + EntryFee /\ EntryFee * n \in Int
    BY <1>8
  <2>. QED
    BY <1>1, <1>7, <1>8, <2>1
<1>. QED
  BY <1>1, <1>2, <1>5, <1>6, <1>9 DEF Balanced

\* An exit adds its result to the wallet and to the position (_close_if_stopped).
LEMMA ClosedBooks ==
    ASSUME NEW t \in Tables, Balanced(t), NEW i \in Intents, NEW delta \in Int,
           NEW u, u = Closed(t, i, delta)
    PROVE  Balanced(u)
<1>1. /\ u.cash = t.cash + delta /\ u.pnl = [t.pnl EXCEPT ![i] = @ + delta]
      /\ u.entryFills = t.entryFills
  BY DEF Closed, Tables
<1>2. \A j \in Intents : u.position[j].status # "CLOSED" =>
                            j # i /\ t.position[j].status # "CLOSED"
  BY DEF Closed, Tables, Position
<1>3. PICK f \in [Intents -> Int] : f = t.pnl
  BY DEF Tables
<1>4. SumOver([f EXCEPT ![i] = @ + delta], Intents) = SumOver(f, Intents) + delta
  BY IntentsFinite, SumUpdate
<1>5. SumOver(u.pnl, Intents) = SumOver(t.pnl, Intents) + delta
  BY <1>1, <1>3, <1>4
<1>6. PICK sum \in Int : sum = SumOver(t.pnl, Intents)
  BY SumOfPnl
<1>7. PICK n \in Nat : n = Cardinality(t.entryFills)
  BY IntentsFinite, FS_Subset, FS_CardinalityType DEF Tables
<1>8. t.cash = InitialCash - EntryFee * n + sum
  BY <1>6, <1>7 DEF Balanced
<1>9. EntryFee * n \in Int /\ InitialCash \in Int
  BY LifecycleConstants
<1>10. u.cash = InitialCash - EntryFee * n + SumOver(u.pnl, Intents)
  BY <1>1, <1>5, <1>6, <1>8, <1>9
<1>11. \A j \in Intents : j # i => u.pnl[j] = t.pnl[j]
  BY <1>1 DEF Tables
<1>12. \A j \in Intents : u.position[j].status # "CLOSED" => u.pnl[j] = 0
  BY <1>2, <1>11 DEF Balanced
<1>. QED
  BY <1>1, <1>7, <1>10, <1>12 DEF Balanced


\* The empty books balance.
LEMMA InitBooks == Init => Balanced(db) /\ Balanced(tx)
<1> SUFFICES ASSUME Init PROVE Balanced(db)
  BY DEF Init
<1>1. /\ db.cash = InitialCash /\ db.entryFills = {}
      /\ db.pnl \in [Intents -> Int] /\ \A i \in Intents : db.pnl[i] = 0
  BY DEF Init
<1>2. PICK f \in [Intents -> Int] : f = db.pnl
  BY <1>1
<1>3. PICK e \in SUBSET Intents : e = {}
  OBVIOUS
<1>4. (\A x \in Intents : f[x] \in Int) /\ \A x \in Intents \ e : f[x] = 0
  BY <1>1, <1>2
<1>5. SumOver(f, Intents) = SumOver(f, e)
  BY <1>4, IntentsFinite, SumNonzero
<1>6. SumOver(f, {}) = 0
  BY <1>4, IntentsFinite, SumLaws
<1>7. SumOver(db.pnl, Intents) = 0
  BY <1>2, <1>3, <1>5, <1>6
<1>8. Cardinality(db.entryFills) = 0
  BY <1>1, FS_EmptySet
<1>9. InitialCash = InitialCash - EntryFee * 0 + 0
  BY LifecycleConstants
<1>. QED
  BY <1>1, <1>7, <1>8, <1>9 DEF Balanced

\* The evaluations and the due intents.
LEMMA WorkerBooks ==
    ASSUME BooksInv,
           \/ \E type \in SignalTypes : EvaluateLongEntry(type)
           \/ EvaluateNoSignal
           \/ \E i \in Intents : CancelDueIntent(i)
           \/ \E i \in Intents, approved \in BOOLEAN, stop \in Levels :
                 ExecuteDueIntent(i, approved, stop)
    PROVE  db' = db /\ Balanced(tx')
<1>1. /\ tx \in Tables /\ Sound(tx) /\ Balanced(tx)
      /\ gates \subseteq EntryGateContext /\ day \in Days
  BY DEF BooksInv, IInv, TypeOK
<1>2. ASSUME EvaluateNoSignal PROVE db' = db /\ Balanced(tx')
  <2>1. PICK g \in gates : tx' = Evaluated(tx, g.symbol, day) /\ db' = db
    BY <1>2 DEF EvaluateNoSignal
  <2>. QED
    BY <1>1, <2>1, EvaluatedBooks
<1>3. ASSUME NEW type \in SignalTypes, EvaluateLongEntry(type)
      PROVE  db' = db /\ Balanced(tx')
  <2>1. PICK g \in gates :
           /\ db' = db
           /\ tx' = LET t == Evaluated(tx, g.symbol, day)
                    IN  IF EntryAllowed(g, EntryAuthorized)
                        THEN WithIntent(t, <<g.symbol, day, type>>)
                        ELSE t
    BY <1>3 DEF EvaluateLongEntry
  <2>2. PICK t : t = Evaluated(tx, g.symbol, day)
    OBVIOUS
  <2>3. g.symbol \in Symbols
    BY <1>1 DEF EntryGateContext
  <2>4. EvaluatedTables(tx, t)
    BY <1>1, <2>2, <2>3, EvaluatedRows
  <2>5. t \in Tables
    BY <2>4 DEF EvaluatedTables
  <2>6. Balanced(t)
    BY <1>1, <2>2, EvaluatedBooks
  <2>7. PICK i \in Intents : i = <<g.symbol, day, type>>
    BY <1>1, <2>3 DEF Intents
  <2>8. tx' = t \/ tx' = WithIntent(t, i)
    BY <2>1, <2>2, <2>7
  <2>. QED
    BY <2>1, <2>5, <2>6, <2>8, WithIntentBooks
<1>4. ASSUME NEW i \in Intents, CancelDueIntent(i) PROVE db' = db /\ Balanced(tx')
  <2>1. PICK st : st = "CANCELLED"
    OBVIOUS
  <2>2. db' = db /\ (tx' = tx \/ tx' = WithStatus(tx, i, st))
    BY <1>4, <2>1 DEF CancelDueIntent
  <2>. QED
    BY <1>1, <2>2, WithStatusBooks
<1>5. ASSUME NEW i \in Intents, NEW approved \in BOOLEAN, NEW stop \in Levels,
             ExecuteDueIntent(i, approved, stop)
      PROVE  db' = db /\ Balanced(tx')
  <2>1. tx.intent[i] \in NonterminalIntentStatuses
    BY <1>5 DEF ExecuteDueIntent, DueIntents, NonterminalIntents
  <2>2. /\ i \notin tx.entryFills /\ tx.position[i].status = "ABSENT"
        /\ ~HasOpenPosition(tx, SymbolOf(i))
    BY <1>1, <2>1, PendingAlone
  <2>3. PICK st : st = "REJECTED"
    OBVIOUS
  <2>4. db' = db /\ (tx' = Filled(tx, i, stop) \/ tx' = WithStatus(tx, i, st))
    BY <1>5, <2>2, <2>3 DEF ExecuteDueIntent
  <2>. QED
    BY <1>1, <2>2, <2>4, FilledBooks, WithStatusBooks
<1>. QED
  BY <1>2, <1>3, <1>4, <1>5

\* The stops.
LEMMA StopBooks ==
    ASSUME BooksInv,
           \/ \E i \in Intents, open \in Levels, delta \in ExitDeltas : GapStop(i, open, delta)
           \/ \E i \in Intents, low \in Levels, delta \in ExitDeltas : IntradayStop(i, low, delta)
           \/ \E i \in Intents, level \in Levels : UpdateTrailingStop(i, level)
    PROVE  db' = db /\ Balanced(tx')
<1>1. tx \in Tables /\ Balanced(tx)
  BY DEF BooksInv, IInv, TypeOK
<1>2. ASSUME NEW i \in Intents, NEW delta \in ExitDeltas, tx' = Closed(tx, i, delta)
      PROVE  Balanced(tx')
  <2>1. delta \in Int
    BY LifecycleConstants
  <2>. QED
    BY <1>1, <1>2, <2>1, ClosedBooks
<1>3. ASSUME NEW i \in Intents, NEW level \in Levels, UpdateTrailingStop(i, level)
      PROVE  Balanced(tx')
  BY <1>1, <1>3, TrailedBooks DEF UpdateTrailingStop
<1>. QED
  BY <1>2, <1>3 DEF GapStop, IntradayStop, UpdateTrailingStop

\* Every other step copies rows.
LEMMA OtherBooks ==
    ASSUME BooksInv,
           \/ BeginPoll \/ \E s \in Symbols : BuildEvaluationContext(s)
           \/ DiscardEvaluationContext \/ CommitPoll \/ AbortPoll
           \/ Pause \/ Kill \/ OperatorClearsControls \/ RuntimeReadiness
           \/ MarketDataReadiness \/ CloseDay \/ OpenDay
           \/ UNCHANGED vars
    PROVE  Balanced(db') /\ Balanced(tx')
<1>1. db' \in {db, tx} /\ tx' \in {db, tx}
  BY DEF BeginPoll, BuildEvaluationContext, DiscardEvaluationContext, CommitPoll,
     AbortPoll, Pause, Kill, OperatorClearsControls, RuntimeReadiness,
     MarketDataReadiness, CloseDay, OpenDay, vars
<1>. QED
  BY <1>1 DEF BooksInv

\* Every step keeps the books.
LEMMA NextBooks == BooksInv /\ [Next]_vars => BooksInv'
<1> SUFFICES ASSUME BooksInv, [Next]_vars PROVE Balanced(db') /\ Balanced(tx')
  BY NextIInv DEF BooksInv
<1>1. Balanced(db)
  BY DEF BooksInv
<1>. QED
  BY <1>1, WorkerBooks, StopBooks, OtherBooks DEF Next

\* The books balance in every reachable state.
THEOREM BooksInvariant == Spec => []BooksInv
<1>1. Init => BooksInv
  BY InitIInv, InitBooks DEF BooksInv
<1>. QED
  BY <1>1, NextBooks, PTL DEF Spec

\* The wallet's cash is the initial cash less the fee of every entry fill plus the net
\* result of every exit fill, after every savepoint and every COMMIT, for every number
\* of trades and every result (verify_accounting_independent).
THEOREM WalletBalances == Spec => []WalletReconciles
<1>1. BooksInv => WalletReconciles
  <2> SUFFICES ASSUME BooksInv, NEW t \in {db, tx}
               PROVE  t.cash = InitialCash - EntryFee * Cardinality(t.entryFills)
                                   + MapThenSumSet(LAMBDA i : t.pnl[i], Intents)
    BY Zenon DEF WalletReconciles
  <2>1. SumOver(t.pnl, Intents) = MapThenSumSet(LAMBDA i : t.pnl[i], Intents)
    BY DEF SumOver, MapThenSumSet, MapThenFoldSet
  <2>2. t.cash = InitialCash - EntryFee * Cardinality(t.entryFills) + SumOver(t.pnl, Intents)
    BY DEF BooksInv, Balanced
  <2>. QED
    BY <2>1, <2>2, Zenon
<1>. QED
  BY BooksInvariant, <1>1, PTL


--------------------------------------------------------------------------------
(* A restart over undamaged rows.                                             *)

\* The rows of a trade as the worker commits them.
CommittedChain(c) ==
    /\ c.intent \in {"ABSENT", "SCHEDULED", "FILLED", "REJECTED", "CANCELLED"}
    /\ c.entry \in BOOLEAN
    /\ c.intent = "FILLED" <=> c.entry
    /\ c.order = IF c.entry THEN "FILLED" ELSE "ABSENT"
    /\ c.position \in {"ABSENT", "OPEN", "CLOSED"}
    /\ c.position # "ABSENT" <=> c.entry
    /\ c.exits = IF c.position = "CLOSED" THEN 1 ELSE 0
    /\ c.margin <=> c.position = "OPEN"
    /\ c.realized = c.pnl
    /\ c.stopFaults = {}

\* The rows of a worker that has died between two steps.
CommittedRows(r) ==
    /\ r.runs = 0 /\ r.stale = FALSE /\ r.wallet = TRUE
    /\ \A i \in Intents : CommittedChain(r.chain[i])
    /\ \A i, j \in Intents :
          Held(r.chain[i]) /\ Held(r.chain[j]) /\ SymbolOf(i) = SymbolOf(j) => i = j

\* The rows of the lifecycle are such rows.
LEMMA RowsAreCommitted ==
    ASSUME NEW t \in Tables, Sound(t), NEW r, r = RowsOf(t)
    PROVE  CommittedRows(r)
<1>1. r.runs = 0 /\ r.stale = FALSE /\ r.wallet = TRUE
  BY DEF RowsOf
<1>2. ASSUME NEW i \in Intents PROVE r.chain[i] = ChainOf(t, i)
  BY DEF RowsOf
<1>3. ASSUME NEW i \in Intents PROVE CommittedChain(r.chain[i])
  <2>1. PICK c : c = ChainOf(t, i)
    OBVIOUS
  <2>2. /\ c.intent = t.intent[i]
        /\ c.order = IF i \in t.orders THEN "FILLED" ELSE "ABSENT"
        /\ c.entry = (i \in t.entryFills)
        /\ c.position = t.position[i].status
        /\ c.margin = Open(t, i)
        /\ c.realized = c.pnl
        /\ c.exits = t.exitFills[i]
        /\ c.stopFaults = IF t.position[i].stop < t.position[i].initial
                          THEN {"current_stop_below_initial"} ELSE {}
    BY <2>1 DEF ChainOf
  <2>3. t.intent[i] \in IntentStatus /\ t.position[i] \in Position
    BY DEF Tables
  <2>4. t.intent[i] # "SUBMITTED"
    BY DEF Sound, NoStrandedSubmission
  <2>5. ~(t.position[i].stop < t.position[i].initial)
    <3>1. t.position[i].stop >= t.position[i].initial
      BY DEF Sound, StopAboveInitial
    <3>. QED
      BY <2>3, <3>1 DEF Position
  <2>6. /\ (t.intent[i] = "FILLED") <=> (i \in t.entryFills)
        /\ (i \in t.orders) <=> (i \in t.entryFills)
        /\ (t.position[i].status # "ABSENT") <=> (i \in t.entryFills)
        /\ t.exitFills[i] = (IF t.position[i].status = "CLOSED" THEN 1 ELSE 0)
    BY DEF Sound, FillChain
  <2>7. /\ c.intent \in {"ABSENT", "SCHEDULED", "FILLED", "REJECTED", "CANCELLED"}
        /\ c.position \in {"ABSENT", "OPEN", "CLOSED"}
    BY <2>2, <2>3, <2>4 DEF IntentStatus, Position
  <2>8. c.entry \in BOOLEAN /\ (c.margin <=> c.position = "OPEN")
    <3>1. (i \in t.entryFills) \in BOOLEAN
      OBVIOUS
    <3>2. Open(t, i) <=> c.position = "OPEN"
      BY <2>2, Zenon DEF Open
    <3>. QED
      BY <2>2, <3>1, <3>2, Zenon
  <2>9. CommittedChain(c)
    BY <2>2, <2>5, <2>6, <2>7, <2>8 DEF CommittedChain
  <2>. QED
    BY <1>2, <2>1, <2>9
<1>4. ASSUME NEW i \in Intents, NEW j \in Intents, Held(r.chain[i]), Held(r.chain[j]),
             SymbolOf(i) = SymbolOf(j)
      PROVE  i = j
  <2>1. ASSUME NEW k \in Intents, Held(r.chain[k]) PROVE Exposed(t, k)
    <3>1. ChainOf(t, k).position = t.position[k].status /\ r.chain[k] = ChainOf(t, k)
      BY <1>2, Zenon DEF ChainOf
    <3>2. t.position[k] \in Position
      BY DEF Tables
    <3>. QED
      BY <2>1, <3>1, <3>2 DEF Held, Position, Exposed, Open
  <2>2. Exposed(t, i) /\ Exposed(t, j)
    BY <1>4, <2>1
  <2>. QED
    BY <1>4, <2>2 DEF Sound, OneExposurePerSymbol
<1>. QED
  BY <1>1, <1>3, <1>4 DEF CommittedRows

\* No check finds anything in them.
LEMMA ChecksFindNothing ==
    ASSUME NEW r, CommittedRows(r)
    PROVE  RunConsistencyChecks(r) = {}
<1>1. CheckOrphanSchedulerRuns(r) = {} /\ CheckStaleHeartbeat(r) = {}
  BY DEF CheckOrphanSchedulerRuns, CheckStaleHeartbeat, CommittedRows
<1>2. CheckMultipleOpenPositions(r) = {}
  <2>1. ASSUME NEW s \in Symbols PROVE ~(CountOpenBySymbol(r, s) > 1)
    <3>1. PICK h \in SUBSET Intents : h = {i \in Intents : SymbolOf(i) = s /\ Held(r.chain[i])}
      OBVIOUS
    <3>2. \A i, j \in h : i = j
      BY <3>1 DEF CommittedRows
    <3>3. CASE h = {}
      BY <3>1, <3>3, FS_EmptySet DEF CountOpenBySymbol
    <3>4. CASE h # {}
      <4>1. PICK i \in h : TRUE
        BY <3>4
      <4>2. h = {i}
        BY <3>2, <4>1
      <4>3. Cardinality(h) = 1
        BY <4>2, FS_Singleton
      <4>. QED
        BY <3>1, <4>3 DEF CountOpenBySymbol
    <3>. QED
      BY <3>3, <3>4
  <2>. QED
    BY <2>1 DEF CheckMultipleOpenPositions
<1>3. CheckIntentOrderFillChain(r) = {}
  <2>1. ASSUME NEW i \in Intents
        PROVE  /\ ~(r.chain[i].intent = "FILLED" /\ ~HasFills(r.chain[i]))
               /\ ~(HasFills(r.chain[i]) /\ r.chain[i].intent \notin TerminalRowStatuses)
               /\ ~(r.chain[i].order = "OPEN" /\ HasFills(r.chain[i]))
               /\ r.chain[i].intent # "EXPIRED"
    BY DEF CommittedRows, CommittedChain, HasFills, TerminalRowStatuses, TerminalIntentStatuses
  <2>. QED
    BY <2>1 DEF CheckIntentOrderFillChain
<1>4. CheckPositionReferences(r) = {}
  <2>1. ASSUME NEW i \in Intents
        PROVE  /\ ~(Held(r.chain[i]) /\ r.chain[i].intent = "ABSENT")
               /\ ~(Held(r.chain[i]) /\ (r.chain[i].intent = "ABSENT" \/ ~HasFills(r.chain[i])))
               /\ r.chain[i].position # "CLOSING"
               /\ ~(r.chain[i].exits > 0 /\ r.chain[i].position = "ABSENT")
               /\ ~(r.chain[i].entry /\ r.chain[i].order = "ABSENT")
               /\ ~(r.chain[i].entry /\ r.chain[i].order = "FILLED" /\ r.chain[i].position = "ABSENT")
    BY DEF CommittedRows, CommittedChain, HasFills, Held
  <2>2. CheckPositions(r) = {}
    BY <2>1 DEF CheckPositions
  <2>3. CheckFills(r) = {}
    BY <2>1 DEF CheckFills
  <2>. QED
    BY <2>2, <2>3 DEF CheckPositionReferences
<1>5. CheckStopInvariants(r) = {}
  BY DEF CheckStopInvariants, CommittedRows, CommittedChain
<1>6. CheckDuplicateFills(r) = {}
  BY DEF CheckDuplicateFills, CommittedRows, CommittedChain
<1>. QED
  BY <1>1, <1>2, <1>3, <1>4, <1>5, <1>6 DEF RunConsistencyChecks

\* reconstruct_wallet arrives at the cash of the wallet.
LEMMA WalletIsRebuilt ==
    ASSUME NEW t \in Tables, Sound(t), Balanced(t), NEW r, r = RowsOf(t)
    PROVE  VerifyAccountingIndependent(r)
<1>1. CommittedRows(r)
  BY RowsAreCommitted
<1>2. r.cash = t.cash /\ \A i \in Intents : r.chain[i].pnl = t.pnl[i]
                                           /\ r.chain[i].entry = (i \in t.entryFills)
                                           /\ r.chain[i].position = t.position[i].status
  BY DEF RowsOf, ChainOf
<1>3. {i \in Intents : r.chain[i].entry} = t.entryFills
  BY <1>2 DEF Tables
<1>4. PICK f \in [Intents -> Int] : f = t.pnl
  BY DEF Tables
<1>5. f = [i \in Intents |-> r.chain[i].pnl]
  BY <1>2, <1>4
<1>6. PICK x \in SUBSET Intents :
         x = {j \in Intents : r.chain[j].exits > 0 /\ r.chain[j].position # "ABSENT"}
  OBVIOUS
<1>7. \A i \in Intents \ x : f[i] = 0
  BY <1>1, <1>2, <1>4, <1>6 DEF CommittedRows, CommittedChain, Balanced
<1>8. SumOver(f, Intents) = SumOver(f, x)
  BY <1>7, IntentsFinite, SumNonzero
<1>9. ReconstructWallet(r) = InitialCash - EntryFee * Cardinality(t.entryFills) + SumOver(f, x)
  <2>1. ReconstructWallet(r) =
           InitialCash - EntryFee * Cardinality({i \in Intents : r.chain[i].entry})
             + SumOver([i \in Intents |-> r.chain[i].pnl],
                       {j \in Intents : r.chain[j].exits > 0 /\ r.chain[j].position # "ABSENT"})
    BY Zenon DEF ReconstructWallet, SumOver
  <2>. QED
    BY <1>3, <1>5, <1>6, <2>1
<1>10. r.cash = ReconstructWallet(r)
  BY <1>2, <1>4, <1>8, <1>9 DEF Balanced
<1>11. \A i \in Intents : PositionAccounts(r.chain[i])
  BY <1>1 DEF CommittedRows, CommittedChain, PositionAccounts
<1>. QED
  BY <1>1, <1>10, <1>11 DEF VerifyAccountingIndependent, CommittedRows

\* Whatever the worker has committed when it dies, for every number of trades, recovery
\* finds nothing in it and the books reconcile: an undamaged restart is never wedged
\* (run_consistency_checks, verify_accounting_independent).
THEOREM NeverWedged == Spec => []RestartNeverWedged
<1>1. BooksInv => RestartNeverWedged
  <2> SUFFICES ASSUME BooksInv PROVE RestartNeverWedged
    OBVIOUS
  <2>1. db \in Tables /\ Sound(db) /\ Balanced(db)
    BY DEF BooksInv, IInv, TypeOK
  <2>2. PICK r : r = RowsOf(db)
    OBVIOUS
  <2>3. RunConsistencyChecks(r) = {}
    BY <2>1, <2>2, RowsAreCommitted, ChecksFindNothing
  <2>4. VerifyAccountingIndependent(r)
    BY <2>1, <2>2, WalletIsRebuilt
  <2>. QED
    BY <2>2, <2>3, <2>4 DEF RestartNeverWedged
<1>. QED
  BY BooksInvariant, <1>1, PTL


--------------------------------------------------------------------------------
(* Recovery over damaged rows.                                                *)

\* Nothing is left for apply_auto_repairs.
Repaired(r) ==
    /\ r.runs = 0 /\ r.stale = FALSE
    /\ \A i \in Intents :
          EconomicChainConsistent(r, i) /\ r.chain[i].intent # "ABSENT" =>
             r.chain[i].order # "OPEN" /\ r.chain[i].intent \in TerminalRowStatuses

\* The second checks and the accounting have found nothing fatal and nothing manual.
Passed(r) ==
    \A x \in RunConsistencyChecks(r) \cup RunAccountingVerification(r) :
       x.severity \notin {"FATAL", "MANUAL"}

\* The inductive invariant of recovery.
RecoveryInv ==
    /\ rows \in Rows
    /\ step \in {"down", "repaired", "decided"}
    /\ step # "down" => Repaired(rows)
    /\ verdict = "READY" => step = "decided" /\ Passed(rows)

\* An issue that is to be repaired, and what it was found in.
AutoIssue(r, x) ==
    \/ x.code = "orphan_scheduler_run" /\ r.runs > 0
    \/ x.code = "stale_runtime_heartbeat" /\ r.stale
    \/ \E i \in Intents :
          /\ x.trade = i /\ EconomicChainConsistent(r, i) /\ r.chain[i].intent # "ABSENT"
          /\ \/ x.code = "filled_intent_without_status" /\ r.chain[i].intent \notin TerminalRowStatuses
             \/ x.code = "open_order_with_fill" /\ r.chain[i].order = "OPEN"

\* Every issue that is to be repaired has one of these origins.
LEMMA AutoOrigin ==
    ASSUME NEW r, NEW x \in RunConsistencyChecks(r), x.severity = "AUTO"
    PROVE  AutoIssue(r, x)
<1>1. CASE x \in CheckOrphanSchedulerRuns(r)
  BY <1>1 DEF CheckOrphanSchedulerRuns, Issue, AutoIssue
<1>2. CASE x \in CheckStaleHeartbeat(r)
  BY <1>2 DEF CheckStaleHeartbeat, Issue, AutoIssue
<1>3. CASE x \in CheckMultipleOpenPositions(r)
  BY <1>3 DEF CheckMultipleOpenPositions, Issue
<1>4. CASE x \in CheckIntentOrderFillChain(r)
  <2>1. \/ \E i \in Intents : x = Issue("filled_intent_without_fill", "MANUAL", i)
        \/ \E i \in Intents : /\ x = FillUnknown(r, i, "filled_intent_without_status")
                              /\ r.chain[i].intent # "ABSENT"
                              /\ r.chain[i].intent \notin TerminalRowStatuses
        \/ \E i \in Intents : /\ x = FillUnknown(r, i, "open_order_with_fill")
                              /\ r.chain[i].intent # "ABSENT" /\ r.chain[i].order = "OPEN"
        \/ \E i \in Intents : x = Issue("terminal_intent_without_order", "MANUAL", i)
    BY <1>4 DEF CheckIntentOrderFillChain
  <2>2. ASSUME NEW i \in Intents, NEW code, x = FillUnknown(r, i, code)
        PROVE  EconomicChainConsistent(r, i) /\ x.code = code /\ x.trade = i
    BY <2>2 DEF FillUnknown, Issue
  <2>3. ASSUME NEW i, NEW code PROVE x # Issue(code, "MANUAL", i)
    BY DEF Issue
  <2>. QED
    BY <2>1, <2>2, <2>3 DEF AutoIssue
<1>5. CASE x \in CheckPositionReferences(r)
  BY <1>5 DEF CheckPositionReferences, CheckPositions, CheckFills, Issue
<1>6. CASE x \in CheckStopInvariants(r)
  BY <1>6 DEF CheckStopInvariants, Issue
<1>7. CASE x \in CheckDuplicateFills(r)
  BY <1>7 DEF CheckDuplicateFills, Issue
<1>. QED
  BY <1>1, <1>2, <1>3, <1>4, <1>5, <1>6, <1>7 DEF RunConsistencyChecks

\* What the checks report of one trade whose rows do not know of the fill.
LEMMA FillIsReported ==
    ASSUME NEW r, NEW i \in Intents, r.chain[i].intent # "ABSENT", HasFills(r.chain[i])
    PROVE  /\ r.chain[i].intent \notin TerminalRowStatuses =>
                 FillUnknown(r, i, "filled_intent_without_status") \in RunConsistencyChecks(r)
           /\ r.chain[i].order = "OPEN" =>
                 FillUnknown(r, i, "open_order_with_fill") \in RunConsistencyChecks(r)
<1>1. /\ r.chain[i].intent \notin TerminalRowStatuses =>
            FillUnknown(r, i, "filled_intent_without_status") \in CheckIntentOrderFillChain(r)
      /\ r.chain[i].order = "OPEN" =>
            FillUnknown(r, i, "open_order_with_fill") \in CheckIntentOrderFillChain(r)
  BY DEF CheckIntentOrderFillChain
<1>. QED
  BY <1>1 DEF RunConsistencyChecks


\* A chain that the repairs may change only in its two statuses.
LEMMA RepairedChainIs ==
    ASSUME NEW r \in Rows, NEW i \in Intents, NEW found, NEW c, c = RepairedChain(r, i, found)
    PROVE  /\ c \in Chain
           /\ c.entry = r.chain[i].entry /\ c.position = r.chain[i].position
           /\ c.agrees = r.chain[i].agrees
           /\ c.order \in {r.chain[i].order, "FILLED"}
           /\ c.intent \in {r.chain[i].intent, "FILLED"}
<1>1. PICK b \in Chain : b = r.chain[i]
  BY DEF Rows
<1>2. PICK o \in {b.order, "FILLED"}, n \in {b.intent, "FILLED"} :
         c = [b EXCEPT !.order = o, !.intent = n]
  BY <1>1 DEF RepairedChain
<1>3. o \in OrderStatus /\ n \in RowStatus
  BY <1>2 DEF Chain, OrderStatus, RowStatus, IntentStatus
<1>. QED
  BY <1>1, <1>2, <1>3 DEF Chain


\* A status is written for a consistent economic chain, when the issue was found.
LEMMA RepairedWhen ==
    ASSUME NEW r \in Rows, NEW i \in Intents, NEW c,
           c = RepairedChain(r, i, RunConsistencyChecks(r))
    PROVE  /\ c.order # r.chain[i].order => EconomicChainConsistent(r, i)
           /\ c.intent # r.chain[i].intent =>
                 EconomicChainConsistent(r, i) /\ r.chain[i].intent # "ABSENT"
           /\ EconomicChainConsistent(r, i) /\ r.chain[i].intent # "ABSENT" =>
                 c.order # "OPEN" /\ c.intent \in TerminalRowStatuses
<1>1. PICK b \in Chain : b = r.chain[i]
  BY DEF Rows
<1>2. PICK found : found = RunConsistencyChecks(r)
  OBVIOUS
<1> DEFINE Named(code) == \E x \in found : x.code = code /\ x.severity = "AUTO" /\ x.trade = i
           Sane == EconomicChainConsistent(r, i)
<1>3. c = [b EXCEPT !.order  = IF Named("open_order_with_fill") /\ Sane THEN "FILLED" ELSE @,
                    !.intent = IF Named("filled_intent_without_status") /\ Sane
                               THEN "FILLED" ELSE @]
  BY <1>1, <1>2 DEF RepairedChain
<1>4. Named("filled_intent_without_status") => b.intent # "ABSENT"
  <2> SUFFICES ASSUME NEW x \in found, x.code = "filled_intent_without_status",
                      x.severity = "AUTO", x.trade = i
               PROVE  b.intent # "ABSENT"
    OBVIOUS
  <2>1. AutoIssue(r, x)
    BY <1>2, AutoOrigin
  <2>. QED
    BY <1>1, <2>1 DEF AutoIssue
<1>5. ASSUME Sane, b.intent # "ABSENT"
      PROVE  /\ b.order = "OPEN" => Named("open_order_with_fill")
             /\ b.intent \notin TerminalRowStatuses => Named("filled_intent_without_status")
  <2>1. HasFills(b)
    BY <1>1, <1>5 DEF EconomicChainConsistent
  <2>2. ASSUME NEW code, FillUnknown(r, i, code) \in found PROVE Named(code)
    <3>1. PICK x \in found : x = Issue(code, "AUTO", i)
      BY <1>5, <2>2 DEF FillUnknown
    <3>2. x.code = code /\ x.severity = "AUTO" /\ x.trade = i
      BY <3>1 DEF Issue
    <3>. QED
      BY <3>2
  <2>3. /\ b.intent \notin TerminalRowStatuses =>
              FillUnknown(r, i, "filled_intent_without_status") \in found
        /\ b.order = "OPEN" => FillUnknown(r, i, "open_order_with_fill") \in found
    BY <1>1, <1>2, <1>5, <2>1, FillIsReported
  <2> HIDE DEF Named
  <2>. QED
    BY <2>2, <2>3
<1> HIDE DEF Named
<1>6. /\ c.order = IF Named("open_order_with_fill") /\ Sane THEN "FILLED" ELSE b.order
      /\ c.intent = IF Named("filled_intent_without_status") /\ Sane THEN "FILLED" ELSE b.intent
  BY <1>3 DEF Chain
<1>7. "FILLED" \in TerminalRowStatuses
  BY DEF TerminalRowStatuses, TerminalIntentStatuses
<1>. QED
  BY <1>1, <1>4, <1>5, <1>6, <1>7

\* One pass of the repairs leaves nothing to repair.
LEMMA RepairsAreComplete ==
    ASSUME NEW r \in Rows, NEW u, u = ApplyAutoRepairs(r, RunConsistencyChecks(r))
    PROVE  u \in Rows /\ Repaired(u)
<1>1. PICK found : found = RunConsistencyChecks(r)
  OBVIOUS
<1>2. /\ r.runs > 0 => Issue("orphan_scheduler_run", "AUTO", Nobody) \in found
      /\ r.stale => Issue("stale_runtime_heartbeat", "AUTO", Nobody) \in found
  BY <1>1 DEF RunConsistencyChecks, CheckOrphanSchedulerRuns, CheckStaleHeartbeat
<1>3. /\ r.runs > 0 => \E x \in found : x.code = "orphan_scheduler_run"
      /\ r.stale => \E x \in found : x.code = "stale_runtime_heartbeat"
  BY <1>2 DEF Issue
<1>4. /\ u.runs = IF \E x \in found : x.code = "orphan_scheduler_run" THEN 0 ELSE r.runs
      /\ u.stale = IF \E x \in found : x.code = "stale_runtime_heartbeat" THEN FALSE ELSE r.stale
      /\ u.chain = [i \in Intents |-> RepairedChain(r, i, found)]
      /\ u.wallet = r.wallet /\ u.cash = r.cash
      /\ u = [chain |-> u.chain, cash |-> u.cash, wallet |-> u.wallet, runs |-> u.runs,
              stale |-> u.stale]
  BY <1>1 DEF ApplyAutoRepairs, Rows
<1>5. u.runs = 0 /\ u.stale = FALSE
  BY <1>3, <1>4 DEF Rows
<1>6. ASSUME NEW i \in Intents
      PROVE  u.chain[i] = RepairedChain(r, i, RunConsistencyChecks(r))
  BY <1>1, <1>4
<1>7. u \in Rows
  <2>1. \A i \in Intents : u.chain[i] \in Chain
    BY <1>6, RepairedChainIs
  <2>2. u.chain \in [Intents -> Chain]
    BY <1>4, <2>1
  <2>3. u.cash \in Int /\ u.wallet \in BOOLEAN
    BY <1>4 DEF Rows
  <2>4. u.runs \in Nat /\ u.stale \in BOOLEAN
    <3>1. u.runs = 0
      BY <1>5
    <3>2. u.stale = FALSE
      BY <1>5
    <3>3. u.stale \in BOOLEAN
      BY <3>2, Zenon
    <3>. QED
      BY <3>1, <3>3
  <2>5. u = [chain |-> u.chain, cash |-> u.cash, wallet |-> u.wallet, runs |-> u.runs,
             stale |-> u.stale]
    BY <1>4
  <2>. QED
    BY <2>2, <2>3, <2>4, <2>5, Zenon DEF Rows
<1>8. ASSUME NEW i \in Intents, EconomicChainConsistent(u, i), u.chain[i].intent # "ABSENT"
      PROVE  u.chain[i].order # "OPEN" /\ u.chain[i].intent \in TerminalRowStatuses
  <2>1. PICK c : c = u.chain[i]
    OBVIOUS
  <2>2. /\ c.entry = r.chain[i].entry /\ c.position = r.chain[i].position
        /\ c.agrees = r.chain[i].agrees
    BY <1>6, <2>1, RepairedChainIs
  <2>3. /\ c.order # r.chain[i].order => EconomicChainConsistent(r, i)
        /\ c.intent # r.chain[i].intent =>
              EconomicChainConsistent(r, i) /\ r.chain[i].intent # "ABSENT"
        /\ EconomicChainConsistent(r, i) /\ r.chain[i].intent # "ABSENT" =>
              c.order # "OPEN" /\ c.intent \in TerminalRowStatuses
    BY <1>6, <2>1, RepairedWhen
  <2>4. EconomicChainConsistent(r, i)
    BY <1>4, <1>8, <2>1, <2>2, <2>3 DEF EconomicChainConsistent, HasFills, Held
  <2>5. r.chain[i].intent # "ABSENT"
    BY <1>8, <2>1, <2>3
  <2>. QED
    BY <2>1, <2>3, <2>4, <2>5
<1>. QED
  BY <1>5, <1>7, <1>8 DEF Repaired

\* ... and a second pass writes nothing.
LEMMA RepairedStays ==
    ASSUME NEW r \in Rows, Repaired(r)
    PROVE  /\ \A x \in RunConsistencyChecks(r) : x.severity # "AUTO"
           /\ ApplyAutoRepairs(r, RunConsistencyChecks(r)) = r
<1>1. PICK found : found = RunConsistencyChecks(r)
  OBVIOUS
<1>2. ASSUME NEW x \in found PROVE x.severity # "AUTO"
  <2> SUFFICES ASSUME x.severity = "AUTO" PROVE FALSE
    OBVIOUS
  <2>1. AutoIssue(r, x)
    BY <1>1, AutoOrigin
  <2>. QED
    BY <2>1 DEF AutoIssue, Repaired
<1>3. ASSUME NEW i \in Intents PROVE RepairedChain(r, i, found) = r.chain[i]
  <2>1. PICK b \in Chain : b = r.chain[i]
    BY DEF Rows
  <2>2. RepairedChain(r, i, found) = [b EXCEPT !.order = b.order, !.intent = b.intent]
    BY <1>2, <2>1 DEF RepairedChain
  <2>3. [b EXCEPT !.order = b.order, !.intent = b.intent] = b
    BY DEF Chain
  <2>. QED
    BY <2>1, <2>2, <2>3
<1>4. [i \in Intents |-> RepairedChain(r, i, found)] = r.chain
  BY <1>3 DEF Rows
<1>5. ApplyAutoRepairs(r, found) = [r EXCEPT !.runs = 0, !.stale = FALSE, !.chain = r.chain]
  BY <1>4 DEF ApplyAutoRepairs, Repaired
<1>6. [r EXCEPT !.runs = 0, !.stale = FALSE, !.chain = r.chain] = r
  BY DEF Repaired, Rows
<1>. QED
  BY <1>1, <1>2, <1>5, <1>6


\* What each check reports: one line per issue that the trading of READY rows rests on.
LEMMA Reported ==
    ASSUME NEW r, NEW i \in Intents
    PROVE  /\ Held(r.chain[i]) /\ r.chain[i].intent = "ABSENT" =>
                 Issue("position_without_entry_intent", "FATAL", i) \in RunConsistencyChecks(r)
           /\ Held(r.chain[i]) /\ ~HasFills(r.chain[i]) =>
                 Issue("position_without_entry_fill", "FATAL", i) \in RunConsistencyChecks(r)
           /\ r.chain[i].position = "CLOSING" =>
                 Issue("closing_position_pending_exit", "MANUAL", i) \in RunConsistencyChecks(r)
           /\ r.chain[i].entry /\ r.chain[i].order = "ABSENT" =>
                 Issue("entry_fill_without_order", "FATAL", i) \in RunConsistencyChecks(r)
           /\ r.chain[i].entry /\ r.chain[i].order = "FILLED" /\ r.chain[i].position = "ABSENT" =>
                 Issue("fill_without_position", "FATAL", i) \in RunConsistencyChecks(r)
<1>1. /\ Held(r.chain[i]) /\ r.chain[i].intent = "ABSENT" =>
            Issue("position_without_entry_intent", "FATAL", i) \in CheckPositions(r)
      /\ Held(r.chain[i]) /\ ~HasFills(r.chain[i]) =>
            Issue("position_without_entry_fill", "FATAL", i) \in CheckPositions(r)
      /\ r.chain[i].position = "CLOSING" =>
            Issue("closing_position_pending_exit", "MANUAL", i) \in CheckPositions(r)
  BY DEF CheckPositions
<1>2. /\ r.chain[i].entry /\ r.chain[i].order = "ABSENT" =>
            Issue("entry_fill_without_order", "FATAL", i) \in CheckFills(r)
      /\ r.chain[i].entry /\ r.chain[i].order = "FILLED" /\ r.chain[i].position = "ABSENT" =>
            Issue("fill_without_position", "FATAL", i) \in CheckFills(r)
  BY DEF CheckFills
<1>. QED
  BY <1>1, <1>2 DEF RunConsistencyChecks, CheckPositionReferences

\* Rows that are repaired and passed can be traded on.
LEMMA PassedIsTradable ==
    ASSUME NEW r \in Rows, Repaired(r), Passed(r)
    PROVE  /\ \A i \in Intents :
                 /\ r.chain[i].intent \in NonterminalIntentStatuses => ~r.chain[i].entry
                 /\ Held(r.chain[i]) => /\ r.chain[i].intent # "ABSENT" /\ r.chain[i].entry
                                        /\ r.chain[i].margin /\ r.chain[i].position = "OPEN"
                 /\ r.chain[i].order = "FILLED" /\ r.chain[i].entry =>
                       r.chain[i].position # "ABSENT"
           /\ r.cash = ReconstructWallet(r)
<1>1. VerifyAccountingIndependent(r)
  <2> SUFFICES ASSUME ~VerifyAccountingIndependent(r) PROVE FALSE
    OBVIOUS
  <2>1. Issue("accounting_reconciliation_mismatch", "MANUAL", Nobody)
           \in RunAccountingVerification(r)
    BY DEF RunAccountingVerification
  <2>. QED
    BY <2>1 DEF Passed, Issue
<1>2. ASSUME NEW code, NEW i PROVE /\ Issue(code, "FATAL", i) \notin RunConsistencyChecks(r)
                                   /\ Issue(code, "MANUAL", i) \notin RunConsistencyChecks(r)
                                   /\ Issue(code, "AUTO", i) \notin RunConsistencyChecks(r)
  <2>1. ASSUME NEW x \in RunConsistencyChecks(r)
        PROVE  x.severity \notin {"FATAL", "MANUAL", "AUTO"}
    BY RepairedStays DEF Passed
  <2>. QED
    BY <2>1 DEF Issue
<1>3. ASSUME NEW i \in Intents, r.chain[i].intent \in NonterminalIntentStatuses
      PROVE  ~r.chain[i].entry
  <2> SUFFICES ASSUME r.chain[i].entry PROVE FALSE
    OBVIOUS
  <2>1. r.chain[i].order # "ABSENT"
    BY <1>2, Reported
  <2>2. HasFills(r.chain[i])
    BY <2>1 DEF HasFills
  <2>3. r.chain[i].intent # "ABSENT" /\ r.chain[i].intent \notin TerminalRowStatuses
    BY <1>3 DEF NonterminalIntentStatuses, TerminalRowStatuses, TerminalIntentStatuses
  <2>4. FillUnknown(r, i, "filled_intent_without_status") \in RunConsistencyChecks(r)
    BY <2>2, <2>3, FillIsReported
  <2>. QED
    BY <1>2, <2>4 DEF FillUnknown
<1>4. ASSUME NEW i \in Intents, Held(r.chain[i])
      PROVE  /\ r.chain[i].intent # "ABSENT" /\ r.chain[i].entry
             /\ r.chain[i].margin /\ r.chain[i].position = "OPEN"
  <2>1. r.chain[i].intent # "ABSENT" /\ HasFills(r.chain[i]) /\ r.chain[i].position # "CLOSING"
    BY <1>2, <1>4, Reported
  <2>2. r.chain[i].position = "OPEN" /\ r.chain[i].entry
    BY <1>4, <2>1 DEF Held, HasFills
  <2>3. r.chain[i].margin
    BY <1>1, <2>2 DEF VerifyAccountingIndependent, PositionAccounts
  <2>. QED
    BY <2>1, <2>2, <2>3
<1>5. ASSUME NEW i \in Intents, r.chain[i].order = "FILLED", r.chain[i].entry
      PROVE  r.chain[i].position # "ABSENT"
  BY <1>2, <1>5, Reported
<1>6. r.cash = ReconstructWallet(r)
  BY <1>1 DEF VerifyAccountingIndependent
<1>. QED
  BY <1>3, <1>4, <1>5, <1>6


\* The reconstructed wallet is a number.
LEMMA ReconstructedType ==
    ASSUME NEW r, r.chain \in [Intents -> Chain]
    PROVE  ReconstructWallet(r) \in Int
<1>1. PICK f \in [Intents -> Int] : f = [i \in Intents |-> r.chain[i].pnl]
  BY DEF Chain
<1>2. PICK x \in SUBSET Intents :
         x = {j \in Intents : r.chain[j].exits > 0 /\ r.chain[j].position # "ABSENT"}
  OBVIOUS
<1>3. PICK e \in SUBSET Intents : e = {i \in Intents : r.chain[i].entry}
  OBVIOUS
<1>4. PICK sum \in Int : sum = SumOver(f, x)
  BY IntentsFinite, SumLaws
<1>5. PICK n \in Nat : n = Cardinality(e)
  BY IntentsFinite, FS_Subset, FS_CardinalityType
<1>6. ReconstructWallet(r) =
         InitialCash - EntryFee * Cardinality({i \in Intents : r.chain[i].entry})
           + SumOver([i \in Intents |-> r.chain[i].pnl],
                     {j \in Intents : r.chain[j].exits > 0 /\ r.chain[j].position # "ABSENT"})
  BY Zenon DEF ReconstructWallet, SumOver
<1>7. ReconstructWallet(r) = InitialCash - EntryFee * n + sum
  BY <1>1, <1>2, <1>3, <1>4, <1>5, <1>6
<1>8. EntryFee * n \in Int /\ InitialCash \in Int
  BY LifecycleConstants
<1>. QED
  BY <1>7, <1>8

\* The trade without rows is typed.
LEMMA NoChainType == NoChain \in Chain
<1>1. 0 \in Int /\ 0 \in Nat
  OBVIOUS
<1>2. TRUE \in BOOLEAN /\ FALSE \in BOOLEAN /\ {} \in SUBSET StopFaults
  OBVIOUS
<1>3. "ABSENT" \in RowStatus /\ "ABSENT" \in OrderStatus /\ "ABSENT" \in PositionStatus
  BY DEF RowStatus, IntentStatus, OrderStatus, PositionStatus
<1>. QED
  BY <1>1, <1>2, <1>3 DEF NoChain, Chain

\* The trades that a worker leaves are typed.
LEMMA SoundChainsType == SoundChains \subseteq Chain
<1> SUFFICES ASSUME NEW c \in SoundChains PROVE c \in Chain
  OBVIOUS
<1>1. PICK n \in Chain : n = NoChain
  BY NoChainType
<1>2. PICK filled : filled = [n EXCEPT !.intent = "FILLED", !.order = "FILLED", !.entry = TRUE]
  OBVIOUS
<1>3. filled \in Chain
  BY <1>1, <1>2 DEF Chain, RowStatus, IntentStatus, OrderStatus
<1>4. \/ c = n
      \/ \E st \in {"SCHEDULED", "REJECTED", "CANCELLED"} : c = [n EXCEPT !.intent = st]
      \/ c = [filled EXCEPT !.position = "OPEN", !.margin = TRUE]
      \/ \E d \in ExitDeltas :
            c = [filled EXCEPT !.position = "CLOSED", !.exits = 1, !.pnl = d, !.realized = d]
  BY <1>1, <1>2 DEF SoundChains
<1>5. CASE \E st \in {"SCHEDULED", "REJECTED", "CANCELLED"} : c = [n EXCEPT !.intent = st]
  BY <1>5 DEF Chain, RowStatus, IntentStatus
<1>6. CASE c = [filled EXCEPT !.position = "OPEN", !.margin = TRUE]
  BY <1>3, <1>6 DEF Chain, PositionStatus
<1>7. CASE \E d \in ExitDeltas :
             c = [filled EXCEPT !.position = "CLOSED", !.exits = 1, !.pnl = d, !.realized = d]
  <2>1. PICK d \in Int :
           c = [filled EXCEPT !.position = "CLOSED", !.exits = 1, !.pnl = d, !.realized = d]
    BY <1>7, LifecycleConstants
  <2>. QED
    BY <1>3, <2>1 DEF Chain, PositionStatus
<1>. QED
  BY <1>4, <1>5, <1>6, <1>7

\* Damaged rows are rows that PostgreSQL can hold.
LEMMA DamagedType ==
    ASSUME NEW c \in Chain
    PROVE  Damaged(c) \subseteq Chain
<1> SUFFICES ASSUME NEW x \in Damaged(c) PROVE x \in Chain
  OBVIOUS
<1>1. \/ \E st \in {"SCHEDULED", "CANCELLED", "EXPIRED", "FILLED"} : x = [c EXCEPT !.intent = st]
      \/ \E st \in {"OPEN", "CANCELLED", "ABSENT"} : x = [c EXCEPT !.order = st]
      \/ x = [c EXCEPT !.entry = FALSE]
      \/ \E p \in {"ABSENT", "OPEN", "CLOSING", "CLOSED"} : x = [c EXCEPT !.position = p]
      \/ x = [c EXCEPT !.exits = 0]
      \/ x = [c EXCEPT !.agrees = FALSE]
      \/ x = [c EXCEPT !.margin = ~c.margin]
      \/ x = [c EXCEPT !.realized = c.realized + 1]
      \/ x = [c EXCEPT !.stopFaults = c.stopFaults \cup {"highest_close_below_entry"}]
  BY DEF Damaged
<1>2. CASE \E st \in {"SCHEDULED", "CANCELLED", "EXPIRED", "FILLED"} : x = [c EXCEPT !.intent = st]
  BY <1>2 DEF Chain, RowStatus, IntentStatus
<1>3. CASE \E st \in {"OPEN", "CANCELLED", "ABSENT"} : x = [c EXCEPT !.order = st]
  BY <1>3 DEF Chain, OrderStatus
<1>4. CASE x = [c EXCEPT !.entry = FALSE] \/ x = [c EXCEPT !.agrees = FALSE]
  BY <1>4 DEF Chain
<1>5. CASE \E p \in {"ABSENT", "OPEN", "CLOSING", "CLOSED"} : x = [c EXCEPT !.position = p]
  BY <1>5 DEF Chain, PositionStatus
<1>6. CASE x = [c EXCEPT !.exits = 0]
  BY <1>6 DEF Chain
<1>7. CASE x = [c EXCEPT !.margin = ~c.margin]
  <2>1. PICK m \in BOOLEAN : x = [c EXCEPT !.margin = m]
    BY <1>7
  <2>. QED
    BY <2>1 DEF Chain
<1>8. CASE x = [c EXCEPT !.realized = c.realized + 1]
  <2>1. PICK m \in Int : x = [c EXCEPT !.realized = m]
    BY <1>8 DEF Chain
  <2>. QED
    BY <2>1 DEF Chain
<1>9. CASE x = [c EXCEPT !.stopFaults = c.stopFaults \cup {"highest_close_below_entry"}]
  <2>1. PICK m \in SUBSET StopFaults : x = [c EXCEPT !.stopFaults = m]
    BY <1>9 DEF Chain, StopFaults
  <2>. QED
    BY <2>1 DEF Chain
<1>. QED
  BY <1>1, <1>2, <1>3, <1>4, <1>5, <1>6, <1>7, <1>8, <1>9


\* The rows at the start satisfy the invariant.
LEMMA InitRecovery == RecoveryInit => RecoveryInv
<1> SUFFICES ASSUME RecoveryInit PROVE RecoveryInv
  OBVIOUS
<1>1. PICK ch \in [Restored -> SoundChains], n \in 0 .. MaxRuns, late \in BOOLEAN :
         LET r == [chain |-> [i \in Intents |-> IF i \in Restored THEN ch[i] ELSE NoChain],
                   cash |-> 0, wallet |-> TRUE, runs |-> n, stale |-> late]
         IN  rows = [r EXCEPT !.cash = ReconstructWallet(r)]
  BY DEF RecoveryInit
<1>2. PICK r : r = [chain |-> [i \in Intents |-> IF i \in Restored THEN ch[i] ELSE NoChain],
                    cash |-> 0, wallet |-> TRUE, runs |-> n, stale |-> late]
  OBVIOUS
<1>3. [i \in Intents |-> IF i \in Restored THEN ch[i] ELSE NoChain] \in [Intents -> Chain]
  <2>1. \A i \in Restored : ch[i] \in Chain
    BY SoundChainsType
  <2>. QED
    BY <2>1, NoChainType
<1>4. r.chain \in [Intents -> Chain]
  BY <1>2, <1>3
<1>5. n \in Nat /\ TRUE \in BOOLEAN
  BY RecoveryConstants
<1>6. PICK cash \in Int : cash = ReconstructWallet(r)
  BY <1>4, ReconstructedType
<1>7. rows = [chain |-> r.chain, cash |-> cash, wallet |-> TRUE, runs |-> n, stale |-> late]
  BY <1>1, <1>2, <1>6
<1>8. rows \in Rows
  BY <1>4, <1>5, <1>7 DEF Rows
<1>9. step = "down" /\ verdict = "none"
  BY DEF RecoveryInit
<1>. QED
  BY <1>8, <1>9 DEF RecoveryInv

\* Every step keeps the invariant.
LEMMA NextRecovery == RecoveryInv /\ [RecoveryNext]_recVars => RecoveryInv'
<1> SUFFICES ASSUME RecoveryInv, [RecoveryNext]_recVars PROVE RecoveryInv'
  OBVIOUS
<1>0. /\ rows \in Rows /\ step \in {"down", "repaired", "decided"}
      /\ step # "down" => Repaired(rows)
      /\ verdict = "READY" => step = "decided" /\ Passed(rows)
  BY DEF RecoveryInv
<1>1. ASSUME NEW i \in Restored, DamageRow(i) PROVE RecoveryInv'
  <2>1. i \in Intents
    BY RecoveryConstants
  <2>2. rows.chain[i] \in Chain
    BY <1>0, <2>1 DEF Rows
  <2>3. PICK c \in Chain : rows' = [rows EXCEPT !.chain[i] = c]
    BY <1>1, <2>2, DamagedType DEF DamageRow
  <2>4. rows' \in Rows
    <3>1. PICK ch \in [Intents -> Chain] : ch = [rows.chain EXCEPT ![i] = c]
      BY <1>0, <2>1 DEF Rows
    <3>2. rows' = [rows EXCEPT !.chain = ch]
      BY <2>3, <3>1
    <3>. QED
      BY <1>0, <3>2 DEF Rows
  <2>5. step = "down" /\ step' = step /\ verdict' = verdict
    BY <1>1 DEF DamageRow
  <2>. QED
    BY <1>0, <2>4, <2>5 DEF RecoveryInv
<1>2. ASSUME DamageWallet PROVE RecoveryInv'
  <2>1. rows' \in Rows
    <3>1. CASE rows' = [rows EXCEPT !.wallet = FALSE]
      BY <1>0, <3>1 DEF Rows
    <3>2. CASE rows' = [rows EXCEPT !.cash = rows.cash + 1]
      BY <1>0, <3>2 DEF Rows
    <3>. QED
      BY <1>2, <3>1, <3>2 DEF DamageWallet
  <2>2. step = "down" /\ step' = step /\ verdict' = verdict
    BY <1>2 DEF DamageWallet
  <2>. QED
    BY <1>0, <2>1, <2>2 DEF RecoveryInv
<1>3. ASSUME Repair PROVE RecoveryInv'
  <2>1. /\ rows' = ApplyAutoRepairs(rows, RunConsistencyChecks(rows))
        /\ step = "down" /\ step' = "repaired" /\ verdict' = verdict
    BY <1>3 DEF Repair
  <2>2. rows' \in Rows /\ Repaired(rows')
    BY <1>0, <2>1, RepairsAreComplete
  <2>3. verdict' # "READY"
    BY <1>0, <2>1
  <2>. QED
    BY <2>1, <2>2, <2>3 DEF RecoveryInv
<1>4. ASSUME Die PROVE RecoveryInv'
  <2>1. rows' = rows /\ step' = "down" /\ verdict' = "none"
    BY <1>4 DEF Die
  <2>. QED
    BY <1>0, <2>1 DEF RecoveryInv
<1>5. ASSUME NEW ok \in BOOLEAN, Decide(ok) PROVE RecoveryInv'
  <2>1. /\ rows' = rows /\ step = "repaired" /\ step' = "decided"
        /\ verdict' = VerdictOf(RunConsistencyChecks(rows) \cup RunAccountingVerification(rows), ok)
    BY <1>5 DEF Decide
  <2>2. verdict' = "READY" => Passed(rows)
    BY <2>1 DEF VerdictOf, Passed
  <2>3. Repaired(rows') /\ (verdict' = "READY" => Passed(rows'))
    BY <1>0, <2>1, <2>2
  <2>. QED
    BY <1>0, <2>1, <2>3 DEF RecoveryInv
<1>6. ASSUME UNCHANGED recVars PROVE RecoveryInv'
  <2>1. rows' = rows /\ step' = step /\ verdict' = verdict
    BY <1>6 DEF recVars
  <2>. QED
    BY <1>0, <2>1 DEF RecoveryInv
<1>. QED
  BY <1>1, <1>2, <1>3, <1>4, <1>5, <1>6 DEF RecoveryNext

\* The inductive invariant of recovery holds in every reachable state.
THEOREM RecoveryInvariant == RecoverySpec => []RecoveryInv
BY InitRecovery, NextRecovery, PTL DEF RecoverySpec

\* For every set of trades and every number of damaged rows, one pass of the repairs
\* repairs all that is repairable, a second start repairs nothing more, and READY is
\* declared only over rows that can be traded on (recover_on_startup).
THEOREM RecoverySafe == RecoverySpec => []RecoveryIsSafe
<1>1. RecoveryInv => RecoveryIsSafe
  <2> SUFFICES ASSUME RecoveryInv PROVE RecoveryIsSafe
    OBVIOUS
  <2>1. /\ rows \in Rows /\ step \in {"down", "repaired", "decided"}
        /\ step # "down" => Repaired(rows)
        /\ verdict = "READY" => step = "decided" /\ Passed(rows)
    BY DEF RecoveryInv
  <2>2. PICK r \in Rows : r = rows
    BY <2>1
  <2>3. RepairsConverge
    <3> SUFFICES ASSUME step \in {"repaired", "decided"}
                 PROVE  /\ \A x \in RunConsistencyChecks(rows) : x.severity # "AUTO"
                        /\ ApplyAutoRepairs(rows, RunConsistencyChecks(rows)) = rows
      BY DEF RepairsConverge
    <3>1. Repaired(r)
      BY <2>1, <2>2
    <3>. QED
      BY <2>2, <3>1, RepairedStays
  <2>4. ReadyRowsAreTradable
    <3> SUFFICES ASSUME verdict = "READY"
                 PROVE  /\ \A i \in Intents :
                              LET c == rows.chain[i]
                              IN  /\ c.intent \in NonterminalIntentStatuses => ~c.entry
                                  /\ Held(c) => c.intent # "ABSENT" /\ c.entry /\ c.margin
                                                /\ c.position = "OPEN"
                                  /\ c.order = "FILLED" /\ c.entry => c.position # "ABSENT"
                        /\ rows.cash = ReconstructWallet(rows)
      BY DEF ReadyRowsAreTradable
    <3>1. Repaired(r) /\ Passed(r)
      BY <2>1, <2>2
    <3>. QED
      BY <2>2, <3>1, PassedIsTradable
  <2>. QED
    BY <2>3, <2>4 DEF RecoveryIsSafe
<1>. QED
  BY RecoveryInvariant, <1>1, PTL

================================================================================
