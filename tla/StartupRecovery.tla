-------------------------- MODULE StartupRecovery --------------------------
(***************************************************************************)
(* The consistency checks, the automatic repairs and the wallet             *)
(* reconstruction of a starting worker (paper_trading/recovery.py and       *)
(* accounting_verification.py), over the rows that PaperLifecycle writes.   *)
(*                                                                          *)
(* One trade is one chain of rows: intent, order, entry fill, position and  *)
(* exit fill, named by its entry intent.  The rows may have been damaged    *)
(* while the worker was down (a table restored from an older backup, a row  *)
(* lost or edited by hand), as far as the constraints of db/orm.py let      *)
(* PostgreSQL hold them.  The status transitions around the checks are in   *)
(* WorkerRuntime, which takes the verdict from here.                        *)
(***************************************************************************)
EXTENDS PaperLifecycle, FiniteSetsExt

CONSTANTS Restored,     \* the trades whose rows the stopped worker has left
          MaxDamage,    \* bound: rows damaged while the worker is down
          MaxRuns       \* bound: RUNNING scheduler runs left behind

ASSUME RecoveryConstants ==
    Restored \subseteq Intents /\ MaxDamage \in Nat /\ MaxRuns \in Nat

RowStatus == IntentStatus \cup {"EXPIRED"}
OrderStatus == {"ABSENT", "OPEN", "FILLED", "CANCELLED"}
PositionStatus == {"ABSENT", "OPEN", "CLOSING", "CLOSED"}
TerminalRowStatuses == TerminalIntentStatuses \cup {"EXPIRED"}

\* What _check_stop_invariants looks for in one position and its stop history.
StopFaults == {"current_stop_below_initial", "highest_close_below_entry", "invalid_stop_history"}

(* The rows of one trade.  `agrees': the position's quantity and average     *)
(* entry price are the entry fill's; `margin': margin_reserved is positive;  *)
(* `realized': the position's realized_pnl.                                  *)
Chain ==
    [intent : RowStatus, order : OrderStatus, entry : BOOLEAN, position : PositionStatus,
     agrees : BOOLEAN, margin : BOOLEAN, realized : Int, exits : Nat, pnl : Int,
     stopFaults : SUBSET StopFaults]

Rows == [chain : [Intents -> Chain], cash : Int, wallet : BOOLEAN, runs : Nat, stale : BOOLEAN]

NoChain ==
    [intent |-> "ABSENT", order |-> "ABSENT", entry |-> FALSE, position |-> "ABSENT",
     agrees |-> TRUE, margin |-> FALSE, realized |-> 0, exits |-> 0, pnl |-> 0,
     stopFaults |-> {}]

\* The chain of rows that the tables of PaperLifecycle hold for a trade.
ChainOf(t, i) ==
    [intent     |-> t.intent[i],
     order      |-> IF i \in t.orders THEN "FILLED" ELSE "ABSENT",
     entry      |-> i \in t.entryFills,
     position   |-> t.position[i].status,
     agrees     |-> TRUE,
     margin     |-> Open(t, i),
     realized   |-> t.pnl[i],
     exits      |-> t.exitFills[i],
     pnl        |-> t.pnl[i],
     stopFaults |-> IF t.position[i].stop < t.position[i].initial
                    THEN {"current_stop_below_initial"} ELSE {}]

RowsOf(t) ==
    [chain |-> [i \in Intents |-> ChainOf(t, i)], cash |-> t.cash, wallet |-> TRUE,
     runs |-> 0, stale |-> FALSE]

-----------------------------------------------------------------------------
(* The checks.  An issue names its code, its severity and its trade, if any. *)

Issue(code, severity, i) == [code |-> code, severity |-> severity, trade |-> i]
Nobody == "none"

Held(c) == c.position \in {"OPEN", "CLOSING"}

\* get_fills_for_order(order of the intent): the fills that an order row leads to
HasFills(c) == c.order # "ABSENT" /\ c.entry

CheckOrphanSchedulerRuns(r) ==
    IF r.runs > 0 THEN {Issue("orphan_scheduler_run", "AUTO", Nobody)} ELSE {}

CheckStaleHeartbeat(r) ==
    IF r.stale THEN {Issue("stale_runtime_heartbeat", "AUTO", Nobody)} ELSE {}

CountOpenBySymbol(r, s) == Cardinality({i \in Intents : SymbolOf(i) = s /\ Held(r.chain[i])})

CheckMultipleOpenPositions(r) ==
    {Issue("multiple_open_positions", "FATAL", s) :
        s \in {x \in Symbols : CountOpenBySymbol(r, x) > 1}}

\* _fill_economic_chain_consistent_for_order and _for_intent: the symbol's open
\* position comes from this trade and has the fill's quantity and price.
EconomicChainConsistent(r, i) ==
    /\ HasFills(r.chain[i])
    /\ Held(r.chain[i])
    /\ r.chain[i].agrees
    /\ r.wallet

\* A fill behind a row that does not know of it: repaired when the money moved too.
FillUnknown(r, i, code) ==
    IF EconomicChainConsistent(r, i) THEN Issue(code, "AUTO", i)
    ELSE Issue("fill_without_economic_chain", "FATAL", i)

\* Mutant of CheckIntentOrderFillChain: the non-terminal intent with a fill is not looked for.
CheckOrderFillChainOnly(r) ==
    {FillUnknown(r, i, "open_order_with_fill") :
        i \in {j \in Intents : r.chain[j].order = "OPEN" /\ HasFills(r.chain[j])}}

CheckIntentOrderFillChain(r) ==
    LET rows == {i \in Intents : r.chain[i].intent # "ABSENT"}
        Where(P(_)) == {i \in rows : P(r.chain[i])}
    IN  {Issue("filled_intent_without_fill", "MANUAL", i) :
            i \in Where(LAMBDA c : c.intent = "FILLED" /\ ~HasFills(c))}
        \cup {FillUnknown(r, i, "filled_intent_without_status") :
            i \in Where(LAMBDA c : HasFills(c) /\ c.intent \notin TerminalRowStatuses)}
        \cup {FillUnknown(r, i, "open_order_with_fill") :
            i \in Where(LAMBDA c : c.order = "OPEN" /\ HasFills(c))}
        \cup {Issue("terminal_intent_without_order", "MANUAL", i) :
            i \in Where(LAMBDA c : c.order = "ABSENT" /\ c.intent = "EXPIRED")}

\* _check_position_references, the positions
CheckPositions(r) ==
    LET Where(P(_)) == {i \in Intents : P(r.chain[i])}
    IN  {Issue("position_without_entry_intent", "FATAL", i) :
            i \in Where(LAMBDA c : Held(c) /\ c.intent = "ABSENT")}
        \cup {Issue("position_without_entry_fill", "FATAL", i) :
            i \in Where(LAMBDA c : Held(c) /\ (c.intent = "ABSENT" \/ ~HasFills(c)))}
        \cup {Issue("closing_position_pending_exit", "MANUAL", i) :
            i \in Where(LAMBDA c : c.position = "CLOSING")}

\* ... and the fills; a reference that the row no longer has is a lost row here.
CheckFills(r) ==
    LET Where(P(_)) == {i \in Intents : P(r.chain[i])}
    IN  {Issue("exit_fill_without_position", "FATAL", i) :
            i \in Where(LAMBDA c : c.exits > 0 /\ c.position = "ABSENT")}
        \cup {Issue("entry_fill_without_order", "FATAL", i) :
            i \in Where(LAMBDA c : c.entry /\ c.order = "ABSENT")}
        \cup {Issue("fill_without_position", "FATAL", i) :
            i \in Where(LAMBDA c : c.entry /\ c.order = "FILLED" /\ c.position = "ABSENT")}

CheckPositionReferences(r) == CheckPositions(r) \cup CheckFills(r)

CheckStopInvariants(r) ==
    {Issue(f[1], IF f[1] = "highest_close_below_entry" THEN "MANUAL" ELSE "FATAL", f[2]) :
        f \in {g \in StopFaults \X Intents :
                  /\ r.chain[g[2]].position # "ABSENT"
                  /\ g[1] \in r.chain[g[2]].stopFaults}}

\* The deterministic key of an exit fill names its position.
CheckDuplicateFills(r) ==
    {Issue("duplicate_deterministic_fill", "FATAL", i) : i \in {j \in Intents : r.chain[j].exits > 1}}

RunConsistencyChecks(r) ==
    CheckOrphanSchedulerRuns(r) \cup CheckStaleHeartbeat(r)
        \cup CheckMultipleOpenPositions(r) \cup CheckIntentOrderFillChain(r)
        \cup CheckPositionReferences(r) \cup CheckStopInvariants(r) \cup CheckDuplicateFills(r)

-----------------------------------------------------------------------------
(* accounting_verification.py                                              *)

\* reconstruct_wallet: an exit fill whose position is gone does not count.
ReconstructWallet(r) ==
    LET pnl    == [i \in Intents |-> r.chain[i].pnl]
        exited == {j \in Intents : r.chain[j].exits > 0 /\ r.chain[j].position # "ABSENT"}
    IN  InitialCash - EntryFee * Cardinality({i \in Intents : r.chain[i].entry})
            + MapThenSumSet(LAMBDA i : pnl[i], exited)

\* verify_accounting_independent, one position and its exit fills
PositionAccounts(c) ==
    /\ c.exits <= 1
    /\ c.position = "CLOSED" => ~c.margin /\ c.exits > 0 /\ c.realized = c.pnl
    /\ c.position \in {"OPEN", "CLOSING"} => c.margin

(* The totals of fees, slippage and realized profit are compared like the    *)
(* cash: execution.py and stops.py write them in the same update of the same *)
(* row, so the cash stands for them; the total of funding is zero in V1.     *)
VerifyAccountingIndependent(r) ==
    /\ r.wallet
    /\ r.cash = ReconstructWallet(r)
    /\ \A i \in Intents : PositionAccounts(r.chain[i])

\* run_accounting_verification
RunAccountingVerification(r) ==
    IF VerifyAccountingIndependent(r) THEN {}
    ELSE {Issue("accounting_reconciliation_mismatch", "MANUAL", Nobody)}

-----------------------------------------------------------------------------
(* apply_auto_repairs: only statuses and the heartbeat are written.        *)

RepairedChain(r, i, found) ==
    LET named(code) == \E x \in found : x.code = code /\ x.severity = "AUTO" /\ x.trade = i
        sound == EconomicChainConsistent(r, i)
    IN  [r.chain[i] EXCEPT
           !.order  = IF named("open_order_with_fill") /\ sound THEN "FILLED" ELSE @,
           !.intent = IF named("filled_intent_without_status") /\ sound THEN "FILLED" ELSE @]

ApplyAutoRepairs(r, found) ==
    LET named(code) == \E x \in found : x.code = code
    IN  [r EXCEPT !.runs  = IF named("orphan_scheduler_run") THEN 0 ELSE @,
                  !.stale = IF named("stale_runtime_heartbeat") THEN FALSE ELSE @,
                  !.chain = [i \in Intents |-> RepairedChain(r, i, found)]]

\* recover_on_startup: the fatal issue wins, then missing data and manual issues.
\* A repairable issue that is still there is not looked at.
VerdictOf(found, marketDataReady) ==
    IF \E x \in found : x.severity = "FATAL" THEN "FAILED"
    ELSE IF ~marketDataReady \/ \E x \in found : x.severity = "MANUAL" THEN "DEGRADED"
    ELSE "READY"

-----------------------------------------------------------------------------
VARIABLES rows,       \* the rows while the worker is down and while it recovers
          step,       \* "down", "repaired" (the repairs are committed), "decided"
          verdict,    \* the status recovery ends with
          damage      \* how many rows were damaged

recVars == <<rows, step, verdict, damage>>

\* The chains that a worker leaves behind.
SoundChains ==
    LET filled == [NoChain EXCEPT !.intent = "FILLED", !.order = "FILLED", !.entry = TRUE]
    IN  {NoChain}
        \cup {[NoChain EXCEPT !.intent = st] : st \in {"SCHEDULED", "REJECTED", "CANCELLED"}}
        \cup {[filled EXCEPT !.position = "OPEN", !.margin = TRUE]}
        \cup {[filled EXCEPT !.position = "CLOSED", !.exits = 1, !.pnl = d, !.realized = d] :
                 d \in ExitDeltas}

ExposedChain(c) == c.intent \in NonterminalIntentStatuses \/ Held(c)

RecoveryInit ==
    /\ \E ch \in [Restored -> SoundChains], n \in 0 .. MaxRuns, late \in BOOLEAN :
          /\ \A i, j \in Restored :
                i # j /\ SymbolOf(i) = SymbolOf(j) => ~(ExposedChain(ch[i]) /\ ExposedChain(ch[j]))
          /\ LET r == [chain |-> [i \in Intents |-> IF i \in Restored THEN ch[i] ELSE NoChain],
                           cash |-> 0, wallet |-> TRUE, runs |-> n, stale |-> late]
             IN  rows = [r EXCEPT !.cash = ReconstructWallet(r)]
    /\ step = "down" /\ verdict = "none" /\ damage = 0

\* What one loss or edit makes of a trade's rows; foreign keys hold (a fill is
\* lost before its order, a position only when no exit fill names it).
Damaged(c) ==
    {[c EXCEPT !.intent = st] :
        st \in IF c.intent = "ABSENT" THEN {} ELSE {"SCHEDULED", "CANCELLED", "EXPIRED", "FILLED"}}
    \cup (IF c.order = "ABSENT" THEN {} ELSE {[c EXCEPT !.order = "OPEN"], [c EXCEPT !.order = "CANCELLED"]})
    \cup (IF c.entry THEN {[c EXCEPT !.entry = FALSE]} ELSE {})
    \cup (IF c.entry THEN {} ELSE {[c EXCEPT !.order = "ABSENT"]})
    \cup (IF c.exits = 0 THEN {[c EXCEPT !.position = "ABSENT"]} ELSE {[c EXCEPT !.exits = 0]})
    \cup (IF c.position = "ABSENT" THEN {}
          ELSE {[c EXCEPT !.agrees = FALSE], [c EXCEPT !.margin = ~@], [c EXCEPT !.realized = @ + 1],
                [c EXCEPT !.stopFaults = @ \cup {"highest_close_below_entry"}]}
               \cup {[c EXCEPT !.position = p] : p \in {"OPEN", "CLOSING", "CLOSED"}})

\* A loss, an edit or a partial restore while the worker is down;
\* uq_paper_positions_open_symbol refuses a second open position.
DamageRow(i) ==
    /\ step = "down" /\ damage < MaxDamage
    /\ \E c \in Damaged(rows.chain[i]) :
          /\ Held(c) => \A j \in Intents \ {i} : SymbolOf(j) = SymbolOf(i) => ~Held(rows.chain[j])
          /\ rows' = [rows EXCEPT !.chain[i] = c]
    /\ damage' = damage + 1
    /\ UNCHANGED <<step, verdict>>

DamageWallet ==
    /\ step = "down" /\ damage < MaxDamage /\ rows.wallet
    /\ \/ rows' = [rows EXCEPT !.wallet = FALSE]
       \/ rows' = [rows EXCEPT !.cash = @ + 1]
    /\ damage' = damage + 1
    /\ UNCHANGED <<step, verdict>>

\* The first checks and the repairs: one transaction.
Repair ==
    /\ step = "down"
    /\ rows' = ApplyAutoRepairs(rows, RunConsistencyChecks(rows))
    /\ step' = "repaired"
    /\ UNCHANGED <<verdict, damage>>

\* The process dies, before or after recovery has decided; what is committed stays.
Die ==
    /\ step \in {"repaired", "decided"}
    /\ step' = "down" /\ verdict' = "none"
    /\ UNCHANGED <<rows, damage>>

\* The second checks and the accounting decide.
Decide(marketDataReady) ==
    /\ step = "repaired"
    /\ verdict' = VerdictOf(RunConsistencyChecks(rows) \cup RunAccountingVerification(rows),
                            marketDataReady)
    /\ step' = "decided"
    /\ UNCHANGED <<rows, damage>>

RecoveryNext ==
    \/ \E i \in Restored : DamageRow(i)
    \/ DamageWallet
    \/ Repair
    \/ Die
    \/ \E ok \in BOOLEAN : Decide(ok)

RecoverySpec == RecoveryInit /\ [][RecoveryNext]_recVars

-----------------------------------------------------------------------------
(* Properties.                                                             *)

\* verify_accounting_independent: the wallet's cash is the initial cash less the
\* fee of every entry fill plus the net result of every exit fill, in the
\* committed rows and at every savepoint boundary of the open transaction.
WalletReconciles ==
    \A t \in {db, tx} :
       t.cash = InitialCash - EntryFee * Cardinality(t.entryFills)
                            + MapThenSumSet(LAMBDA i : t.pnl[i], Intents)

\* Whatever the worker has committed when it dies, recovery finds nothing fatal or
\* manual in it and the books reconcile: an undamaged restart is never wedged
\* (run_consistency_checks and verify_accounting_independent against every COMMIT).
RestartNeverWedged ==
    RunConsistencyChecks(RowsOf(db)) = {} /\ VerifyAccountingIndependent(RowsOf(db))

\* One pass of apply_auto_repairs repairs all that is repairable, although
\* recover_on_startup ignores the repairable issues that are left, and a second start
\* after a crash repairs nothing more.
RepairsConverge ==
    step \in {"repaired", "decided"} =>
        /\ \A x \in RunConsistencyChecks(rows) : x.severity # "AUTO"
        /\ ApplyAutoRepairs(rows, RunConsistencyChecks(rows)) = rows

\* A worker that recovery declares READY may trade on its rows: a pending intent has
\* no fill (the next open cannot fill it a second time), an open position has its
\* intent, its fill and its margin, a filled order its position, and the cash is what
\* the fills say (recover_on_startup: READY only without a fatal or manual issue).
ReadyRowsAreTradable ==
    verdict = "READY" =>
        /\ \A i \in Intents :
              LET c == rows.chain[i]
              IN  /\ c.intent \in NonterminalIntentStatuses => ~c.entry
                  /\ Held(c) => c.intent # "ABSENT" /\ c.entry /\ c.margin
                                /\ c.position = "OPEN"
                  /\ c.order = "FILLED" /\ c.entry => c.position # "ABSENT"
        /\ rows.cash = ReconstructWallet(rows)

\* Recovery is safe: its repairs converge and READY is declared only over rows that can
\* be traded on (recover_on_startup over every damage of the instance).
RecoveryIsSafe == RepairsConverge /\ ReadyRowsAreTradable
=============================================================================
