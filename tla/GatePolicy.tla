------------------------------- MODULE GatePolicy -------------------------------
(***************************************************************************)
(* The gate policy (gate_policy.py) and the pure part of its evaluation    *)
(* (gate_evaluator.py): which measurement a gate reads, when a gate passes, *)
(* the verdict over all gates and the Layer-0 integrity status.             *)
(*                                                                         *)
(* Amounts are integers: ratios and drawdowns in percent.  A measurement is *)
(* the set of its value, empty where the code has None.                     *)
(***************************************************************************)
EXTENDS Integers, FiniteSets

\* The registered gates of policies 1.0 and 1.1; 1.1 adds the category.
Registered ==
    [min_closed_trades |-> [metric |-> "closed_trades", cmp |-> "gte", threshold |-> 10,
                            category |-> "sample_sufficiency"],
     net_pnl_non_negative |-> [metric |-> "net_pnl", cmp |-> "gte", threshold |-> 0,
                               category |-> "oos_net"],
     max_drawdown_floor |-> [metric |-> "max_drawdown", cmp |-> "gte", threshold |-> -50,
                             category |-> "drawdown"],
     walk_forward_fold_pass_ratio |-> [metric |-> "walk_forward", cmp |-> "gte",
                                       threshold |-> 50, category |-> "walk_forward"],
     cost_stress_combined_elevated_non_negative |->
        [metric |-> "cost_stress", cmp |-> "gte", threshold |-> 0,
         category |-> "cost_stress"],
     parameter_neighbor_pass_ratio |-> [metric |-> "parameter_stability", cmp |-> "gte",
                                        threshold |-> 50, category |-> "parameter_fragility"],
     bootstrap_q05_net_pnl_non_negative |->
        [metric |-> "bootstrap", cmp |-> "gte", threshold |-> 0, category |-> "bootstrap"]]

\* Policy 1.0 is the same gates without categories.
Policy(version, gates) ==
    [g \in gates |-> IF version = "1.1" THEN Registered[g]
                     ELSE [Registered[g] EXCEPT !.category = ""]]

CriticalCategories ==
    {"sample_sufficiency", "oos_net", "drawdown", "walk_forward", "cost_stress",
     "parameter_fragility", "bootstrap", "concentration", "regime_coverage",
     "execution_realism"}

\* evaluate_comparator
Satisfies(cmp, measured, threshold) ==
    \/ cmp = "gte" /\ measured >= threshold
    \/ cmp = "gt" /\ measured > threshold
    \/ cmp = "lte" /\ measured <= threshold
    \/ cmp = "lt" /\ measured < threshold
    \/ cmp = "eq" /\ measured = threshold

\* One gate: missing evidence is never a pass.
GateOutcome(gate, measured) ==
    IF measured = {} THEN "NOT_AVAILABLE"
    ELSE IF \A v \in measured: Satisfies(gate.cmp, v, gate.threshold)
    THEN "PASS" ELSE "FAIL"

\* _overall_status_from_gates over a policy and the outcome of each of its gates.
\* With categories a non-critical gate may miss; without, every gate must pass.
OverallStatus(policy, outcome) ==
    LET missed == {g \in DOMAIN policy: outcome[g] # "PASS"}
        categorized == \E g \in DOMAIN policy: policy[g].category # "" IN
    IF DOMAIN policy = {} THEN "fail"
    ELSE IF categorized
    THEN IF \E g \in missed: policy[g].category \in CriticalCategories \cup {""}
         THEN "fail" ELSE "pass"
    ELSE IF missed = {} THEN "pass" ELSE "fail"

\* The share of complete children with net PnL >= 0, in percent; a suite without
\* complete children measures nothing.  pnls is a function from child to PnL.
PassRatio(pnls) ==
    IF DOMAIN pnls = {} THEN {}
    ELSE {(100 * Cardinality({c \in DOMAIN pnls: pnls[c] >= 0}))
            \div Cardinality(DOMAIN pnls)}

\* _measurements_from_robustness_manifest, by test type.  The frozen variant is
\* not its own neighbour; cost stress reads one child.
Measured(type, pnls) ==
    IF type = "walk_forward" THEN PassRatio(pnls)
    ELSE IF type = "parameter_stability"
    THEN PassRatio([c \in DOMAIN pnls \ {"frozen"} |-> pnls[c]])
    ELSE IF type = "cost_stress" /\ "combined_elevated" \in DOMAIN pnls
    THEN {pnls["combined_elevated"]} ELSE {}

\* _build_integrity_checks: three mandatory checks have no verifier yet.
IntegrityChecks(binding, checksums, commits, complete, seals) ==
    LET status(ok) == IF ok THEN "pass" ELSE "fail" IN
    {status(binding), status(checksums), status(commits), status(complete),
     status(seals), "not_verifiable"}

SummarizeIntegrity(checks) ==
    IF "fail" \in checks THEN "INVALID"
    ELSE IF checks = {} \/ "not_verifiable" \in checks THEN "NOT_VERIFIABLE"
    ELSE "VALID"

QualityScoresPermitted(status, integrity) == status = "active" /\ integrity = "VALID"
================================================================================
