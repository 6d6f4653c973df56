--------------------------- MODULE EvidenceScores ---------------------------
(***************************************************************************)
(* The scores that the research lab derives from sealed evidence: the       *)
(* confidence label (research/confidence), the shape of the parameter area  *)
(* around the frozen candidate (research/parameter_area on the children of  *)
(* research/parameter_stability), the block bootstrap (research/bootstrap)  *)
(* and the cost scenarios (research/cost_stress).                           *)
(*                                                                         *)
(* Each is a function of its inputs; the steps change one piece of evidence *)
(* and score again.  Ratios are in percent, amounts integers, funding rates *)
(* in units of 0.0001; an optional value is the set of its value.           *)
(***************************************************************************)
EXTENDS GatePolicy, Sequences, SequencesExt

CONSTANTS ConfidenceInputs,   \* the evidence to begin with
          EvidenceValues,     \* [dimension -> the counts it may take]
          FrozenParameters,   \* [axis -> value]
          Deltas,             \* <<axis, delta>> pairs in the order of the configuration
          ChildIds,           \* "frozen" and then the neighbours, in order
          ChildOutcomes,      \* what a child may have come to
          PnlSeries,          \* period PnL series to resample
          Simulations,        \* paths per bootstrap
          CostSpecs           \* [entry, exit, slippage, funding (a set)]

VARIABLE scored               \* the question asked last, with its evidence

scVars == <<scored>>
NothingScored == [kind |-> "none"]

-----------------------------------------------------------------------------
(* The confidence label.                                                   *)

\* Policy 1.0: the low, medium and high floor of every dimension
Floors ==
    [trade_sample |-> <<10, 30, 100>>, time_coverage |-> <<10, 60, 252>>,
     oos_folds |-> <<2, 3, 5>>, parameter_plateau |-> <<3, 5, 8>>,
     bootstrap_uncertainty |-> <<2, 20, 60>>, regime_coverage |-> <<80, 90, 95>>]
Dimensions == DOMAIN Floors
Required == {"trade_sample"}
HighRequires == {"trade_sample", "time_coverage", "bootstrap_uncertainty"}

Ranked == <<"NOT_AVAILABLE", "INSUFFICIENT", "LOW", "MEDIUM", "HIGH">>
Rank(label) == CHOOSE i \in DOMAIN Ranked : Ranked[i] = label

\* label_from_count
LabelFromCount(value, floors) ==
    IF value < floors[1] THEN "INSUFFICIENT"
    ELSE IF value < floors[2] THEN "LOW"
    ELSE IF value < floors[3] THEN "MEDIUM" ELSE "HIGH"

\* Mutant of BootstrapLabel: the length of the series is labelled, not its blocks.
BootstrapLabelOfLength(boot) ==
    IF boot = {} THEN "NOT_AVAILABLE"
    ELSE LET b == CHOOSE x \in boot : TRUE
         IN  IF b.block < 1 THEN "NOT_AVAILABLE"
             ELSE IF b.block >= b.series THEN "INSUFFICIENT"
             ELSE LabelFromCount(b.series, Floors["bootstrap_uncertainty"])

\* The effective number of blocks; a block that fills the series makes none.
BootstrapLabel(boot) ==
    IF boot = {} THEN "NOT_AVAILABLE"
    ELSE LET b == CHOOSE x \in boot : TRUE
         IN  IF b.block < 1 THEN "NOT_AVAILABLE"
             ELSE IF b.block >= b.series THEN "INSUFFICIENT"
             ELSE LabelFromCount(b.series \div b.block, Floors["bootstrap_uncertainty"])

\* _evaluate_dimensions: a weak pass ratio or inconclusive regime evidence caps at LOW.
DimensionLabel(in, d) ==
    IF d = "bootstrap_uncertainty" THEN BootstrapLabel(in.boot)
    ELSE IF (d = "trade_sample" /\ ~in.complete) \/ in.count[d] = {} THEN "NOT_AVAILABLE"
    ELSE LET label == LabelFromCount(CHOOSE v \in in.count[d] : TRUE, Floors[d])
         IN  IF d \in in.weak /\ label \in {"MEDIUM", "HIGH"} THEN "LOW" ELSE label

EvaluateDimensions(in) == [d \in Dimensions |-> DimensionLabel(in, d)]

\* The gate's integrity status that is passed on, none without a gate
GateIntegrity(in) ==
    IF in.gate = {} THEN "NONE"
    ELSE SummarizeIntegrity(IntegrityChecks(TRUE, TRUE, TRUE, in.complete, in.gate = {TRUE}))

Weakest(labels) == Ranked[CHOOSE r \in DOMAIN Ranked :
                            /\ Ranked[r] \in labels
                            /\ \A l \in labels : r <= Rank(l)]

\* Mutant of Aggregate: a HIGH over what is there is not capped.
AggregateUncapped(in, labels) ==
    LET present == {d \in Dimensions : labels[d] # "NOT_AVAILABLE"}
    IN  IF GateIntegrity(in) = "INVALID" \/ Required \ present # {} THEN "NOT_AVAILABLE"
        ELSE Weakest({labels[d] : d \in present})

\* _aggregate with build_limitations: the weakest present dimension, and no HIGH
\* without the core dimensions and documented multiple testing.
Aggregate(in, labels) ==
    LET present == {d \in Dimensions : labels[d] # "NOT_AVAILABLE"}
        overall == Weakest({labels[d] : d \in present})
    IN  IF GateIntegrity(in) = "INVALID" \/ Required \ present # {} THEN "NOT_AVAILABLE"
        ELSE IF overall = "HIGH" /\ (HighRequires \ present # {} \/ ~in.testing)
        THEN "MEDIUM" ELSE overall

EvaluateConfidence(in) == Aggregate(in, EvaluateDimensions(in))

\* ScorecardEvaluator._derive_confidence: the scorecard passes on the run and the
\* gate only.
DerivedInputs(in) ==
    [in EXCEPT !.count = [d \in DOMAIN in.count |->
                             IF d \in {"trade_sample", "time_coverage"} THEN in.count[d] ELSE {}],
               !.boot = {}, !.weak = {}, !.testing = FALSE]

-----------------------------------------------------------------------------
(* The parameter area.                                                     *)

\* Policy 1.0
MinCompleteNeighbors == 2
MinNetPnl == 0
BroadContiguous == 3
NarrowContiguous == 2
SteepDrop == 50
BroadShare == 60
NarrowShare == 35
BroadGateShare == 50

\* symmetric_neighborhood: the frozen parameters, then one changed at a time
SymmetricNeighborhood ==
    <<FrozenParameters>> \o
    FoldLeft(LAMBDA acc, d : IF d[1] \in DOMAIN FrozenParameters
                             THEN Append(acc, [FrozenParameters EXCEPT ![d[1]] = @ + d[2]])
                             ELSE acc,
             <<>>, Deltas)
\* The ids of build_parameter_stability_child_specs and reconstruct_oat_variants
Variant(id) == SymmetricNeighborhood[CHOOSE i \in DOMAIN ChildIds : ChildIds[i] = id]
Neighbourhood == {ChildIds[i] : i \in 1 .. Len(SymmetricNeighborhood)}

\* The children that a manifest lists
Listed(children) ==
    [id \in {c \in DOMAIN children : children[c].status # "absent"} |-> children[id]]
Complete(m, id) == m[id].status = "complete"
Net(m, id) == CHOOSE v \in m[id].net : TRUE
Costs(m, id) == CHOOSE v \in m[id].costs : TRUE
GatePass(m, id) == Complete(m, id) /\ Net(m, id) >= 0

\* observations_from_sealed_manifest refuses unknown children and complete ones
\* without sealed metrics; the evaluation needs the frozen one.
ManifestRefused(m) ==
    \/ "frozen" \notin DOMAIN m
    \/ DOMAIN m \ Neighbourhood # {}
    \/ \E id \in DOMAIN m : Complete(m, id) /\ (m[id].net = {} \/ m[id].costs = {})

\* is_neighbor_stable: costs of at most half the PnL, of at least 1.  No caller of the
\* sealed path asks for the gate, and a sealed gate passes whenever the PnL floor does.
Abs(n) == IF n < 0 THEN -n ELSE n
IsNeighborStable(m, id) ==
    /\ Complete(m, id)
    /\ Net(m, id) >= MinNetPnl
    /\ 2 * Costs(m, id) <= (IF Abs(Net(m, id)) < 1 THEN 1 ELSE Abs(Net(m, id)))

ChangedAxes(id) == {k \in DOMAIN FrozenParameters : Variant(id)[k] # FrozenParameters[k]}

\* build_axis_points: the neighbours changed on this axis only, and the frozen point,
\* by value and then id
AxisPoints(m, axis) ==
    LET near == {id \in DOMAIN m \ {"frozen"} : ChangedAxes(id) = {axis}}
        Index(id) == CHOOSE i \in DOMAIN ChildIds : ChildIds[i] = id
        Before(a, b) == \/ Variant(a)[axis] < Variant(b)[axis]
                        \/ Variant(a)[axis] = Variant(b)[axis] /\ Index(a) < Index(b)
    IN  IF near = {} THEN <<>> ELSE SetToSortSeq(near \cup {"frozen"}, Before)

\* contiguous_stable_through_frozen
ContiguousStableThroughFrozen(m, points) ==
    IF points = <<>> \/ ~IsNeighborStable(m, "frozen") THEN 0
    ELSE LET f == CHOOSE i \in DOMAIN points : points[i] = "frozen"
             stable(from, to) == \A i \in from .. to : IsNeighborStable(m, points[i])
         IN  Cardinality({i \in 1 .. f : stable(i, f)})
             + Cardinality({i \in f + 1 .. Len(points) : stable(f, i)})

\* measure_contiguous_regions; a stable frozen point without axes is a plateau of one.
PlateauSize(m) ==
    LET axes == {a \in DOMAIN FrozenParameters : AxisPoints(m, a) # <<>>}
        runs == {ContiguousStableThroughFrozen(m, AxisPoints(m, a)) : a \in axes}
    IN  IF axes # {} THEN CHOOSE n \in runs : \A k \in runs : k <= n
        ELSE IF IsNeighborStable(m, "frozen") THEN 1 ELSE 0

\* classify_parameter_area: n complete neighbours, of which so many are stable and
\* pass their gate, the plateau, and the falls from the frozen PnL to theirs
ClassifyParameterArea(n, stable, gates, plateau, frozenStable, drops) ==
    IF n < MinCompleteNeighbors THEN "INSUFFICIENT_EVIDENCE"
    ELSE IF ~frozenStable THEN "UNSTABLE"
    ELSE IF stable = 0 THEN "ISOLATED_PEAK"
    ELSE IF (\E d \in drops : d > SteepDrop) /\ 100 * stable < NarrowShare * n THEN "UNSTABLE"
    ELSE IF plateau < NarrowContiguous THEN "ISOLATED_PEAK"
    ELSE IF /\ plateau >= BroadContiguous
            /\ 100 * stable >= BroadShare * n /\ 100 * gates >= BroadGateShare * n
         THEN "BROAD_STABLE_PLATEAU"
    ELSE IF 100 * stable >= NarrowShare * n THEN "NARROW_STABLE_AREA" ELSE "UNSTABLE"

\* _evaluate_parameter_area over a sealed manifest
EvaluateParameterArea(m) ==
    LET done == {id \in DOMAIN m \ {"frozen"} : Complete(m, id)}
        Count(P(_)) == Cardinality({id \in done : P(id)})
    IN  IF ManifestRefused(m) THEN "REFUSED"
        ELSE ClassifyParameterArea(
                Cardinality(done),
                Count(LAMBDA id : IsNeighborStable(m, id)),
                Count(LAMBDA id : GatePass(m, id)),
                PlateauSize(m),
                IsNeighborStable(m, "frozen"),
                {Net(m, "frozen") - Net(m, id) :
                    id \in {x \in done : Complete(m, "frozen")}})

-----------------------------------------------------------------------------
(* The block bootstrap.                                                    *)

\* block_bootstrap_paths, _validate_bootstrap_sample
BootstrapRefused(series, block) ==
    block < 1 \/ Len(series) < 2 \/ block >= Len(series)

\* _resample_path: blocks of the series from any starts, cut to its length
ResampledPaths(series, block) ==
    LET n == Len(series)
        blocks == (n + block - 1) \div block
    IN  {SubSeq(FoldLeft(LAMBDA acc, s : acc \o SubSeq(series, s + 1, s + block), <<>>, starts),
                1, n) : starts \in [1 .. blocks -> 0 .. n - block]}

PathNetPnl(path) == FoldLeft(LAMBDA a, b : a + b, 0, path)

\* _path_max_drawdown
PathMaxDrawdown(path) ==
    FoldLeft(LAMBDA a, r :
                LET equity == a.equity + r
                    peak == IF equity > a.peak THEN equity ELSE a.peak
                IN  [equity |-> equity, peak |-> peak,
                     dd |-> IF equity - peak < a.dd THEN equity - peak ELSE a.dd],
             [equity |-> 0, peak |-> 0, dd |-> 0], path).dd

\* _quantile of sorted values, times 100
Quantile(sorted, q) ==
    LET pos == (Len(sorted) - 1) * q
        lo == pos \div 100
        weight == pos % 100
    IN  IF weight = 0 THEN 100 * sorted[lo + 1]
        ELSE sorted[lo + 1] * (100 - weight) + sorted[lo + 2] * weight

\* _qmap
Qmap(values) ==
    LET ordered == SortSeq(values, <)
    IN  [q \in {5, 50, 95} |-> Quantile(ordered, q)]

-----------------------------------------------------------------------------
(* The cost scenarios.                                                     *)

\* A CostStressScenario as build_cost_stress_child_specs calls it: the
\* entry fee is the base of both fees.
CostScenario(spec, fee, slippage, funding) ==
    [entry |-> spec.entry * fee, exit |-> spec.entry * fee,
     slippage |-> spec.slippage * slippage, funding |-> funding]
\* default_p5_cost_stress_scenarios
CostStressScenarios(spec) ==
    [base |-> CostScenario(spec, 1, 1, spec.funding),
     fee_x2 |-> CostScenario(spec, 2, 1, spec.funding),
     slippage_x2 |-> CostScenario(spec, 1, 2, spec.funding),
     funding_stress |-> CostScenario(spec, 1, 1, {1}),
     combined_elevated |-> CostScenario(spec, 2, 2, {1}),
     combined_extreme |-> CostScenario(spec, 3, 3, {3})]

-----------------------------------------------------------------------------
(* Asking.                                                                 *)

Confidence(in) == [kind |-> "confidence", in |-> in]
Area(m) == [kind |-> "area", children |-> m]
Bootstrap(series, block, paths) ==
    [kind |-> "bootstrap", series |-> series, block |-> block, paths |-> paths]

ScoresInit ==
    \/ \E in \in ConfidenceInputs : scored = Confidence(in)
    \/ \E m \in [Range(ChildIds) -> ChildOutcomes] : scored = Area(m)
    \/ \E s \in PnlSeries, b \in 0 .. 3 : scored = Bootstrap(s, b, <<>>)
    \/ \E spec \in CostSpecs : scored = [kind |-> "costs", spec |-> spec]

\* A count grows, or a longer series is bootstrapped.
MoreEvidence ==
    /\ scored.kind = "confidence"
    /\ \/ \E d \in DOMAIN EvidenceValues : \E v \in EvidenceValues[d], old \in scored.in.count[d] :
             /\ v > old
             /\ scored' = [scored EXCEPT !.in.count[d] = {v}]
       \/ \E b \in scored.in.boot :
             /\ b.series < 40
             /\ scored' = [scored EXCEPT !.in.boot = {[b EXCEPT !.series = @ * 2]}]

\* A piece of evidence is left out.
LessEvidence ==
    /\ scored.kind = "confidence"
    /\ \/ \E d \in DOMAIN scored.in.count :
             scored.in.count[d] # {} /\ scored' = [scored EXCEPT !.in.count[d] = {}]
       \/ scored.in.boot # {} /\ scored' = [scored EXCEPT !.in.boot = {}]
       \/ scored.in.testing /\ scored' = [scored EXCEPT !.in.testing = FALSE]

\* A neighbour comes to a stable result.
RerunNeighbour ==
    /\ scored.kind = "area"
    /\ \E id \in DOMAIN scored.children \ {"frozen"}, o \in ChildOutcomes :
          LET better == [scored.children EXCEPT ![id] = o]
          IN  /\ o.status = "complete" /\ o.net # {} /\ o.costs # {}
              /\ IsNeighborStable(better, id)
              /\ scored' = [scored EXCEPT !.children = better]

Simulate ==
    /\ scored.kind = "bootstrap" /\ Len(scored.paths) < Simulations
    /\ ~BootstrapRefused(scored.series, scored.block)
    /\ \E p \in ResampledPaths(scored.series, scored.block) :
          scored' = [scored EXCEPT !.paths = Append(@, p)]

ScoresNext == MoreEvidence \/ LessEvidence \/ RerunNeighbour \/ Simulate

-----------------------------------------------------------------------------
(* Properties.                                                             *)

\* A HIGH label is earned: the run is complete, its gate is not invalid, every core
\* dimension is measured at its high floor, the multiple testing is documented and no
\* measured dimension is weaker (evaluator.py: "missing core evidence must not omit
\* into HIGH").  What a scorecard derives by itself is therefore never HIGH.
HighIsEarned ==
    scored.kind = "confidence" =>
    LET in == scored.in
    IN  /\ EvaluateConfidence(in) = "HIGH" =>
              /\ in.complete /\ in.testing /\ in.gate # {FALSE}
              /\ \A v \in in.count["trade_sample"] : v >= 100
              /\ in.count["time_coverage"] # {}
              /\ \E b \in in.boot : b.series >= 60 * b.block /\ b.block > 0
              /\ \A d \in DOMAIN in.count : in.count[d] # {} =>
                    d \notin in.weak /\ \A v \in in.count[d] : v >= Floors[d][3]
        /\ EvaluateConfidence(DerivedInputs(in)) # "HIGH"

\* Growing evidence never lowers the label, and leaving evidence out never makes one
\* available or turns MEDIUM into HIGH when a core piece is what is left out.
EvidenceOnlyHelps ==
    scored.kind = "confidence" =>
        LET before == Rank(EvaluateConfidence(scored.in))
            after == Rank(EvaluateConfidence(scored'.in))
        IN  /\ MoreEvidence => after >= before
            /\ LessEvidence =>
                  /\ before = Rank("NOT_AVAILABLE") => after = before
                  /\ (\/ scored'.in.boot # scored.in.boot
                      \/ scored'.in.testing # scored.in.testing
                      \/ \E d \in HighRequires \cap DOMAIN scored.in.count :
                            scored'.in.count[d] # scored.in.count[d])
                     => after # Rank("HIGH")

\* A plateau is unbroken: some interval of one parameter around the frozen value holds
\* as many points as the classification asks for, and every child that was run on the
\* interval is stable; a broad one never contradicts the gate on the same manifest.
PlateauIsUnbroken ==
    scored.kind = "area" =>
    LET m == Listed(scored.children)
        class == EvaluateParameterArea(m)
        size == IF class = "BROAD_STABLE_PLATEAU" THEN 3 ELSE 2
        OnAxis(a) == {id \in DOMAIN m : id = "frozen" \/ \A k \in DOMAIN FrozenParameters :
                        (Variant(id)[k] = FrozenParameters[k]) <=> (k # a)}
        Values(a) == {Variant(id)[a] : id \in OnAxis(a)}
        Within(a, lo, hi) == {id \in OnAxis(a) : Variant(id)[a] \in lo .. hi}
    IN  class \in {"BROAD_STABLE_PLATEAU", "NARROW_STABLE_AREA"} =>
          /\ \E a \in DOMAIN FrozenParameters : \E lo, hi \in Values(a) :
                /\ FrozenParameters[a] \in lo .. hi
                /\ Cardinality(Within(a, lo, hi)) >= size
                /\ \A id \in Within(a, lo, hi) :
                      m[id].status = "complete" /\ IsNeighborStable(m, id)
          /\ size = 3 =>
                GateOutcome(Registered["parameter_neighbor_pass_ratio"],
                            Measured("parameter_stability",
                                     [id \in {x \in DOMAIN m : Complete(m, x)} |-> Net(m, id)]))
                = "PASS"

\* A neighbour that turns out stable never costs the frozen point its plateau.
StableNeighbourNeverHurts ==
    scored.kind = "area" =>
        LET before == EvaluateParameterArea(Listed(scored.children))
            after == EvaluateParameterArea(Listed(scored'.children))
        IN  /\ before = "BROAD_STABLE_PLATEAU" => after = before
            /\ before = "NARROW_STABLE_AREA" =>
                  after \in {"BROAD_STABLE_PLATEAU", "NARROW_STABLE_AREA"}

\* The drawdown of a path is its worst fall from the start or any earlier point, and
\* the quantiles over the paths are ordered and within what was simulated.
BootstrapMeasuresPaths ==
    scored.kind = "bootstrap" /\ scored.paths # <<>> =>
    LET paths == scored.paths
        Total(p, i) == PathNetPnl(SubSeq(p, 1, i))
        nets == FoldLeft(LAMBDA a, p : Append(a, PathNetPnl(p)), <<>>, paths)
        q == Qmap(nets)
    IN  /\ \A k \in DOMAIN paths :
              LET p == paths[k]
                  falls == {Total(p, j) - Total(p, i) : <<i, j>> \in
                               {ij \in (0 .. Len(p)) \X (0 .. Len(p)) : ij[1] <= ij[2]}}
              IN  /\ Len(p) = Len(scored.series)
                  /\ PathMaxDrawdown(p) \in falls
                  /\ \A f \in falls : PathMaxDrawdown(p) <= f
        /\ q[5] <= q[50] /\ q[50] <= q[95]
        /\ \E i, j \in DOMAIN nets : 100 * nets[i] <= q[5] /\ q[95] <= 100 * nets[j]

\* For a specification with one fee and funding of at most the stress rate, no scenario
\* is cheaper than the specification, and the joint ones are the dearest (cost_stress.py:
\* "Stress scenarios may elevate costs on top of that base").
StressIsNeverCheaper ==
    scored.kind = "costs" /\ scored.spec.exit = scored.spec.entry
      /\ (\A r \in scored.spec.funding : r <= 1) =>
    LET s == CostStressScenarios(scored.spec)
        Dearer(a, b) == /\ a.entry >= b.entry /\ a.exit >= b.exit /\ a.slippage >= b.slippage
                        /\ \A r \in b.funding : \E t \in a.funding : t >= r
    IN  /\ s.base = scored.spec
        /\ \A x \in DOMAIN s : Dearer(s[x], scored.spec) /\ Dearer(s.combined_extreme, s[x])
        /\ \A x \in DOMAIN s \ {"combined_extreme"} : Dearer(s.combined_elevated, s[x])

\* No score says more than its evidence: HIGH is earned, a plateau is unbroken, the
\* bootstrap measures its paths, and a stress is not cheaper than the base.
ScoresAreEarned ==
    /\ HighIsEarned /\ PlateauIsUnbroken
    /\ BootstrapMeasuresPaths /\ StressIsNeverCheaper
=============================================================================
