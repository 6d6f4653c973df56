----------------------------- MODULE EvidenceChain -----------------------------
(***************************************************************************)
(* From runs to decisions: gate evaluations (gate_evaluator.py), scorecards *)
(* (scorecard_evaluator.py), validation studies (validation_study.py,       *)
(* validation_service.py) and the reading of sealed artifacts               *)
(* (artifact_content.py).  Handlers run in the API's thread pool without a  *)
(* lock, so each is modelled as its reads and its later write, and several  *)
(* callers interleave; a crash ends every request in flight.  An evaluation  *)
(* verifies a file and opens it again to read it: two steps, with damage in  *)
(* between.                                                                  *)
(*                                                                         *)
(* Runs are numbered in the order they complete, each of one experiment.     *)
(* Records are identified by what their id hashes: a gate by its run, suites *)
(* and policy content, a scorecard by its run and gate, a study by its pins. *)
(* Scorecards are evaluated without suites of their own, and every study has *)
(* at most one gate and one scorecard.  A suite has one child run.           *)
(* The gate policy is cut down to one gate of the run and one per suite type.*)
(* Damage to a file is for good: nobody puts the sealed bytes back.          *)
(***************************************************************************)
EXTENDS GatePolicy, Sequences

CONSTANTS
    Callers,       \* request threads
    CardCallers,   \* those that evaluate and read scorecards
    StudyCallers,  \* those that create and decide studies
    NRuns,         \* runs
    NExperiments,  \* experiments the runs are of
    NSuites,       \* robustness suites
    SuiteTypes,    \* their test types
    MaxEvents,     \* bound: lines of the append-only logs and faults together
    MaxFaults      \* bound: invalidations, damage, policy edits and crashes

ASSUME ChainAssumptions ==
    /\ CardCallers \subseteq Callers /\ StudyCallers \subseteq Callers
    /\ NRuns \in Nat \ {0} /\ NExperiments \in Nat \ {0} /\ NSuites \in Nat
    /\ SuiteTypes \subseteq {"walk_forward", "cost_stress"} /\ SuiteTypes # {}
    /\ MaxEvents \in Nat /\ MaxFaults \in Nat

VARIABLES
    run,        \* what the registry says of each run
    suite,      \* completed robustness jobs with their sealed manifest
    damaged,    \* files that no longer match their checksums: of a run, the
                \* manifest of a suite, of a suite's child run
    policy,     \* content of the policy that is deployed under its version
    gateLog,    \* gates/registry.jsonl
    gateSide,   \* gates with an invalidation sidecar
    cardLog,    \* scorecards/registry.jsonl
    cardSide,   \* scorecards with an invalidation sidecar
    studyLog,   \* validation/registry.jsonl
    decisions,  \* validation/decisions
    req,        \* the request each caller has in flight
    faults      \* faults so far

records == <<gateLog, gateSide, cardLog, cardSide, studyLog, decisions>>
evidence == <<run, suite, damaged, policy>>
vars == <<evidence, records, req, faults>>

Runs == 1 .. NRuns
Suites == 1 .. NSuites
Experiments == 1 .. NExperiments
Files == ({"run"} \X Runs) \cup ({"suite", "child"} \X Suites)
Outcomes == {"accept", "reject"}

NoRun == [status |-> "absent", good |-> FALSE, exp |-> 0]
RunType == [status: {"absent", "complete", "invalidated"}, good: BOOLEAN,
            exp: Experiments \cup {0}]
SuiteType == [base: Runs, type: SuiteTypes, good: BOOLEAN,
              child: {"complete", "invalidated"}]
GateIds == [run: Runs, suites: SUBSET Suites, policy: 1 .. 2]
NoGate == [run |-> 0, suites |-> {}, policy |-> 0]
CardIds == [run: Runs, gate: GateIds \cup {NoGate}]
NoCard == [run |-> 0, gate |-> NoGate]
Pins == [run: Runs, more: SUBSET Runs, suites: SUBSET Suites, gate: GateIds \cup {NoGate},
         card: CardIds \cup {NoCard}]
PinnedRuns(p) == {p.run} \cup p.more
Free == [op |-> "none"]

\* The first run and its suites are complete; newer runs are still to come.
Init ==
    /\ \E good \in BOOLEAN:
          run = [r \in Runs |-> IF r # 1 THEN NoRun
                                ELSE [status |-> "complete", good |-> good, exp |-> 1]]
    /\ suite \in [Suites -> {x \in SuiteType: x.base = 1 /\ x.child = "complete"}]
    /\ damaged = {} /\ policy = 1 /\ faults = 0
    /\ gateLog = <<>> /\ gateSide = {} /\ cardLog = <<>> /\ cardSide = {}
    /\ studyLog = <<>> /\ decisions = <<>>
    /\ req = [q \in Callers |-> Free]

--------------------------------------------------------------------------------
(* Evidence: what exists and what verifies. *)

\* A run completes: registered, with metrics that satisfy its gate or do not.
RunCompletes(r) ==
    /\ run[r] = NoRun /\ \A o \in Runs: o < r => run[o] # NoRun
    /\ \E good \in BOOLEAN, e \in Experiments:
          run' = [run EXCEPT ![r] = [status |-> "complete", good |-> good, exp |-> e]]
    /\ UNCHANGED <<suite, damaged, policy, records, req, faults>>

\* The bounds: lines and faults; a request other than the invalidation of a gate
\* begins only with a line to spare for every request in flight.
Events == Len(gateLog) + Len(cardLog) + Len(studyLog) + faults
Room == Events < MaxEvents
Slot == Events + Cardinality({q \in Callers: req[q] # Free}) < MaxEvents
Fault == Room /\ faults < MaxFaults /\ faults' = faults + 1

\* The operator's command line invalidates a run, or a child run of a suite.
InvalidateRun(r) ==
    /\ Fault /\ run[r].status = "complete"
    /\ run' = [run EXCEPT ![r].status = "invalidated"]
    /\ UNCHANGED <<suite, damaged, policy, records, req>>

InvalidateChild(s) ==
    /\ Fault /\ suite[s].child = "complete"
    /\ suite' = [suite EXCEPT ![s].child = "invalidated"]
    /\ UNCHANGED <<run, damaged, policy, records, req>>

\* Files change on disk under their seal.
Damage(f) ==
    /\ Fault /\ f \notin damaged
    /\ damaged' = damaged \cup {f}
    /\ UNCHANGED <<run, suite, policy, records, req>>

\* The policy's content is edited under the same version.
EditPolicy ==
    /\ Fault /\ policy = 1
    /\ policy' = 2
    /\ UNCHANGED <<run, suite, damaged, records, req>>

\* What a reader of the files gets: damage changes the value.
Reads(f, good) == IF f \in damaged THEN ~good ELSE good

\* registry.show(verify=True): the files match the checksums of the registry.
RunVerifies(r) == r \in Runs /\ run[r] # NoRun /\ <<"run", r>> \notin damaged
RunComplete(r) == RunVerifies(r) /\ run[r].status = "complete"

\* verify_robustness_manifest_seal against the hash the job (or a pin) recorded.
SuiteSealed(s) == <<"suite", s>> \notin damaged

\* _validate_robustness_manifest: a suite of this very run.
SuiteOf(r, s) == suite[s].base = r

\* _verify_robustness_children and the show of the measurement: its children are
\* complete runs whose files match.
ChildrenVerified(s) == suite[s].child = "complete" /\ <<"child", s>> \notin damaged

\* _load_robustness_evidence after the seals: verified suites of this run, no two
\* of one type.
SuitesAccepted(r, S) ==
    /\ \A s \in S: SuiteOf(r, s) /\ ChildrenVerified(s)
    /\ \A s, u \in S: suite[s].type = suite[u].type => s = u

--------------------------------------------------------------------------------
(* Gates. *)

ChainGates ==
    {"net_pnl_non_negative"} \cup
    (IF "walk_forward" \in SuiteTypes THEN {"walk_forward_fold_pass_ratio"} ELSE {}) \cup
    (IF "cost_stress" \in SuiteTypes
     THEN {"cost_stress_combined_elevated_non_negative"} ELSE {})

\* What was read of a run (pnl) and of its suites (good: those that read well):
\* good values clear every threshold.
Measurement(metric, pnl, S, good) ==
    LET value(b) == IF b THEN 100 ELSE -100 IN
    IF metric = "net_pnl" THEN {value(pnl)}
    ELSE {value(s \in good): s \in {u \in S: suite[u].type = metric}}

\* evaluate: the verdict over the gates of policy 1.1.
Verdict(pnl, S, good) ==
    LET p == Policy("1.1", ChainGates) IN
    OverallStatus(p, [g \in ChainGates |->
                         GateOutcome(p[g], Measurement(p[g].metric, pnl, S, good))])

Lines(log, id) == {i \in 1 .. Len(log): log[i].id = id}
Last(log, id) == log[CHOOSE i \in Lines(log, id): \A j \in Lines(log, id): j <= i]

\* GateResultStore.get: the last line, over which a sidecar is binding.
GateStatus(g) ==
    IF Lines(gateLog, g) = {} THEN "unknown"
    ELSE IF g \in gateSide THEN "invalidated" ELSE Last(gateLog, g).status

\* verify_gate_record_artifact_checksums: the run's files and the suites' seals;
\* not the run's status and not the suites' children.
ArtifactsVerify(g) == RunVerifies(g.run) /\ \A s \in g.suites: SuiteSealed(s)

\* With verify_policy_content_hash.
GateVerifies(g) == g.policy = policy /\ ArtifactsVerify(g)

Begin(q, r) == req[q] = Free /\ req' = [req EXCEPT ![q] = r]
Done(q) == req' = [req EXCEPT ![q] = Free]
Continue(q, op) == req' = [req EXCEPT ![q].op = op]

\* _resolve_run: the run is complete and its files match.
EvaluateGate(q, r, S) ==
    /\ Slot /\ RunComplete(r)
    /\ Begin(q, [op |-> "gateRun", pnl |-> FALSE, copies |-> {},
                 id |-> [run |-> r, suites |-> S, policy |-> policy]])
    /\ UNCHANGED <<evidence, records, faults>>

\* The run's metrics are opened and read; then the seal of every manifest is
\* verified, and a broken one refuses.
ReadRunMetrics(q) ==
    LET g == req[q].id IN
    /\ req[q].op = "gateRun"
    /\ IF \A s \in g.suites: SuiteSealed(s)
       THEN req' = [req EXCEPT ![q].op = "gateSuites",
                               ![q].pnl = Reads(<<"run", g.run>>, run[g.run].good)]
       ELSE Done(q)
    /\ UNCHANGED <<evidence, records, faults>>

\* The manifests are opened and read, with their copies of the children's values;
\* then the children are verified.
ReadManifests(q) ==
    LET g == req[q].id IN
    /\ req[q].op = "gateSuites"
    /\ IF SuitesAccepted(g.run, g.suites)
       THEN req' = [req EXCEPT ![q].op = "gateMeasure",
                ![q].copies = {s \in g.suites: Reads(<<"suite", s>>, suite[s].good)}]
       ELSE Done(q)
    /\ UNCHANGED <<evidence, records, faults>>

ChildrenRead(S) == {s \in S: Reads(<<"child", s>>, suite[s].good)}
Judged(q, good) ==
    req' = [req EXCEPT ![q] = [op |-> "gateCheck", id |-> req[q].id,
                               overall |-> Verdict(req[q].pnl, req[q].id.suites, good)]]

\* Mutant: the child's value is taken without a look at the manifest's copy.
MeasureUncompared(q) ==
    /\ req[q].op = "gateMeasure" /\ Judged(q, ChildrenRead(req[q].id.suites))
    /\ UNCHANGED <<evidence, records, faults>>

\* The children's metrics are opened and read; one that disagrees with the copy in
\* the manifest refuses.
Measure(q) ==
    LET good == ChildrenRead(req[q].id.suites) IN
    /\ req[q].op = "gateMeasure"
    /\ IF good = req[q].copies THEN Judged(q, good) ELSE Done(q)
    /\ UNCHANGED <<evidence, records, faults>>

\* An active record is returned as it is, an invalidated one refused, and the
\* store's append refuses a sidecar even without a line.
CheckGate(q) ==
    /\ req[q].op = "gateCheck"
    /\ IF GateStatus(req[q].id) = "unknown" /\ req[q].id \notin gateSide
       THEN Continue(q, "gateAppend") ELSE Done(q)
    /\ UNCHANGED <<evidence, records, faults>>

\* Mutant: the new line drops the sidecar of an older one.
AppendGateReactivating(q) ==
    /\ req[q].op = "gateAppend" /\ Room
    /\ gateLog' = Append(gateLog, [id |-> req[q].id, status |-> "active",
                                   overall |-> req[q].overall])
    /\ gateSide' = gateSide \ {req[q].id} /\ Done(q)
    /\ UNCHANGED <<evidence, cardLog, cardSide, studyLog, decisions, faults>>

AppendGate(q) ==
    /\ req[q].op = "gateAppend" /\ Room
    /\ gateLog' = Append(gateLog, [id |-> req[q].id, status |-> "active",
                                   overall |-> req[q].overall])
    /\ Done(q)
    /\ UNCHANGED <<evidence, gateSide, cardLog, cardSide, studyLog, decisions, faults>>

\* GateResultStore.invalidate: the sidecar, then a superseding line.
InvalidateGate(q, g) ==
    /\ GateStatus(g) = "active"
    /\ gateSide' = gateSide \cup {g}
    /\ Begin(q, [op |-> "gateSupersede", id |-> g, overall |-> Last(gateLog, g).overall])
    /\ UNCHANGED <<evidence, gateLog, cardLog, cardSide, studyLog, decisions, faults>>

SupersedeGate(q) ==
    /\ req[q].op = "gateSupersede" /\ Room
    /\ gateLog' = Append(gateLog, [id |-> req[q].id, status |-> "invalidated",
                                   overall |-> req[q].overall])
    /\ Done(q)
    /\ UNCHANGED <<evidence, gateSide, cardLog, cardSide, studyLog, decisions, faults>>

--------------------------------------------------------------------------------
(* Scorecards. *)

\* ScorecardResultStore.get: the last line; the sidecar is not read back.
CardStatus(c) == IF Lines(cardLog, c) = {} THEN "unknown" ELSE Last(cardLog, c).status

\* _verify_bound_gate: the gate is active and its evidence verifies.
BoundGateVerifies(g) == g = NoGate \/ (GateStatus(g) = "active" /\ GateVerifies(g))

\* Mutant: the bound gate is not looked up again.
CardVerifiesRunOnly(c) == RunVerifies(c.run)

\* verify_scorecard_record_artifact_checksums
CardVerifies(c) == RunVerifies(c.run) /\ BoundGateVerifies(c.gate)

\* The gate a scorecard is asked to bind: an active verified gate of its run.
CardGateAccepted(c) == (c.gate # NoGate => c.gate.run = c.run) /\ BoundGateVerifies(c.gate)

\* ScorecardEvaluator.evaluate up to the record.
EvaluateCard(q, c) ==
    /\ Slot /\ RunComplete(c.run) /\ CardGateAccepted(c)
    /\ Begin(q, [op |-> "cardCheck", id |-> c])
    /\ UNCHANGED <<evidence, records, faults>>

CheckCard(q) ==
    /\ req[q].op = "cardCheck"
    /\ IF CardStatus(req[q].id) = "unknown" THEN Continue(q, "cardAppend") ELSE Done(q)
    /\ UNCHANGED <<evidence, records, faults>>

AppendCard(q) ==
    /\ req[q].op = "cardAppend" /\ Room
    /\ cardLog' = Append(cardLog, [id |-> req[q].id, status |-> "active"])
    /\ Done(q)
    /\ UNCHANGED <<evidence, gateLog, gateSide, cardSide, studyLog, decisions, faults>>

InvalidateCard(q, c) ==
    /\ Slot /\ CardStatus(c) = "active"
    /\ cardSide' = cardSide \cup {c}
    /\ Begin(q, [op |-> "cardSupersede", id |-> c])
    /\ UNCHANGED <<evidence, gateLog, gateSide, cardLog, studyLog, decisions, faults>>

SupersedeCard(q) ==
    /\ req[q].op = "cardSupersede" /\ Room
    /\ cardLog' = Append(cardLog, [id |-> req[q].id, status |-> "invalidated"])
    /\ Done(q)
    /\ UNCHANGED <<evidence, gateLog, gateSide, cardSide, studyLog, decisions, faults>>

--------------------------------------------------------------------------------
(* Reading a sealed artifact of a scorecard's run. *)

\* read_sealed_artifact_content up to the file: active, complete run, seals.
ReadArtifact(q, c) ==
    /\ Slot /\ CardStatus(c) = "active" /\ run[c.run].status = "complete"
    /\ CardVerifies(c)
    /\ Begin(q, [op |-> "read", id |-> c])
    /\ UNCHANGED <<evidence, records, faults>>

\* Mutant: the bytes are served without comparing their digest.
ServeArtifactUnchecked(q) ==
    LET r == req[q].id.run IN
    /\ req[q].op = "read"
    /\ req' = [req EXCEPT ![q] = [op |-> "served", id |-> req[q].id,
                                  value |-> Reads(<<"run", r>>, run[r].good)]]
    /\ UNCHANGED <<evidence, records, faults>>

\* The bytes are read once and their digest compared with the pinned one.
ServeArtifact(q) ==
    LET r == req[q].id.run IN
    /\ req[q].op = "read"
    /\ IF <<"run", r>> \in damaged THEN Done(q)
       ELSE req' = [req EXCEPT ![q] = [op |-> "served", id |-> req[q].id,
                                       value |-> Reads(<<"run", r>>, run[r].good)]]
    /\ UNCHANGED <<evidence, records, faults>>

ReplyArtifact(q) ==
    /\ req[q].op = "served" /\ Done(q)
    /\ UNCHANGED <<evidence, records, faults>>

--------------------------------------------------------------------------------
(* Validation studies. *)

\* _resolve_complete_entry: the newest complete run of its experiment.
NewestComplete(r) ==
    /\ run[r].status = "complete"
    /\ \A o \in Runs: o > r /\ run[o].exp = run[r].exp => run[o].status # "complete"

\* _pin_run_evidence: what create pins for an experiment.
RunPinned(r) == NewestComplete(r) /\ RunVerifies(r)

\* _pin_robustness, _pin_gate, _pin_scorecard: every pin exists, verifies and
\* belongs to one of the pinned runs.
PinsAccepted(p) ==
    /\ \A s \in p.suites: SuiteSealed(s) /\ suite[s].base \in PinnedRuns(p)
    /\ p.gate # NoGate => /\ GateStatus(p.gate) = "active"
                          /\ p.gate.run \in PinnedRuns(p) /\ GateVerifies(p.gate)
    /\ p.card # NoCard => /\ CardStatus(p.card) = "active"
                          /\ p.card.run \in PinnedRuns(p) /\ CardVerifies(p.card)

\* verify_snapshot: run pins, suite pins, gate pin, scorecard pin.
RunPinsVerify(p) == \A r \in PinnedRuns(p): RunComplete(r)
SuitePinsVerify(p) == \A s \in p.suites: SuiteSealed(s)
GatePinVerifies(p) ==
    p.gate # NoGate => GateStatus(p.gate) = "active" /\ GateVerifies(p.gate)
CardPinVerifies(p) ==
    p.card # NoCard => CardStatus(p.card) = "active" /\ CardVerifies(p.card)
SnapshotVerifies(p) ==
    RunPinsVerify(p) /\ SuitePinsVerify(p) /\ GatePinVerifies(p) /\ CardPinVerifies(p)

StudyStatus(p) == IF Lines(studyLog, p) = {} THEN "unknown" ELSE Last(studyLog, p).status

\* create: the primary run, then the additional ones (the primary named again pins
\* nothing new), then the other pins.  A request that names anything else is refused.
CreateStudy(q, r) ==
    /\ Slot /\ RunPinned(r)
    /\ Begin(q, [op |-> "studyRuns",
                 id |-> [run |-> r, more |-> {}, suites |-> {}, gate |-> NoGate,
                         card |-> NoCard]])
    /\ UNCHANGED <<evidence, records, faults>>

PinAdditional(q, M) ==
    /\ req[q].op = "studyRuns" /\ req[q].id.run \notin M /\ \A r \in M: RunPinned(r)
    /\ req' = [req EXCEPT ![q] = [op |-> "studyPin", id |-> [req[q].id EXCEPT !.more = M]]]
    /\ UNCHANGED <<evidence, records, faults>>

PinEvidence(q, S, g, c) ==
    LET p == [req[q].id EXCEPT !.suites = S, !.gate = g, !.card = c] IN
    /\ req[q].op = "studyPin" /\ PinsAccepted(p)
    /\ req' = [req EXCEPT ![q] = [op |-> "studyCheck", id |-> p]]
    /\ UNCHANGED <<evidence, records, faults>>

RefuseStudy(q) ==
    /\ req[q].op \in {"studyRuns", "studyPin"} /\ Done(q)
    /\ UNCHANGED <<evidence, records, faults>>

\* The deterministic id: an existing study is returned.
CheckStudy(q) ==
    /\ req[q].op = "studyCheck"
    /\ IF StudyStatus(req[q].id) = "unknown" THEN Continue(q, "studyAppend") ELSE Done(q)
    /\ UNCHANGED <<evidence, records, faults>>

AppendStudy(q) ==
    /\ req[q].op = "studyAppend" /\ Room
    /\ studyLog' = Append(studyLog, [id |-> req[q].id, status |-> "open", outcome |-> "none"])
    /\ Done(q)
    /\ UNCHANGED <<evidence, gateLog, gateSide, cardLog, cardSide, decisions, faults>>

\* decide: the snapshot is verified first.
Decide(q, p, o) ==
    /\ Slot /\ StudyStatus(p) # "unknown" /\ SnapshotVerifies(p)
    /\ Begin(q, [op |-> "decideRecord", id |-> p, outcome |-> o])
    /\ UNCHANGED <<evidence, records, faults>>

\* record_decision: refused if decided; the audit sidecar, then the line.
RecordDecision(q) ==
    /\ req[q].op = "decideRecord"
    /\ IF StudyStatus(req[q].id) = "open" /\ Len(decisions) < MaxEvents
       THEN /\ decisions' = Append(decisions, [id |-> req[q].id, outcome |-> req[q].outcome])
            /\ Continue(q, "decideLine")
       ELSE Done(q) /\ UNCHANGED decisions
    /\ UNCHANGED <<evidence, gateLog, gateSide, cardLog, cardSide, studyLog, faults>>

AppendDecision(q) ==
    /\ req[q].op = "decideLine" /\ Room
    /\ studyLog' = Append(studyLog, [id |-> req[q].id, status |-> "decided",
                                     outcome |-> req[q].outcome])
    /\ Done(q)
    /\ UNCHANGED <<evidence, gateLog, gateSide, cardLog, cardSide, decisions, faults>>

\* The API process dies: the requests in flight are gone.
Crash ==
    /\ Fault /\ \E q \in Callers: req[q] # Free
    /\ req' = [q \in Callers |-> Free]
    /\ UNCHANGED <<evidence, records>>
--------------------------------------------------------------------------------
GatesOf(q) ==
    \/ \E r \in Runs, S \in SUBSET Suites: EvaluateGate(q, r, S)
    \/ \E i \in 1 .. Len(gateLog): InvalidateGate(q, gateLog[i].id)
    \/ ReadRunMetrics(q) \/ ReadManifests(q) \/ Measure(q)
    \/ CheckGate(q) \/ AppendGate(q) \/ SupersedeGate(q)
KnownGates == {gateLog[i].id: i \in 1 .. Len(gateLog)} \cup {NoGate}
KnownCards == {cardLog[i].id: i \in 1 .. Len(cardLog)}
CardsOf(q) ==
    \/ \E r \in Runs, g \in KnownGates: EvaluateCard(q, [run |-> r, gate |-> g])
    \/ \E c \in KnownCards: InvalidateCard(q, c) \/ ReadArtifact(q, c)
    \/ CheckCard(q) \/ AppendCard(q) \/ SupersedeCard(q) \/ ServeArtifact(q)
    \/ ReplyArtifact(q)
StudiesOf(q) ==
    \/ \E r \in Runs: CreateStudy(q, r)
    \/ \E M \in SUBSET Runs: PinAdditional(q, M)
    \/ \E S \in SUBSET Suites, g \in KnownGates, c \in KnownCards \cup {NoCard}:
          PinEvidence(q, S, g, c)
    \/ RefuseStudy(q)
    \/ \E i \in 1 .. Len(studyLog), o \in Outcomes: Decide(q, studyLog[i].id, o)
    \/ CheckStudy(q) \/ AppendStudy(q) \/ RecordDecision(q) \/ AppendDecision(q)

Next ==
    \/ \E q \in Callers: GatesOf(q)
    \/ \E q \in CardCallers: CardsOf(q)
    \/ \E q \in StudyCallers: StudiesOf(q)
    \/ \E r \in Runs: RunCompletes(r) \/ InvalidateRun(r)
    \/ \E s \in Suites: InvalidateChild(s)
    \/ \E f \in Files: Damage(f)
    \/ EditPolicy \/ Crash

Spec == Init /\ [][Next]_vars

--------------------------------------------------------------------------------
(* Properties. *)

\* The stores hold records of their types, and a request in flight is one of
\* the steps of a handler.
TypeOK ==
    /\ run \in [Runs -> RunType]
    /\ suite \in [Suites -> SuiteType]
    /\ damaged \subseteq Files
    /\ policy \in 1 .. 2 /\ faults \in 0 .. MaxFaults
    /\ \A i \in 1 .. Len(gateLog):
          gateLog[i] \in [id: GateIds, status: {"active", "invalidated"},
                          overall: {"pass", "fail"}]
    /\ gateSide \subseteq GateIds /\ cardSide \subseteq CardIds
    /\ \A i \in 1 .. Len(cardLog):
          cardLog[i].id \in CardIds /\ cardLog[i].status \in {"active", "invalidated"}
    /\ \A i \in 1 .. Len(studyLog):
          /\ studyLog[i].id \in Pins /\ studyLog[i].status \in {"open", "decided"}
          /\ studyLog[i].outcome \in Outcomes \cup {"none"}
    /\ \A q \in Callers: req[q].op \in
          {"none", "gateRun", "gateSuites", "gateMeasure", "gateCheck", "gateAppend",
           "gateSupersede", "cardCheck", "cardAppend", "cardSupersede", "read", "served",
           "studyRuns", "studyPin", "studyCheck", "studyAppend", "decideRecord",
           "decideLine"}

\* GateResultStore: "rewriting the JSONL log back to active must not resurrect a
\* gate": once a reader sees a gate invalidated it stays so, whatever two
\* concurrent evaluations, invalidations and crashes append.
InvalidatedGateStaysSo ==
    [][\A i \in 1 .. Len(gateLog): LET g == gateLog[i].id IN
         GateStatus(g) = "invalidated" => GateStatus(g)' = "invalidated"]_vars

\* evaluate, compute_gate_run_id: the id does not hash the measurements, yet two
\* records under one id carry the same verdict while the files they name match
\* their checksums, whatever was damaged between a verification and its read.
OneVerdictPerGate ==
    \A i, j \in 1 .. Len(gateLog):
        gateLog[i].id = gateLog[j].id /\ ArtifactsVerify(gateLog[i].id) =>
            gateLog[i].overall = gateLog[j].overall

\* _overall_status_from_gates with _load_robustness_evidence: a pass whose record
\* verifies is backed by good values of the run itself and of a suite of that run
\* for every test type.  The record's checksums leave out the suites' children,
\* whose files are opened again after their verification: the manifest's copy of
\* the value is what a damaged child cannot agree with.
PassIsBacked ==
    \A i \in 1 .. Len(gateLog):
        gateLog[i].overall = "pass" /\ ArtifactsVerify(gateLog[i].id) =>
            /\ run[gateLog[i].id.run].good
            /\ \A t \in SuiteTypes: \E s \in gateLog[i].id.suites:
                  /\ suite[s].type = t /\ suite[s].good
                  /\ suite[s].base = gateLog[i].id.run

\* create: all evidence of a study is of its pinned runs, although these are
\* looked up before it, and the gate behind its scorecard is of the scorecard's
\* own run.
StudyOfPinnedRuns ==
    \A i \in 1 .. Len(studyLog): LET p == studyLog[i].id IN
        /\ \A s \in p.suites: suite[s].base \in PinnedRuns(p)
        /\ p.gate # NoGate => p.gate.run \in PinnedRuns(p)
        /\ p.card # NoCard => /\ p.card.run \in PinnedRuns(p)
                              /\ p.card.gate # NoGate => p.card.gate.run = p.card.run

\* verify_snapshot: a study whose snapshot verifies rests on complete, undamaged
\* runs, and neither the gate it pins nor the gate behind the scorecard it pins
\* is invalidated.
VerifiedMeansLive ==
    \A i \in 1 .. Len(studyLog): LET p == studyLog[i].id IN
        SnapshotVerifies(p) =>
            /\ \A r \in PinnedRuns(p):
                  run[r].status = "complete" /\ <<"run", r>> \notin damaged
            /\ \A g \in {p.gate, p.card.gate} \ {NoGate}:
                  g \notin gateSide /\ g.policy = policy

\* record_decision: a decided study always has its decision in the audit trail.
DecisionsAudited ==
    \A i \in 1 .. Len(studyLog): studyLog[i].status = "decided" =>
        \E j \in 1 .. Len(decisions):
            decisions[j] = [id |-> studyLog[i].id, outcome |-> studyLog[i].outcome]

\* read_sealed_artifact_content: what is answered for a sealed artifact is what
\* the run sealed, although the files may change between the verification and
\* the read.
ServedIsSealed ==
    \A q \in Callers: req[q].op = "served" => req[q].value = run[req[q].id.run].good

\* StudyStore: "a study can only be decided once".
DecidedOnce ==
    [][\A i \in 1 .. Len(studyLog): LET p == studyLog[i].id IN
         StudyStatus(p) = "decided" =>
            StudyStatus(p)' = "decided" /\ Last(studyLog, p)' = Last(studyLog, p)]_vars

\* Gate records that verify are backed by sealed evidence of their own run and never
\* disagree under one id, with concurrent evaluations and damage between the
\* verification of a file and its read (GateEvaluator.evaluate).
GatesAreBacked == TypeOK /\ PassIsBacked /\ OneVerdictPerGate

\* A study's evidence is of its pinned runs, verifies only while it lives, and the study
\* is decided only with an audit line (ValidationStudyService, whose pins are looked up
\* one by one).
StudiesAreSound == StudyOfPinnedRuns /\ VerifiedMeansLive /\ DecisionsAudited
================================================================================
