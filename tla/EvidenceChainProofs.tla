-------------------------- MODULE EvidenceChainProofs --------------------------
(***************************************************************************)
(* What the evidence chain guarantees for any number of callers, runs and  *)
(* suites: verdicts whose files still match are the verdicts of the sealed  *)
(* values, the evidence of a study is of its pinned runs, decisions are     *)
(* audited, served bytes are the sealed ones, and an invalidated gate never *)
(* comes back.                                                              *)
(***************************************************************************)
EXTENDS EvidenceChain, SequenceTheorems, WellFoundedInduction, TLAPS

--------------------------------------------------------------------------------
(* The append-only logs. *)

\* Every log that names an id has a last line for it (the lookup of
\* GateResultStore.get, which reads the whole file and keeps the last).
LEMMA LastLine ==
    ASSUME NEW T, NEW log \in Seq(T), NEW id, Lines(log, id) # {}
    PROVE  \E i \in 1 .. Len(log): log[i].id = id /\ Last(log, id) = log[i]
<1> DEFINE n == Len(log)
           L == Lines(log, id)
           D == {m \in Nat: \E i \in L: m = n - i}
<1>1. n \in Nat
  BY LenProperties
<1>2. L \subseteq 1 .. n
  BY DEF Lines
<1>3. D \subseteq Nat /\ D # {}
  <2>1. PICK i \in L: TRUE
    OBVIOUS
  <2>2. n - i \in Nat
    BY <1>1, <1>2
  <2>3. n - i \in D
    BY <2>2
  <2>. QED
    BY <2>3
<1>4. PICK d \in D: \A e \in D: ~ (<<e, d>> \in OpToRel(<, Nat))
  BY <1>3, WFMin, NatLessThanWellFounded, Zenon
<1>5. \A e \in D: ~ (e < d)
  BY <1>3, <1>4 DEF OpToRel
<1>6. \E i \in L: \A j \in L: j <= i
  <2>1. PICK i \in L: d = n - i
    OBVIOUS
  <2>2. ASSUME NEW j \in L PROVE j <= i
    <3>1. n - j \in D
      BY <1>1, <1>2
    <3> HIDE DEF D
    <3>2. ~ (n - j < n - i)
      BY <1>5, <3>1, <2>1
    <3>. QED
      BY <3>2, <2>1, <1>1, <1>2
  <2>. QED
    BY <2>2
<1>7. (CHOOSE i \in L: \A j \in L: j <= i) \in L
  BY <1>6
<1>. QED
  BY <1>7 DEF Lines, Last

\* What a new line changes.
LEMMA AppendedLine ==
    ASSUME NEW T, NEW log \in Seq(T), NEW line \in T
    PROVE  /\ Append(log, line) \in Seq(T)
           /\ \A i \in 1 .. Len(log): /\ i \in 1 .. Len(Append(log, line))
                                      /\ Append(log, line)[i] = log[i]
           /\ \A i \in 1 .. Len(Append(log, line)):
                 \/ i \in 1 .. Len(log) /\ Append(log, line)[i] = log[i]
                 \/ Append(log, line)[i] = line
<1>1. /\ Append(log, line) \in Seq(T)
      /\ Len(Append(log, line)) = Len(log) + 1
      /\ \A i \in 1 .. Len(log): Append(log, line)[i] = log[i]
      /\ Append(log, line)[Len(log) + 1] = line
  BY AppendProperties
<1>2. Len(log) \in Nat
  BY LenProperties
<1>. QED
  BY <1>1, <1>2

--------------------------------------------------------------------------------
(* The inductive invariant. *)

ReadOps == {"gateRun", "gateSuites", "gateMeasure"}
GateOps == {"gateCheck", "gateAppend", "gateSupersede"}
CardOps == {"cardCheck", "cardAppend", "cardSupersede", "read"}
PinOps == {"studyRuns", "studyPin"}
StudyOps == {"studyCheck", "studyAppend"}
DecideOps == {"decideRecord", "decideLine"}

GateLine == [id: GateIds, status: {"active", "invalidated"}, overall: {"pass", "fail"}]
CardLine == [id: CardIds, status: {"active", "invalidated"}]
StudyLine == [id: Pins, status: {"open", "decided"}, outcome: Outcomes \cup {"none"}]
Decision == [id: Pins, outcome: Outcomes]

Requests ==
    {Free}
    \cup [op: ReadOps, pnl: BOOLEAN, copies: SUBSET Suites, id: GateIds]
    \cup [op: GateOps, overall: {"pass", "fail"}, id: GateIds]
    \cup [op: CardOps, id: CardIds]
    \cup [op: {"served"}, id: CardIds, value: BOOLEAN]
    \cup [op: PinOps, id: Pins]
    \cup [op: StudyOps, id: Pins]
    \cup [op: DecideOps, id: Pins, outcome: Outcomes]

\* The verdict of the values that were sealed, whatever the files hold by now.
SealedVerdict(g) ==
    IF /\ run[g.run].good
       /\ \A t \in SuiteTypes: \E s \in g.suites:
             suite[s].type = t /\ suite[s].good /\ suite[s].base = g.run
    THEN "pass" ELSE "fail"

\* A verdict is the sealed one as long as the files of its gate match.
VerdictOK(g, v) == ArtifactsVerify(g) => v = SealedVerdict(g)

\* What an evaluation has read is what was sealed, unless the file is damaged by now.
ReadsOK(r) ==
    /\ run[r.id.run] # NoRun
    /\ r.op # "gateRun" /\ <<"run", r.id.run>> \notin damaged => r.pnl = run[r.id.run].good
    /\ r.op = "gateMeasure" =>
          /\ \A s \in r.id.suites: suite[s].base = r.id.run
          /\ \A s, u \in r.id.suites: suite[s].type = suite[u].type => s = u
          /\ \A s \in r.id.suites: <<"suite", s>> \notin damaged =>
                (s \in r.copies <=> suite[s].good)

\* The scorecard binds a gate of its own run; the pins of a study are of its runs.
CardOfOneRun(c) == c.gate # NoGate => c.gate.run = c.run
PinsSound(p) ==
    /\ \A s \in p.suites: suite[s].base \in PinnedRuns(p)
    /\ p.gate # NoGate => p.gate.run \in PinnedRuns(p)
    /\ p.card # NoCard => p.card.run \in PinnedRuns(p) /\ CardOfOneRun(p.card)

EvidenceTyped ==
    /\ run \in [Runs -> RunType]
    /\ suite \in [Suites -> SuiteType]
    /\ damaged \subseteq Files
    /\ policy \in 1 .. 2 /\ faults \in 0 .. MaxFaults

LogsTyped ==
    /\ gateLog \in Seq(GateLine) /\ cardLog \in Seq(CardLine)
    /\ studyLog \in Seq(StudyLine) /\ decisions \in Seq(Decision)
    /\ gateSide \subseteq GateIds /\ cardSide \subseteq CardIds

\* A line's verdict is sound, and a superseding line has its sidecar.
GateLineOK(i) ==
    /\ run[gateLog[i].id.run] # NoRun
    /\ VerdictOK(gateLog[i].id, gateLog[i].overall)
    /\ gateLog[i].status = "invalidated" => gateLog[i].id \in gateSide

CardLineOK(i) == CardOfOneRun(cardLog[i].id)

Audited(id, outcome) ==
    \E j \in 1 .. Len(decisions): decisions[j] = [id |-> id, outcome |-> outcome]

StudyLineOK(i) ==
    /\ PinsSound(studyLog[i].id)
    /\ studyLog[i].status = "decided" => Audited(studyLog[i].id, studyLog[i].outcome)

LinesOK ==
    /\ \A i \in 1 .. Len(gateLog): GateLineOK(i)
    /\ \A i \in 1 .. Len(cardLog): CardLineOK(i)
    /\ \A i \in 1 .. Len(studyLog): StudyLineOK(i)

\* What a request in flight may rely on when it writes.
RequestOK(q) ==
    /\ req[q].op \in ReadOps => ReadsOK(req[q])
    /\ req[q].op \in GateOps =>
          run[req[q].id.run] # NoRun /\ VerdictOK(req[q].id, req[q].overall)
    /\ req[q].op = "gateSupersede" => req[q].id \in gateSide
    /\ req[q].op \in CardOps => CardOfOneRun(req[q].id)
    /\ req[q].op \in {"read", "served"} => run[req[q].id.run] # NoRun
    /\ req[q].op = "served" => req[q].value = run[req[q].id.run].good
    /\ req[q].op \in StudyOps \cup DecideOps => PinsSound(req[q].id)
    /\ req[q].op = "decideLine" => Audited(req[q].id, req[q].outcome)

RequestsOK == req \in [Callers -> Requests] /\ \A q \in Callers: RequestOK(q)

ChainInv == EvidenceTyped /\ LogsTyped /\ LinesOK /\ RequestsOK

--------------------------------------------------------------------------------
(* The verdict at the time of the evaluation. *)

\* _overall_status_from_gates: every gate of the chain is critical, so the verdict
\* is a pass or a fail, and a pass only if every gate passes.
LEMMA VerdictForm ==
    ASSUME NEW pnl, NEW S, NEW good
    PROVE  LET p == Policy("1.1", ChainGates)
               out == [g \in ChainGates |->
                          GateOutcome(p[g], Measurement(p[g].metric, pnl, S, good))]
           IN  Verdict(pnl, S, good) =
                 IF \E g \in ChainGates: out[g] # "PASS" THEN "fail" ELSE "pass"
<1> DEFINE net == "net_pnl_non_negative"
           wf == "walk_forward_fold_pass_ratio"
           cost == "cost_stress_combined_elevated_non_negative"
           p == Policy("1.1", ChainGates)
           out == [g \in ChainGates |->
                      GateOutcome(p[g], Measurement(p[g].metric, pnl, S, good))]
<1>1. ChainGates \subseteq {net, wf, cost} /\ net \in ChainGates
  BY DEF ChainGates
<1>2. /\ DOMAIN p = ChainGates
      /\ \A g \in ChainGates: p[g] = Registered[g]
  BY DEF Policy
<1>3. \A g \in ChainGates: p[g].category \in CriticalCategories /\ p[g].category # ""
  <2>1. /\ Registered[net].category = "oos_net"
        /\ Registered[wf].category = "walk_forward"
        /\ Registered[cost].category = "cost_stress"
    BY DEF Registered
  <2>. QED
    BY <1>1, <1>2, <2>1 DEF CriticalCategories
<1>4. Verdict(pnl, S, good) = OverallStatus(p, out)
  BY DEF Verdict
<1> HIDE DEF p, out
<1>5. OverallStatus(p, out) =
        IF \E g \in ChainGates: out[g] # "PASS" THEN "fail" ELSE "pass"
  BY <1>1, <1>2, <1>3 DEF OverallStatus
<1>. QED
  BY <1>4, <1>5 DEF p, out

\* GateEvaluator.evaluate: over the sealed values it computes the sealed verdict.
LEMMA VerdictIsSealed ==
    ASSUME EvidenceTyped, NEW r \in Runs, NEW S \in SUBSET Suites, NEW pnl, NEW read,
           NEW k, pnl = run[r].good, \A s \in S: suite[s].base = r,
           \A s, u \in S: suite[s].type = suite[u].type => s = u,
           \A s \in S: s \in read <=> suite[s].good
    PROVE  Verdict(pnl, S, read) = SealedVerdict([run |-> r, suites |-> S, policy |-> k])
<1> DEFINE net == "net_pnl_non_negative"
           wf == "walk_forward_fold_pass_ratio"
           cost == "cost_stress_combined_elevated_non_negative"
           p == Policy("1.1", ChainGates)
           out == [g \in ChainGates |->
                      GateOutcome(p[g], Measurement(p[g].metric, pnl, S, read))]
           good(t) == \E s \in S: suite[s].type = t /\ suite[s].good /\ suite[s].base = r
<1>1. /\ ChainGates \subseteq {net, wf, cost} /\ net \in ChainGates
      /\ wf \in ChainGates <=> "walk_forward" \in SuiteTypes
      /\ cost \in ChainGates <=> "cost_stress" \in SuiteTypes
  BY DEF ChainGates
<1>2. \A g \in ChainGates: p[g] = Registered[g]
  BY DEF Policy
<1>4. /\ Registered[net].metric = "net_pnl" /\ Registered[net].cmp = "gte"
      /\ Registered[net].threshold = 0
      /\ Registered[wf].metric = "walk_forward" /\ Registered[wf].cmp = "gte"
      /\ Registered[wf].threshold = 50
      /\ Registered[cost].metric = "cost_stress" /\ Registered[cost].cmp = "gte"
      /\ Registered[cost].threshold = 0
  BY DEF Registered
<1>5. out[net] = "PASS" <=> run[r].good
  <2>1. Measurement("net_pnl", pnl, S, read) = {IF run[r].good THEN 100 ELSE -100}
    BY DEF Measurement
  <2>2. out[net] = GateOutcome(Registered[net], Measurement("net_pnl", pnl, S, read))
    BY <1>1, <1>2, <1>4
  <2>3. run[r].good \in BOOLEAN
    BY DEF EvidenceTyped, RunType
  <2> HIDE DEF out, p
  <2>4. CASE run[r].good
    <3>1. Measurement("net_pnl", pnl, S, read) = {100}
      BY <2>1, <2>4
    <3>2. Satisfies("gte", 100, 0)
      BY DEF Satisfies
    <3>. QED
      BY <2>2, <2>4, <1>4, <3>1, <3>2 DEF GateOutcome
  <2>5. CASE ~run[r].good
    BY <2>1, <2>2, <2>5, <1>4 DEF GateOutcome, Satisfies
  <2>. QED
    BY <2>3, <2>4, <2>5
<1>6. ASSUME NEW g \in {wf, cost}, g \in ChainGates
      PROVE  out[g] = "PASS" <=> good(Registered[g].metric)
  <2> DEFINE t == Registered[g].metric
             M == Measurement(t, pnl, S, read)
             val(b) == IF b THEN 100 ELSE -100
  <2>1. t # "net_pnl" /\ Registered[g].threshold \in {0, 50} /\ Registered[g].cmp = "gte"
    BY <1>4
  <2>2. M = {val(s \in read): s \in {u \in S: suite[u].type = t}}
    BY <2>1 DEF Measurement
  <2>3. out[g] = GateOutcome(Registered[g], M)
    BY <1>6, <1>2
  <2>4. \A s \in S: suite[s].good \in BOOLEAN /\ suite[s].base = r
    BY DEF EvidenceTyped, SuiteType
  <2>5. \A s, u \in S: suite[s].type = t /\ suite[u].type = t => s = u
    OBVIOUS
  <2> HIDE DEF out, p, M, t
  <2>6. CASE \A s \in S: suite[s].type # t
    <3>1. M = {}
      BY <2>2, <2>6
    <3>2. out[g] # "PASS"
      BY <3>1, <2>3 DEF GateOutcome
    <3>. QED
      BY <3>2, <2>6 DEF t
  <2>7. ASSUME NEW s \in S, suite[s].type = t
        PROVE  out[g] = "PASS" <=> good(Registered[g].metric)
    <3>1. M = {val(s \in read)}
      BY <2>2, <2>5, <2>7
    <3>2. good(t) <=> suite[s].good
      BY <2>4, <2>5, <2>7
    <3>3. CASE suite[s].good
      BY <3>1, <3>2, <3>3, <2>1, <2>3 DEF GateOutcome, Satisfies, t
    <3>4. CASE ~suite[s].good
      BY <3>1, <3>2, <3>4, <2>1, <2>3 DEF GateOutcome, Satisfies, t
    <3>. QED
      BY <3>3, <3>4
  <2>. QED
    BY <2>6, <2>7
<1>7. Verdict(pnl, S, read) = IF \E g \in ChainGates: out[g] # "PASS" THEN "fail" ELSE "pass"
  BY VerdictForm
<1> HIDE DEF p, out, good
<1>9. (\A g \in ChainGates: out[g] = "PASS") <=>
        run[r].good /\ \A t \in SuiteTypes: good(t)
  <2>1. SuiteTypes \subseteq {"walk_forward", "cost_stress"}
    BY ChainAssumptions
  <2>2. ("walk_forward" \in SuiteTypes =>
            (out[wf] = "PASS" <=> good("walk_forward")))
    BY <1>1, <1>4, <1>6
  <2>3. ("cost_stress" \in SuiteTypes =>
            (out[cost] = "PASS" <=> good("cost_stress")))
    BY <1>1, <1>4, <1>6
  <2>. QED
    BY <1>1, <1>5, <2>1, <2>2, <2>3
<1>. QED
  BY <1>7, <1>9 DEF SealedVerdict, good

--------------------------------------------------------------------------------
(* Every step keeps the sealed values and only adds to the records. *)

Grows ==
    /\ \A r \in Runs: run[r] # NoRun => run'[r] # NoRun /\ run'[r].good = run[r].good
    /\ \A s \in Suites: /\ suite'[s].base = suite[s].base
                        /\ suite'[s].type = suite[s].type
                        /\ suite'[s].good = suite[s].good
    /\ damaged \subseteq damaged' /\ gateSide \subseteq gateSide'
    /\ \A j \in 1 .. Len(decisions):
          j \in 1 .. Len(decisions') /\ decisions'[j] = decisions[j]

\* The verdict of sealed evidence does not change.
LEMMA SealedVerdictKept ==
    ASSUME Grows, NEW g \in GateIds, run[g.run] # NoRun
    PROVE  SealedVerdict(g)' = SealedVerdict(g)
<1>1. g.run \in Runs /\ g.suites \subseteq Suites
  BY DEF GateIds
<1>2. run'[g.run].good = run[g.run].good
  BY <1>1 DEF Grows
<1>3. \A s \in g.suites: /\ suite'[s].base = suite[s].base
                         /\ suite'[s].type = suite[s].type
                         /\ suite'[s].good = suite[s].good
  BY <1>1 DEF Grows
<1>. QED
  BY <1>2, <1>3 DEF SealedVerdict

\* A sound verdict stays sound: files that match now have matched before.
LEMMA VerdictKept ==
    ASSUME Grows, NEW g \in GateIds, NEW v, run[g.run] # NoRun, VerdictOK(g, v)
    PROVE  VerdictOK(g, v)'
<1>1. g.run \in Runs
  BY DEF GateIds
<1>2. ArtifactsVerify(g)' => ArtifactsVerify(g)
  BY <1>1 DEF Grows, ArtifactsVerify, RunVerifies, SuiteSealed
<1>3. SealedVerdict(g)' = SealedVerdict(g)
  BY SealedVerdictKept
<1>. QED
  BY <1>2, <1>3 DEF VerdictOK

\* So does what an evaluation has read.
LEMMA ReadsKept ==
    ASSUME Grows, NEW r, r.id \in GateIds, ReadsOK(r)
    PROVE  ReadsOK(r)'
<1>1. r.id.run \in Runs /\ r.id.suites \subseteq Suites
  BY DEF GateIds
<1>2. run'[r.id.run] # NoRun /\ run'[r.id.run].good = run[r.id.run].good
  BY <1>1 DEF Grows, ReadsOK
<1>3. \A s \in r.id.suites: /\ suite'[s].base = suite[s].base
                            /\ suite'[s].type = suite[s].type
                            /\ suite'[s].good = suite[s].good
  BY <1>1 DEF Grows
<1>4. damaged \subseteq damaged'
  BY DEF Grows
<1>. QED
  BY <1>2, <1>3, <1>4 DEF ReadsOK

\* And the pins of a study.
LEMMA PinsKept ==
    ASSUME Grows, NEW p \in Pins, PinsSound(p)
    PROVE  PinsSound(p)'
<1>1. \A s \in p.suites: suite'[s].base = suite[s].base
  BY DEF Grows, Pins
<1>. QED
  BY <1>1 DEF PinsSound, CardOfOneRun, PinnedRuns

\* What holds of a value holds of the request that carries it.
LEMMA Carried ==
    ASSUME NEW q, NEW r, req'[q] = r
    PROVE  /\ ReadsOK(r)' => ReadsOK(req[q])'
           /\ VerdictOK(r.id, r.overall)' => VerdictOK(req[q].id, req[q].overall)'
           /\ PinsSound(r.id)' => PinsSound(req[q].id)'
BY DEF ReadsOK, VerdictOK, ArtifactsVerify, RunVerifies, SuiteSealed, SealedVerdict,
       PinsSound, CardOfOneRun, PinnedRuns

\* A decision that has its audit line keeps it.
LEMMA AuditedKept ==
    ASSUME Grows, NEW id, NEW outcome, Audited(id, outcome)
    PROVE  Audited(id, outcome)'
BY DEF Grows, Audited

\* The type of a request decides which fields it has.
LEMMA RequestFields ==
    ASSUME NEW r \in Requests
    PROVE  /\ r.op \in ReadOps =>
                 r \in [op: ReadOps, pnl: BOOLEAN, copies: SUBSET Suites, id: GateIds]
           /\ r.op \in GateOps => r \in [op: GateOps, overall: {"pass", "fail"}, id: GateIds]
           /\ r.op \in CardOps => r \in [op: CardOps, id: CardIds]
           /\ r.op = "served" => r \in [op: {"served"}, id: CardIds, value: BOOLEAN]
           /\ r.op \in PinOps => r \in [op: PinOps, id: Pins]
           /\ r.op \in StudyOps => r \in [op: StudyOps, id: Pins]
           /\ r.op \in DecideOps => r \in [op: DecideOps, id: Pins, outcome: Outcomes]
BY DEF Requests, Free, ReadOps, GateOps, CardOps, PinOps, StudyOps, DecideOps

\* A caller whose request is not touched keeps what its request relies on.
LEMMA RequestKept ==
    ASSUME ChainInv, Grows, NEW p \in Callers, req'[p] = req[p]
    PROVE  RequestOK(p)'
<1>1. PICK r \in Requests: r = req[p]
  BY DEF ChainInv, RequestsOK
<1>2. RequestOK(p) /\ req'[p] = r
  BY <1>1 DEF ChainInv, RequestsOK
<1>3. ASSUME r.op \in ReadOps PROVE ReadsOK(req[p])'
  <2>1. r.id \in GateIds
    BY <1>3, RequestFields
  <2>2. ReadsOK(r)
    BY <1>1, <1>2, <1>3 DEF RequestOK
  <2>. QED
    BY <1>2, <2>1, <2>2, ReadsKept, Carried
<1>4. ASSUME r.op \in GateOps
      PROVE  run'[r.id.run] # NoRun /\ VerdictOK(req[p].id, req[p].overall)'
  <2>1. r.id \in GateIds
    BY <1>4, RequestFields
  <2>2. run[r.id.run] # NoRun /\ VerdictOK(r.id, r.overall)
    BY <1>1, <1>2, <1>4 DEF RequestOK
  <2>3. run'[r.id.run] # NoRun
    BY <2>1, <2>2 DEF Grows, GateIds
  <2>4. VerdictOK(r.id, r.overall)'
    BY <2>1, <2>2, VerdictKept
  <2>. QED
    BY <1>2, <2>3, <2>4, Carried
<1>5. ASSUME r.op \in {"read", "served"}
      PROVE  /\ run'[r.id.run] # NoRun
             /\ run'[r.id.run].good = run[r.id.run].good
  <2>1. r.id.run \in Runs /\ run[r.id.run] # NoRun
    BY <1>1, <1>2, <1>5, RequestFields DEF RequestOK, CardIds, CardOps
  <2>. QED
    BY <2>1 DEF Grows
<1>6. ASSUME r.op \in StudyOps \cup DecideOps PROVE PinsSound(req[p].id)'
  <2>1. r.id \in Pins
    BY <1>6, RequestFields
  <2>2. PinsSound(r.id)
    BY <1>1, <1>2, <1>6 DEF RequestOK
  <2>. QED
    BY <1>2, <2>1, <2>2, PinsKept, Carried
<1>7. req[p].op = "decideLine" => Audited(req[p].id, req[p].outcome)'
  BY <1>2, AuditedKept DEF RequestOK
<1>8. r.op = "gateSupersede" => r.id \in gateSide'
  BY <1>1, <1>2 DEF RequestOK, Grows
<1>9. /\ r.op \in CardOps => CardOfOneRun(r.id)
      /\ r.op = "served" => r.value = run[r.id.run].good
  BY <1>1, <1>2 DEF RequestOK
<1>10. /\ r.op \in CardOps => CardOfOneRun(req'[p].id)
       /\ r.op = "served" => req'[p].value = run'[req'[p].id.run].good
  BY <1>2, <1>5, <1>9
<1>. QED
  BY <1>1, <1>2, <1>3, <1>4, <1>5, <1>6, <1>7, <1>8, <1>10 DEF RequestOK, CardOfOneRun

\* So do the lines that were there before.
LEMMA LinesKept ==
    ASSUME ChainInv, Grows
    PROVE  /\ \A i \in 1 .. Len(gateLog): gateLog'[i] = gateLog[i] => GateLineOK(i)'
           /\ \A i \in 1 .. Len(cardLog): cardLog'[i] = cardLog[i] => CardLineOK(i)'
           /\ \A i \in 1 .. Len(studyLog): studyLog'[i] = studyLog[i] => StudyLineOK(i)'
<1>1. ASSUME NEW i \in 1 .. Len(gateLog), gateLog'[i] = gateLog[i]
      PROVE  GateLineOK(i)'
  <2>1. gateLog[i] \in GateLine /\ GateLineOK(i)
    BY ElementOfSeq DEF ChainInv, LogsTyped, LinesOK
  <2>2. gateLog[i].id \in GateIds /\ gateLog[i].id.run \in Runs
    BY <2>1 DEF GateLine, GateIds
  <2>3. run[gateLog[i].id.run] # NoRun /\ run'[gateLog[i].id.run] # NoRun
    BY <2>1, <2>2 DEF GateLineOK, Grows
  <2>4. VerdictOK(gateLog[i].id, gateLog[i].overall)'
    <3>1. PICK g \in GateIds, v \in {"pass", "fail"}: g = gateLog[i].id /\ v = gateLog[i].overall
      BY <2>1, <2>2 DEF GateLine
    <3>2. VerdictOK(g, v)
      BY <2>1, <3>1 DEF GateLineOK
    <3>3. VerdictOK(g, v)'
      BY <2>3, <3>1, <3>2, VerdictKept
    <3>. QED
      BY <1>1, <3>1, <3>3 DEF VerdictOK, ArtifactsVerify, RunVerifies, SuiteSealed,
         SealedVerdict
  <2>5. gateLog[i].status = "invalidated" => gateLog[i].id \in gateSide'
    BY <2>1 DEF GateLineOK, Grows
  <2>. QED
    BY <1>1, <2>1, <2>3, <2>4, <2>5 DEF GateLineOK
<1>2. ASSUME NEW i \in 1 .. Len(cardLog), cardLog'[i] = cardLog[i]
      PROVE  CardLineOK(i)'
  BY <1>2 DEF ChainInv, LinesOK, CardLineOK
<1>3. ASSUME NEW i \in 1 .. Len(studyLog), studyLog'[i] = studyLog[i]
      PROVE  StudyLineOK(i)'
  <2>1. StudyLineOK(i) /\ studyLog[i] \in StudyLine
    BY ElementOfSeq DEF ChainInv, LogsTyped, LinesOK
  <2>3. PinsSound(studyLog[i].id)'
    <3>1. PICK p \in Pins: p = studyLog[i].id
      BY <2>1 DEF StudyLine
    <3>2. PinsSound(p)'
      BY <2>1, <3>1, PinsKept DEF StudyLineOK
    <3>. QED
      BY <1>3, <3>1, <3>2 DEF PinsSound, CardOfOneRun, PinnedRuns
  <2>2. studyLog[i].status = "decided" => Audited(studyLog[i].id, studyLog[i].outcome)'
    BY <1>3, <2>1, AuditedKept DEF StudyLineOK
  <2>. QED
    BY <1>3, <2>2, <2>3 DEF StudyLineOK
<1>. QED
  BY <1>1, <1>2, <1>3

\* A step that touches neither the logs nor the sealed values and gives one
\* caller a sound request (or none).
LEMMA RequestStep ==
    ASSUME ChainInv, NEW q \in Callers, NEW r \in Requests,
           Grows, EvidenceTyped', UNCHANGED <<gateLog, cardLog, studyLog, cardSide>>,
           gateSide' \subseteq GateIds, decisions' \in Seq(Decision),
           req' = [req EXCEPT ![q] = r],
           r = Free \/ RequestOK(q)'
    PROVE  ChainInv'
<1>1. LogsTyped'
  BY DEF ChainInv, LogsTyped
<1>2. LinesOK'
  BY LinesKept DEF LinesOK
<1>3. req' \in [Callers -> Requests] /\ req'[q] = r
      /\ \A p \in Callers: p # q => req'[p] = req[p]
  BY DEF ChainInv, RequestsOK
<1>4. r = Free => RequestOK(q)'
  BY <1>3 DEF RequestOK, Free, ReadOps, GateOps, CardOps, StudyOps, DecideOps
<1>5. \A p \in Callers: RequestOK(p)'
  BY <1>3, <1>4, RequestKept
<1>. QED
  BY <1>1, <1>2, <1>3, <1>5 DEF ChainInv, RequestsOK

\* Nothing changes but the requests and the logs.
LEMMA GrowsTrivially ==
    ASSUME UNCHANGED <<evidence, gateSide, decisions>>
    PROVE  Grows
BY DEF Grows, evidence

\* A step that leaves the evidence alone leaves what is said of it.
LEMMA EvidenceStays ==
    ASSUME ChainInv, UNCHANGED <<evidence, faults>>
    PROVE  EvidenceTyped'
BY DEF ChainInv, EvidenceTyped, evidence

\* A step that ends a request by adding a sound line to a log.
LEMMA AppendStep ==
    ASSUME ChainInv, NEW q \in Callers, Done(q),
           UNCHANGED <<evidence, gateSide, cardSide, decisions, faults>>, LogsTyped',
           \A i \in 1 .. Len(gateLog'):
               (i \in 1 .. Len(gateLog) /\ gateLog'[i] = gateLog[i]) \/ GateLineOK(i)',
           \A i \in 1 .. Len(cardLog'):
               (i \in 1 .. Len(cardLog) /\ cardLog'[i] = cardLog[i]) \/ CardLineOK(i)',
           \A i \in 1 .. Len(studyLog'):
               (i \in 1 .. Len(studyLog) /\ studyLog'[i] = studyLog[i]) \/ StudyLineOK(i)'
    PROVE  ChainInv'
<1>1. Grows
  BY GrowsTrivially
<1>2. EvidenceTyped'
  BY EvidenceStays
<1>3. LinesOK'
  BY <1>1, LinesKept DEF LinesOK
<1>4. req' \in [Callers -> Requests] /\ req'[q] = Free
      /\ \A p \in Callers: p # q => req'[p] = req[p]
  BY DEF ChainInv, RequestsOK, Done, Requests
<1>5. RequestOK(q)'
  BY <1>4 DEF RequestOK, Free, ReadOps, GateOps, CardOps, StudyOps, DecideOps
<1>6. \A p \in Callers: RequestOK(p)'
  BY <1>1, <1>4, <1>5, RequestKept
<1>. QED
  BY <1>2, <1>3, <1>4, <1>6 DEF ChainInv, RequestsOK

\* A step that only moves a request.
LEMMA MoveStep ==
    ASSUME ChainInv, NEW q \in Callers, NEW r \in Requests,
           UNCHANGED <<evidence, records, faults>>,
           req' = [req EXCEPT ![q] = r], r = Free \/ RequestOK(q)'
    PROVE  ChainInv'
<1>1. Grows
  BY GrowsTrivially DEF records
<1>2. EvidenceTyped'
  BY EvidenceStays
<1>3. gateSide' \subseteq GateIds /\ decisions' \in Seq(Decision)
      /\ UNCHANGED <<gateLog, cardLog, studyLog, cardSide>>
  BY DEF ChainInv, LogsTyped, records
<1>. QED
  BY <1>1, <1>2, <1>3, RequestStep

\* The new contents of a request that goes on to its next step.
LEMMA ContinuedRequest ==
    ASSUME ChainInv, NEW q \in Callers, NEW op, Continue(q, op),
           \/ req[q].op \in GateOps /\ op \in GateOps
           \/ req[q].op \in CardOps /\ op \in CardOps
           \/ req[q].op \in StudyOps /\ op \in StudyOps
           \/ req[q].op \in DecideOps /\ op \in DecideOps
    PROVE  \E r \in Requests:
             /\ req' = [req EXCEPT ![q] = r] /\ req'[q] = r
             /\ r.op = op /\ r.id = req[q].id
             /\ req[q].op \in GateOps => r.overall = req[q].overall
             /\ req[q].op \in DecideOps => r.outcome = req[q].outcome
<1> DEFINE r == [req[q] EXCEPT !.op = op]
<1>1. req \in [Callers -> Requests] /\ req[q] \in Requests
  BY DEF ChainInv, RequestsOK
<1>2. req' = [req EXCEPT ![q] = r] /\ req'[q] = r
  BY <1>1 DEF Continue
<1>3. CASE req[q].op \in GateOps /\ op \in GateOps
  <2>1. req[q] \in [op: GateOps, overall: {"pass", "fail"}, id: GateIds]
    BY <1>1, <1>3, RequestFields
  <2>2. r \in [op: GateOps, overall: {"pass", "fail"}, id: GateIds]
    BY <1>3, <2>1
  <2>. QED
    BY <1>2, <1>3, <2>1, <2>2 DEF Requests, GateOps, DecideOps
<1>4. CASE req[q].op \in CardOps /\ op \in CardOps
  <2>1. req[q] \in [op: CardOps, id: CardIds]
    BY <1>1, <1>4, RequestFields
  <2>2. r \in [op: CardOps, id: CardIds]
    BY <1>4, <2>1
  <2>. QED
    BY <1>2, <1>4, <2>1, <2>2 DEF Requests, CardOps, GateOps, DecideOps
<1>5. CASE req[q].op \in StudyOps /\ op \in StudyOps
  <2>1. req[q] \in [op: StudyOps, id: Pins]
    BY <1>1, <1>5, RequestFields
  <2>2. r \in [op: StudyOps, id: Pins]
    BY <1>5, <2>1
  <2>. QED
    BY <1>2, <1>5, <2>1, <2>2 DEF Requests, StudyOps, GateOps, DecideOps
<1>6. CASE req[q].op \in DecideOps /\ op \in DecideOps
  <2>1. req[q] \in [op: DecideOps, id: Pins, outcome: Outcomes]
    BY <1>1, <1>6, RequestFields
  <2>2. r \in [op: DecideOps, id: Pins, outcome: Outcomes]
    BY <1>6, <2>1
  <2>. QED
    BY <1>2, <1>6, <2>1, <2>2 DEF Requests, DecideOps, GateOps
<1>. QED
  BY <1>3, <1>4, <1>5, <1>6

--------------------------------------------------------------------------------
(* Gates. *)

\* The record an invalidation copies is a line of its gate.
LEMMA LastGateLine ==
    ASSUME ChainInv, NEW g, Lines(gateLog, g) # {}
    PROVE  /\ g \in GateIds /\ run[g.run] # NoRun
           /\ Last(gateLog, g).overall \in {"pass", "fail"}
           /\ VerdictOK(g, Last(gateLog, g).overall)
           /\ Last(gateLog, g).status \in {"active", "invalidated"}
           /\ Last(gateLog, g).status = "invalidated" => g \in gateSide
<1>1. gateLog \in Seq(GateLine)
  BY DEF ChainInv, LogsTyped
<1>2. PICK i \in 1 .. Len(gateLog): gateLog[i].id = g /\ Last(gateLog, g) = gateLog[i]
  BY <1>1, LastLine
<1>3. gateLog[i] \in GateLine /\ GateLineOK(i)
  BY <1>1, ElementOfSeq DEF ChainInv, LinesOK
<1>. QED
  BY <1>2, <1>3 DEF GateLine, GateLineOK

\* EvaluateGate keeps the invariant.
LEMMA EvaluateGateKeeps ==
    ASSUME ChainInv, NEW q \in Callers, NEW r \in Runs, NEW S \in SUBSET Suites,
           EvaluateGate(q, r, S)
    PROVE  ChainInv'
<1> DEFINE g == [run |-> r, suites |-> S, policy |-> policy]
<1>1. PICK rec: rec = [op |-> "gateRun", pnl |-> FALSE, copies |-> {}, id |-> g]
  OBVIOUS
<1>2. EvidenceTyped /\ req \in [Callers -> Requests]
  BY DEF ChainInv, RequestsOK
<1>3. g \in GateIds
  BY <1>2 DEF EvidenceTyped, GateIds
<1>4. rec \in Requests
  BY <1>1, <1>3 DEF Requests, ReadOps
<1>5. req' = [req EXCEPT ![q] = rec] /\ UNCHANGED <<evidence, records, faults>>
  BY <1>1 DEF EvaluateGate, Begin
<1>6. req'[q] = rec
  BY <1>2, <1>5
<1>7. run'[r] # NoRun
  BY <1>5 DEF EvaluateGate, RunComplete, RunVerifies, evidence
<1>8. rec.op = "gateRun" /\ rec.id.run = r
  BY <1>1
<1>9. ReadsOK(rec)'
  BY <1>7, <1>8 DEF ReadsOK
<1>10. RequestOK(q)'
  BY <1>6, <1>8, <1>9, Carried DEF RequestOK, ReadOps, GateOps, CardOps, StudyOps, DecideOps
<1>. QED
  BY <1>4, <1>5, <1>10, MoveStep

\* The idle caller has a typed request.
LEMMA FreeIsRequest == Free \in Requests
BY DEF Requests

\* A request that ends without a line.
LEMMA DoneKeeps ==
    ASSUME ChainInv, NEW q \in Callers, Done(q), UNCHANGED <<evidence, records, faults>>
    PROVE  ChainInv'
BY MoveStep, FreeIsRequest DEF Done

\* The reads of an evaluation: what one step adds to its request.
LEMMA ReadStep ==
    ASSUME ChainInv, NEW q \in Callers, NEW r \in Requests, r.op \in ReadOps, ReadsOK(r),
           UNCHANGED <<evidence, records, faults>>, req' = [req EXCEPT ![q] = r]
    PROVE  ChainInv'
<1>1. req'[q] = r
  BY DEF ChainInv, RequestsOK
<1>2. ReadsOK(r)'
  BY DEF ReadsOK, evidence
<1>3. RequestOK(q)'
  BY <1>1, <1>2, Carried DEF RequestOK, ReadOps, GateOps, CardOps, StudyOps, DecideOps
<1>. QED
  BY <1>3, MoveStep

\* ReadRunMetrics keeps the invariant.
LEMMA ReadRunMetricsKeeps ==
    ASSUME ChainInv, NEW q \in Callers, ReadRunMetrics(q)
    PROVE  ChainInv'
<1> DEFINE g == req[q].id
<1>1. CASE Done(q)
  BY <1>1, DoneKeeps DEF ReadRunMetrics
<1>2. CASE req' = [req EXCEPT ![q].op = "gateSuites",
                              ![q].pnl = Reads(<<"run", g.run>>, run[g.run].good)]
  <2>1. EvidenceTyped /\ req \in [Callers -> Requests] /\ RequestOK(q)
    BY DEF ChainInv, RequestsOK
  <2>2. req[q].op = "gateRun" /\ UNCHANGED <<evidence, records, faults>>
    BY DEF ReadRunMetrics
  <2>3. req[q] \in [op: ReadOps, pnl: BOOLEAN, copies: SUBSET Suites, id: GateIds]
    BY <2>1, <2>2, RequestFields DEF ReadOps
  <2>4. g.run \in Runs /\ run[g.run] # NoRun
    BY <2>1, <2>2, <2>3 DEF RequestOK, ReadsOK, ReadOps, GateIds
  <2>5. PICK v \in BOOLEAN: v = Reads(<<"run", g.run>>, run[g.run].good)
    BY <2>1, <2>4 DEF Reads, EvidenceTyped, RunType
  <2>6. PICK r: r = [req[q] EXCEPT !.op = "gateSuites", !.pnl = v]
    OBVIOUS
  <2>7. r \in [op: ReadOps, pnl: BOOLEAN, copies: SUBSET Suites, id: GateIds]
    BY <2>3, <2>6 DEF ReadOps
  <2>8. r.op = "gateSuites" /\ r.pnl = v /\ r.id = g
    BY <2>3, <2>6
  <2>9. req' = [req EXCEPT ![q] = r]
    BY <1>2, <2>1, <2>5, <2>6
  <2>10. ReadsOK(r)
    BY <2>4, <2>5, <2>8 DEF ReadsOK, Reads
  <2>. QED
    BY <2>2, <2>7, <2>8, <2>9, <2>10, ReadStep DEF Requests, ReadOps
<1>. QED
  BY <1>1, <1>2 DEF ReadRunMetrics

\* ReadManifests keeps the invariant.
LEMMA ReadManifestsKeeps ==
    ASSUME ChainInv, NEW q \in Callers, ReadManifests(q)
    PROVE  ChainInv'
<1> DEFINE g == req[q].id
           cs == {s \in g.suites: Reads(<<"suite", s>>, suite[s].good)}
<1>1. CASE Done(q)
  BY <1>1, DoneKeeps DEF ReadManifests
<1>2. CASE /\ SuitesAccepted(g.run, g.suites)
           /\ req' = [req EXCEPT ![q].op = "gateMeasure", ![q].copies = cs]
  <2>1. EvidenceTyped /\ req \in [Callers -> Requests] /\ RequestOK(q)
    BY DEF ChainInv, RequestsOK
  <2>2. req[q].op = "gateSuites" /\ UNCHANGED <<evidence, records, faults>>
    BY DEF ReadManifests
  <2>3. req[q] \in [op: ReadOps, pnl: BOOLEAN, copies: SUBSET Suites, id: GateIds]
    BY <2>1, <2>2, RequestFields DEF ReadOps
  <2>4. g.suites \subseteq Suites /\ ReadsOK(req[q])
    BY <2>1, <2>2, <2>3 DEF RequestOK, ReadOps, GateIds
  <2>5. PICK c \in SUBSET Suites: c = cs
    BY <2>4
  <2>6. \A s \in g.suites: <<"suite", s>> \notin damaged => (s \in c <=> suite[s].good)
    BY <2>5 DEF Reads
  <2>7. PICK r: r = [req[q] EXCEPT !.op = "gateMeasure", !.copies = c]
    OBVIOUS
  <2>8. r \in [op: ReadOps, pnl: BOOLEAN, copies: SUBSET Suites, id: GateIds]
    BY <2>3, <2>7 DEF ReadOps
  <2>9. r.op = "gateMeasure" /\ r.copies = c /\ r.id = g /\ r.pnl = req[q].pnl
    BY <2>3, <2>7
  <2>10. req' = [req EXCEPT ![q] = r]
    BY <1>2, <2>1, <2>5, <2>7
  <2>11. ReadsOK(r)
    BY <1>2, <2>2, <2>4, <2>6, <2>9 DEF ReadsOK, SuitesAccepted, SuiteOf
  <2>. QED
    BY <2>2, <2>8, <2>9, <2>10, <2>11, ReadStep DEF Requests, ReadOps
<1>. QED
  BY <1>1, <1>2 DEF ReadManifests

\* Measure keeps the invariant: the values read of the children are the copies of
\* the manifests, and these are the sealed values unless a manifest is damaged.
LEMMA MeasureKeeps ==
    ASSUME ChainInv, NEW q \in Callers, Measure(q)
    PROVE  ChainInv'
<1> DEFINE g == req[q].id
           good == ChildrenRead(g.suites)
           v == Verdict(req[q].pnl, g.suites, good)
<1>1. CASE Done(q)
  BY <1>1, DoneKeeps DEF Measure
<1>2. CASE good = req[q].copies /\ Judged(q, good)
  <2>1. EvidenceTyped /\ req \in [Callers -> Requests] /\ RequestOK(q)
    BY DEF ChainInv, RequestsOK
  <2>2. req[q].op = "gateMeasure" /\ UNCHANGED <<evidence, records, faults>>
    BY DEF Measure
  <2>3. req[q] \in [op: ReadOps, pnl: BOOLEAN, copies: SUBSET Suites, id: GateIds]
    BY <2>1, <2>2, RequestFields DEF ReadOps
  <2>4. ReadsOK(req[q]) /\ run[g.run] # NoRun
    BY <2>1, <2>2 DEF RequestOK, ReadOps, ReadsOK
  <2>5. v \in {"pass", "fail"}
    BY VerdictForm
  <2>6. PICK h \in GateIds, w \in {"pass", "fail"}: h = g /\ w = v
    BY <2>3, <2>5
  <2>7. VerdictOK(h, w)
    <3> SUFFICES ASSUME ArtifactsVerify(h) PROVE w = SealedVerdict(h)
      BY DEF VerdictOK
    <3>1. h.run \in Runs /\ h.suites \in SUBSET Suites
          /\ h = [run |-> h.run, suites |-> h.suites, policy |-> h.policy]
      BY DEF GateIds
    <3>2. <<"run", h.run>> \notin damaged /\ \A s \in h.suites: <<"suite", s>> \notin damaged
      BY DEF ArtifactsVerify, RunVerifies, SuiteSealed
    <3>3. /\ req[q].pnl = run[h.run].good
          /\ \A s \in h.suites: suite[s].base = h.run
          /\ \A s, u \in h.suites: suite[s].type = suite[u].type => s = u
          /\ \A s \in h.suites: s \in req[q].copies <=> suite[s].good
      BY <2>2, <2>4, <2>6, <3>2 DEF ReadsOK
    <3>4. w = Verdict(req[q].pnl, h.suites, req[q].copies)
      BY <1>2, <2>6
    <3>5. Verdict(req[q].pnl, h.suites, req[q].copies) =
            SealedVerdict([run |-> h.run, suites |-> h.suites, policy |-> h.policy])
      BY <2>1, <3>1, <3>3, VerdictIsSealed
    <3>. QED
      BY <3>1, <3>4, <3>5
  <2>8. PICK r: r = [op |-> "gateCheck", id |-> h, overall |-> w]
    OBVIOUS
  <2>9. r \in Requests /\ r.op = "gateCheck" /\ r.id = h /\ r.overall = w
    BY <2>8 DEF Requests, GateOps
  <2>10. req' = [req EXCEPT ![q] = r] /\ req'[q] = r
    BY <1>2, <2>1, <2>6, <2>8 DEF Judged
  <2>11. VerdictOK(h, w)' /\ run'[h.run] # NoRun
    BY <2>2, <2>4, <2>6, <2>7
    DEF VerdictOK, ArtifactsVerify, RunVerifies, SuiteSealed, SealedVerdict, evidence
  <2>12. RequestOK(q)'
    <3>1. VerdictOK(r.id, r.overall)'
      BY <2>9, <2>11
      DEF VerdictOK, ArtifactsVerify, RunVerifies, SuiteSealed, SealedVerdict
    <3>. QED
      BY <2>9, <2>10, <2>11, <3>1, Carried
      DEF RequestOK, ReadOps, GateOps, CardOps, StudyOps, DecideOps
  <2>. QED
    BY <2>2, <2>9, <2>10, <2>12, MoveStep
<1>. QED
  BY <1>1, <1>2 DEF Measure

\* CheckGate keeps the invariant.
LEMMA CheckGateKeeps ==
    ASSUME ChainInv, NEW q \in Callers, CheckGate(q)
    PROVE  ChainInv'
<1>1. CASE Done(q)
  BY <1>1, DoneKeeps DEF CheckGate
<1>2. CASE Continue(q, "gateAppend")
  <2>1. PICK r \in Requests:
             /\ req' = [req EXCEPT ![q] = r] /\ req'[q] = r
             /\ r.op = "gateAppend" /\ r.id = req[q].id /\ r.overall = req[q].overall
    BY <1>2, ContinuedRequest DEF CheckGate, GateOps
  <2>2. RequestOK(q) /\ req[q].op \in GateOps
    BY DEF ChainInv, RequestsOK, CheckGate, GateOps
  <2>3. UNCHANGED <<evidence, records, faults>>
    BY DEF CheckGate
  <2>4. VerdictOK(req[q].id, req[q].overall)'
    BY <2>1, <2>2, <2>3
    DEF RequestOK, VerdictOK, ArtifactsVerify, RunVerifies, SuiteSealed, SealedVerdict,
        evidence
  <2>5. RequestOK(q)'
    BY <2>1, <2>2, <2>3, <2>4
    DEF RequestOK, ReadOps, GateOps, CardOps, StudyOps, DecideOps, evidence
  <2>. QED
    BY <2>1, <2>3, <2>5, MoveStep
<1>. QED
  BY <1>1, <1>2 DEF CheckGate

\* A line with the id and verdict of a gate request is sound.
LEMMA GateLineAppended ==
    ASSUME ChainInv, NEW q \in Callers, NEW status \in {"active", "invalidated"},
           req[q].op \in GateOps, status = "invalidated" => req[q].id \in gateSide,
           gateLog' = Append(gateLog, [id |-> req[q].id, status |-> status,
                                       overall |-> req[q].overall]),
           Done(q),
           UNCHANGED <<evidence, gateSide, cardLog, cardSide, studyLog, decisions, faults>>
    PROVE  ChainInv'
<1> DEFINE line == [id |-> req[q].id, status |-> status, overall |-> req[q].overall]
<1>1. gateLog \in Seq(GateLine) /\ RequestOK(q) /\ req[q] \in Requests
  BY DEF ChainInv, LogsTyped, RequestsOK
<1>2. req[q] \in [op: GateOps, overall: {"pass", "fail"}, id: GateIds]
  BY <1>1, RequestFields
<1>3. line \in GateLine
  BY <1>2 DEF GateLine
<1>4. /\ gateLog' \in Seq(GateLine)
      /\ \A i \in 1 .. Len(gateLog'):
            (i \in 1 .. Len(gateLog) /\ gateLog'[i] = gateLog[i]) \/ gateLog'[i] = line
  BY <1>1, <1>3, AppendedLine
<1>5. LogsTyped'
  BY <1>4 DEF ChainInv, LogsTyped
<1>6. ASSUME NEW i \in 1 .. Len(gateLog'), gateLog'[i] = line
      PROVE  GateLineOK(i)'
  <2>1. /\ line.id = req[q].id /\ line.overall = req[q].overall
        /\ line.status = status
    OBVIOUS
  <2>2. run[req[q].id.run] # NoRun /\ VerdictOK(req[q].id, req[q].overall)
    BY <1>1 DEF RequestOK
  <2>3. VerdictOK(gateLog[i].id, gateLog[i].overall)'
    BY <1>6, <2>1, <2>2
    DEF VerdictOK, ArtifactsVerify, RunVerifies, SuiteSealed, SealedVerdict, evidence
  <2> HIDE DEF line
  <2>. QED
    BY <1>6, <2>1, <2>2, <2>3 DEF GateLineOK, evidence
<1>7. \A i \in 1 .. Len(gateLog'):
          (i \in 1 .. Len(gateLog) /\ gateLog'[i] = gateLog[i]) \/ GateLineOK(i)'
  BY <1>4, <1>6
<1>. QED
  BY <1>5, <1>7, AppendStep

\* AppendGate keeps the invariant.
LEMMA AppendGateKeeps ==
    ASSUME ChainInv, NEW q \in Callers, AppendGate(q) \/ SupersedeGate(q)
    PROVE  ChainInv'
<1>1. CASE AppendGate(q)
  BY <1>1, GateLineAppended DEF AppendGate, GateOps
<1>2. CASE SupersedeGate(q)
  <2>1. req[q].id \in gateSide
    BY <1>2 DEF ChainInv, RequestsOK, RequestOK, SupersedeGate
  <2>. QED
    BY <1>2, <2>1, GateLineAppended DEF SupersedeGate, GateOps
<1>. QED
  BY <1>1, <1>2

\* InvalidateGate keeps the invariant.
LEMMA InvalidateGateKeeps ==
    ASSUME ChainInv, NEW q \in Callers, NEW g, InvalidateGate(q, g)
    PROVE  ChainInv'
<1> DEFINE rec == [op |-> "gateSupersede", id |-> g, overall |-> Last(gateLog, g).overall]
<1>1. Lines(gateLog, g) # {}
  BY DEF InvalidateGate, GateStatus
<1>2. /\ g \in GateIds /\ run[g.run] # NoRun
      /\ Last(gateLog, g).overall \in {"pass", "fail"}
      /\ VerdictOK(g, Last(gateLog, g).overall)
  BY <1>1, LastGateLine
<1>3. rec \in Requests
  BY <1>2 DEF Requests, GateOps
<1>4. /\ req' = [req EXCEPT ![q] = rec] /\ gateSide' = gateSide \cup {g}
      /\ UNCHANGED <<evidence, gateLog, cardLog, cardSide, studyLog, decisions, faults>>
  BY DEF InvalidateGate, Begin
<1>5. req'[q] = rec
  BY <1>4 DEF ChainInv, RequestsOK
<1>6. rec.op = "gateSupersede" /\ rec.id = g /\ rec.overall = Last(gateLog, g).overall
  OBVIOUS
<1>7. VerdictOK(req[q].id, req[q].overall)'
  BY <1>2, <1>4, <1>5, <1>6
  DEF VerdictOK, ArtifactsVerify, RunVerifies, SuiteSealed, SealedVerdict, evidence
<1>8. Grows
  BY <1>4 DEF Grows, evidence
<1>9. EvidenceTyped'
  BY <1>4, EvidenceStays
<1>10. gateSide' \subseteq GateIds /\ decisions' \in Seq(Decision)
  BY <1>2, <1>4 DEF ChainInv, LogsTyped
<1> HIDE DEF rec
<1>11. RequestOK(q)'
  BY <1>2, <1>4, <1>5, <1>6, <1>7
  DEF RequestOK, ReadOps, GateOps, CardOps, StudyOps, DecideOps, evidence
<1>. QED
  BY <1>3, <1>4, <1>8, <1>9, <1>10, <1>11, RequestStep

--------------------------------------------------------------------------------
(* Scorecards and artifacts. *)

\* What a reader of the gate log finds is typed.
LEMMA KnownGatesTyped ==
    ASSUME ChainInv
    PROVE  KnownGates \subseteq GateIds \cup {NoGate}
<1>1. \A i \in 1 .. Len(gateLog): gateLog[i] \in GateLine
  BY ElementOfSeq DEF ChainInv, LogsTyped
<1>. QED
  BY <1>1 DEF KnownGates, GateLine

\* What a reader of the scorecard log finds is sound.
LEMMA KnownCardsSound ==
    ASSUME ChainInv, NEW c \in KnownCards
    PROVE  c \in CardIds /\ CardOfOneRun(c)
<1>1. PICK i \in 1 .. Len(cardLog): c = cardLog[i].id
  BY DEF KnownCards
<1>2. cardLog[i] \in CardLine
  BY ElementOfSeq DEF ChainInv, LogsTyped
<1>. QED
  BY <1>1, <1>2 DEF ChainInv, LinesOK, CardLineOK, CardLine

\* A scorecard request for a scorecard of one run.
LEMMA CardRequest ==
    ASSUME ChainInv, NEW q \in Callers, NEW op \in CardOps, NEW c \in CardIds,
           CardOfOneRun(c), op = "read" => run[c.run] # NoRun,
           UNCHANGED <<evidence, gateLog, gateSide, cardLog, studyLog, decisions, faults>>,
           cardSide' \subseteq CardIds,
           Begin(q, [op |-> op, id |-> c])
    PROVE  ChainInv'
<1> DEFINE rec == [op |-> op, id |-> c]
<1>1. rec \in Requests
  BY DEF Requests
<1>2. req' = [req EXCEPT ![q] = rec] /\ req'[q] = rec
  BY DEF Begin, ChainInv, RequestsOK
<1>3. rec.op = op /\ rec.id = c
  OBVIOUS
<1> HIDE DEF rec
<1>4. RequestOK(q)'
  BY <1>2, <1>3
  DEF RequestOK, ReadOps, GateOps, CardOps, StudyOps, DecideOps, evidence, CardOfOneRun
<1>5. req' \in [Callers -> Requests] /\ \A p \in Callers: p # q => req'[p] = req[p]
  BY <1>1, <1>2 DEF ChainInv, RequestsOK
<1>6. Grows
  BY GrowsTrivially
<1>7. \A p \in Callers: RequestOK(p)'
  BY <1>4, <1>5, <1>6, RequestKept
<1>8. EvidenceTyped' /\ LogsTyped'
  BY EvidenceStays DEF ChainInv, LogsTyped
<1>9. LinesOK'
  BY <1>6, LinesKept DEF LinesOK
<1>. QED
  BY <1>5, <1>7, <1>8, <1>9 DEF ChainInv, RequestsOK

\* EvaluateCard keeps the invariant.
LEMMA EvaluateCardKeeps ==
    ASSUME ChainInv, NEW q \in Callers, NEW r \in Runs, NEW g \in KnownGates,
           EvaluateCard(q, [run |-> r, gate |-> g])
    PROVE  ChainInv'
<1> DEFINE c == [run |-> r, gate |-> g]
<1>1. c \in CardIds
  BY KnownGatesTyped DEF CardIds
<1>2. CardOfOneRun(c)
  BY DEF EvaluateCard, CardGateAccepted, CardOfOneRun
<1>3. cardSide' \subseteq CardIds
  BY DEF EvaluateCard, records, ChainInv, LogsTyped
<1> HIDE DEF c
<1>. QED
  BY <1>1, <1>2, <1>3, CardRequest DEF EvaluateCard, records, CardOps, c

\* InvalidateCard keeps the invariant.
LEMMA InvalidateCardKeeps ==
    ASSUME ChainInv, NEW q \in Callers, NEW c \in KnownCards, InvalidateCard(q, c)
    PROVE  ChainInv'
<1>1. c \in CardIds /\ CardOfOneRun(c)
  BY KnownCardsSound
<1>2. cardSide' \subseteq CardIds
  BY <1>1 DEF InvalidateCard, ChainInv, LogsTyped
<1>. QED
  BY <1>1, <1>2, CardRequest DEF InvalidateCard, CardOps

\* ReadArtifact keeps the invariant.
LEMMA ReadArtifactKeeps ==
    ASSUME ChainInv, NEW q \in Callers, NEW c \in KnownCards, ReadArtifact(q, c)
    PROVE  ChainInv'
<1>1. c \in CardIds /\ CardOfOneRun(c)
  BY KnownCardsSound
<1>2. cardSide' \subseteq CardIds
  BY DEF ReadArtifact, records, ChainInv, LogsTyped
<1>3. run[c.run] # NoRun
  BY DEF ReadArtifact, CardVerifies, RunVerifies
<1>. QED
  BY <1>1, <1>2, <1>3, CardRequest DEF ReadArtifact, records, CardOps

\* CheckCard keeps the invariant.
LEMMA CheckCardKeeps ==
    ASSUME ChainInv, NEW q \in Callers, CheckCard(q)
    PROVE  ChainInv'
<1>1. CASE Done(q)
  BY <1>1, DoneKeeps DEF CheckCard
<1>2. CASE Continue(q, "cardAppend")
  <2>1. PICK r \in Requests:
             /\ req' = [req EXCEPT ![q] = r] /\ req'[q] = r
             /\ r.op = "cardAppend" /\ r.id = req[q].id
    BY <1>2, ContinuedRequest DEF CheckCard, CardOps
  <2>2. CardOfOneRun(req[q].id)
    BY DEF ChainInv, RequestsOK, RequestOK, CheckCard, CardOps
  <2>3. RequestOK(q)'
    BY <2>1, <2>2
    DEF RequestOK, ReadOps, GateOps, CardOps, StudyOps, DecideOps, CardOfOneRun
  <2>. QED
    BY <2>1, <2>3, MoveStep DEF CheckCard
<1>. QED
  BY <1>1, <1>2 DEF CheckCard

\* The log with one scorecard line more.
LEMMA CardLineAppended ==
    ASSUME ChainInv, NEW q \in Callers, NEW status \in {"active", "invalidated"},
           req[q].op \in CardOps,
           cardLog' = Append(cardLog, [id |-> req[q].id, status |-> status]), Done(q),
           UNCHANGED <<evidence, gateLog, gateSide, cardSide, studyLog, decisions, faults>>
    PROVE  ChainInv'
<1> DEFINE line == [id |-> req[q].id, status |-> status]
<1>1. cardLog \in Seq(CardLine) /\ RequestOK(q) /\ req[q] \in Requests
  BY DEF ChainInv, LogsTyped, RequestsOK
<1>2. line \in CardLine
  BY <1>1, RequestFields DEF CardLine
<1>3. /\ cardLog' \in Seq(CardLine)
      /\ \A i \in 1 .. Len(cardLog'):
            (i \in 1 .. Len(cardLog) /\ cardLog'[i] = cardLog[i]) \/ cardLog'[i] = line
  BY <1>1, <1>2, AppendedLine
<1>4. LogsTyped'
  BY <1>3 DEF ChainInv, LogsTyped
<1>5. ASSUME NEW i \in 1 .. Len(cardLog'), cardLog'[i] = line
      PROVE  CardLineOK(i)'
  BY <1>1, <1>5 DEF CardLineOK, RequestOK, CardOfOneRun
<1>6. \A i \in 1 .. Len(cardLog'):
          (i \in 1 .. Len(cardLog) /\ cardLog'[i] = cardLog[i]) \/ CardLineOK(i)'
  BY <1>3, <1>5
<1>. QED
  BY <1>4, <1>6, AppendStep

\* AppendCard keeps the invariant.
LEMMA AppendCardKeeps ==
    ASSUME ChainInv, NEW q \in Callers, AppendCard(q) \/ SupersedeCard(q)
    PROVE  ChainInv'
BY CardLineAppended DEF AppendCard, SupersedeCard, CardOps

\* read_sealed_artifact_content: the digest is compared after the bytes are read.
LEMMA ServeArtifactKeeps ==
    ASSUME ChainInv, NEW q \in Callers, ServeArtifact(q)
    PROVE  ChainInv'
<1> DEFINE r == req[q].id.run
           rec == [op |-> "served", id |-> req[q].id,
                   value |-> Reads(<<"run", r>>, run[r].good)]
<1>1. CASE <<"run", r>> \in damaged
  BY <1>1, DoneKeeps DEF ServeArtifact
<1>2. CASE <<"run", r>> \notin damaged
  <2>1. RequestOK(q) /\ req[q] \in Requests /\ req[q].op = "read"
    BY DEF ChainInv, RequestsOK, ServeArtifact
  <2>2. req[q].id \in CardIds /\ r \in Runs /\ run[r] # NoRun
    BY <2>1, RequestFields DEF CardOps, CardIds, RequestOK
  <2>3. rec.value = run[r].good /\ run[r].good \in BOOLEAN
    BY <1>2, <2>2 DEF Reads, ChainInv, EvidenceTyped, RunType
  <2>4. rec \in Requests
    BY <2>2, <2>3 DEF Requests
  <2>5. req' = [req EXCEPT ![q] = rec] /\ req'[q] = rec
    BY <1>2 DEF ServeArtifact, ChainInv, RequestsOK
  <2>6. UNCHANGED <<evidence, records, faults>>
    BY DEF ServeArtifact
  <2>7. rec.op = "served" /\ rec.id = req[q].id
    OBVIOUS
  <2> HIDE DEF rec
  <2>8. RequestOK(q)'
    BY <2>2, <2>3, <2>5, <2>6, <2>7
    DEF RequestOK, ReadOps, GateOps, CardOps, StudyOps, DecideOps, evidence
  <2>. QED
    BY <2>4, <2>5, <2>6, <2>8, MoveStep
<1>. QED
  BY <1>1, <1>2

\* ReplyArtifact keeps the invariant.
LEMMA ReplyArtifactKeeps ==
    ASSUME ChainInv, NEW q \in Callers, ReplyArtifact(q)
    PROVE  ChainInv'
BY DoneKeeps DEF ReplyArtifact

--------------------------------------------------------------------------------
(* Studies. *)

\* A study or decision request whose pins are sound.
LEMMA StudyRequest ==
    ASSUME ChainInv, NEW q \in Callers, NEW r \in Requests,
           r.op \in PinOps \/ (r.op \in StudyOps \cup {"decideRecord"} /\ PinsSound(r.id)),
           UNCHANGED <<evidence, records, faults>>, req' = [req EXCEPT ![q] = r]
    PROVE  ChainInv'
<1>1. req'[q] = r
  BY DEF ChainInv, RequestsOK
<1>2. PinsSound(r.id) => PinsSound(req[q].id)'
  BY <1>1 DEF PinsSound, CardOfOneRun, PinnedRuns, evidence
<1>3. RequestOK(q)'
  BY <1>1, <1>2 DEF RequestOK, ReadOps, GateOps, CardOps, PinOps, StudyOps, DecideOps
<1>. QED
  BY <1>3, MoveStep

\* CreateStudy keeps the invariant.
LEMMA CreateStudyKeeps ==
    ASSUME ChainInv, NEW q \in Callers, NEW r \in Runs, CreateStudy(q, r)
    PROVE  ChainInv'
<1> DEFINE p == [run |-> r, more |-> {}, suites |-> {}, gate |-> NoGate, card |-> NoCard]
<1>1. PICK rec: rec = [op |-> "studyRuns", id |-> p]
  OBVIOUS
<1>2. p \in Pins
  BY DEF Pins
<1>3. rec \in Requests /\ rec.op \in PinOps
  BY <1>1, <1>2 DEF Requests, PinOps
<1>4. req' = [req EXCEPT ![q] = rec] /\ UNCHANGED <<evidence, records, faults>>
  BY <1>1 DEF CreateStudy, Begin
<1>. QED
  BY <1>3, <1>4, StudyRequest

\* PinAdditional keeps the invariant.
LEMMA PinAdditionalKeeps ==
    ASSUME ChainInv, NEW q \in Callers, NEW M \in SUBSET Runs, PinAdditional(q, M)
    PROVE  ChainInv'
<1>1. req \in [Callers -> Requests] /\ req[q].op = "studyRuns"
  BY DEF ChainInv, RequestsOK, PinAdditional
<1>2. req[q] \in [op: PinOps, id: Pins]
  BY <1>1, RequestFields DEF PinOps
<1>3. [req[q].id EXCEPT !.more = M] \in Pins
  BY <1>2 DEF Pins
<1>4. PICK rec: rec = [op |-> "studyPin", id |-> [req[q].id EXCEPT !.more = M]]
  OBVIOUS
<1>5. rec \in Requests /\ rec.op \in PinOps
  BY <1>3, <1>4 DEF Requests, PinOps
<1>6. req' = [req EXCEPT ![q] = rec] /\ UNCHANGED <<evidence, records, faults>>
  BY <1>4 DEF PinAdditional
<1>. QED
  BY <1>5, <1>6, StudyRequest

\* PinEvidence keeps the invariant.
LEMMA PinEvidenceKeeps ==
    ASSUME ChainInv, NEW q \in Callers, NEW S \in SUBSET Suites,
           NEW g \in KnownGates, NEW c \in KnownCards \cup {NoCard},
           PinEvidence(q, S, g, c)
    PROVE  ChainInv'
<1>1. req \in [Callers -> Requests] /\ req[q].op = "studyPin"
  BY DEF ChainInv, RequestsOK, PinEvidence
<1>2. req[q] \in [op: PinOps, id: Pins]
  BY <1>1, RequestFields DEF PinOps
<1>3. PICK p: p = [req[q].id EXCEPT !.suites = S, !.gate = g, !.card = c]
  OBVIOUS
<1>4. p \in Pins /\ p.card = c
  BY <1>2, <1>3, KnownGatesTyped, KnownCardsSound DEF Pins
<1>5. PinsAccepted(p)
  BY <1>3 DEF PinEvidence
<1>6. PinsSound(p)
  <2>1. c # NoCard => CardOfOneRun(c)
    BY KnownCardsSound
  <2>. QED
    BY <1>4, <1>5, <2>1 DEF PinsAccepted, PinsSound
<1>7. PICK rec: rec = [op |-> "studyCheck", id |-> p]
  OBVIOUS
<1>8. rec \in Requests /\ rec.op \in StudyOps /\ rec.id = p
  BY <1>4, <1>7 DEF Requests, StudyOps
<1>9. req' = [req EXCEPT ![q] = rec] /\ UNCHANGED <<evidence, records, faults>>
  BY <1>3, <1>7 DEF PinEvidence
<1>. QED
  BY <1>6, <1>8, <1>9, StudyRequest

\* A refused request leaves nothing.
LEMMA RefuseStudyKeeps ==
    ASSUME ChainInv, NEW q \in Callers, RefuseStudy(q)
    PROVE  ChainInv'
BY DoneKeeps DEF RefuseStudy

\* CheckStudy keeps the invariant.
LEMMA CheckStudyKeeps ==
    ASSUME ChainInv, NEW q \in Callers, CheckStudy(q)
    PROVE  ChainInv'
<1>1. CASE Done(q)
  BY <1>1, DoneKeeps DEF CheckStudy
<1>2. CASE Continue(q, "studyAppend")
  <2>1. PICK r \in Requests:
             req' = [req EXCEPT ![q] = r] /\ r.op = "studyAppend" /\ r.id = req[q].id
    BY <1>2, ContinuedRequest DEF CheckStudy, StudyOps
  <2>2. PinsSound(req[q].id)
    BY DEF ChainInv, RequestsOK, RequestOK, CheckStudy, StudyOps
  <2>. QED
    BY <2>1, <2>2, StudyRequest DEF CheckStudy, StudyOps
<1>. QED
  BY <1>1, <1>2 DEF CheckStudy

\* The log with one study line more.
LEMMA StudyLineAppended ==
    ASSUME ChainInv, NEW q \in Callers, NEW line \in StudyLine,
           PinsSound(line.id),
           line.status = "decided" => Audited(line.id, line.outcome),
           studyLog' = Append(studyLog, line), Done(q),
           UNCHANGED <<evidence, gateLog, gateSide, cardLog, cardSide, decisions, faults>>
    PROVE  ChainInv'
<1>1. studyLog \in Seq(StudyLine)
  BY DEF ChainInv, LogsTyped
<1>2. /\ studyLog' \in Seq(StudyLine)
      /\ \A i \in 1 .. Len(studyLog'):
            (i \in 1 .. Len(studyLog) /\ studyLog'[i] = studyLog[i]) \/ studyLog'[i] = line
  BY <1>1, AppendedLine
<1>3. LogsTyped'
  BY <1>2 DEF ChainInv, LogsTyped
<1>4. ASSUME NEW i \in 1 .. Len(studyLog'), studyLog'[i] = line
      PROVE  StudyLineOK(i)'
  BY <1>4 DEF StudyLineOK, PinsSound, CardOfOneRun, PinnedRuns, Audited, evidence
<1>5. \A i \in 1 .. Len(studyLog'):
          (i \in 1 .. Len(studyLog) /\ studyLog'[i] = studyLog[i]) \/ StudyLineOK(i)'
  BY <1>2, <1>4
<1>. QED
  BY <1>3, <1>5, AppendStep

\* AppendStudy keeps the invariant.
LEMMA AppendStudyKeeps ==
    ASSUME ChainInv, NEW q \in Callers, AppendStudy(q)
    PROVE  ChainInv'
<1> DEFINE line == [id |-> req[q].id, status |-> "open", outcome |-> "none"]
<1>1. RequestOK(q) /\ req[q] \in Requests /\ req[q].op \in StudyOps
  BY DEF ChainInv, RequestsOK, AppendStudy, StudyOps
<1>2. line \in StudyLine /\ PinsSound(line.id) /\ line.status # "decided"
  BY <1>1, RequestFields DEF StudyLine, RequestOK
<1>3. studyLog' = Append(studyLog, line)
  BY DEF AppendStudy
<1> HIDE DEF line
<1>. QED
  BY <1>2, <1>3, StudyLineAppended DEF AppendStudy

\* Decide keeps the invariant.
LEMMA DecideKeeps ==
    ASSUME ChainInv, NEW q \in Callers, NEW i \in 1 .. Len(studyLog), NEW o \in Outcomes,
           Decide(q, studyLog[i].id, o)
    PROVE  ChainInv'
<1> DEFINE rec == [op |-> "decideRecord", id |-> studyLog[i].id, outcome |-> o]
<1>1. studyLog[i] \in StudyLine /\ StudyLineOK(i)
  BY ElementOfSeq DEF ChainInv, LogsTyped, LinesOK
<1>2. rec \in Requests
  BY <1>1 DEF StudyLine, Requests, DecideOps
<1>3. rec.op = "decideRecord" /\ PinsSound(rec.id)
  BY <1>1 DEF StudyLineOK
<1>4. req' = [req EXCEPT ![q] = rec] /\ UNCHANGED <<evidence, records, faults>>
  BY DEF Decide, Begin
<1> HIDE DEF rec
<1>. QED
  BY <1>2, <1>3, <1>4, StudyRequest

\* record_decision writes the audit sidecar before it may write the line.
LEMMA RecordDecisionKeeps ==
    ASSUME ChainInv, NEW q \in Callers, RecordDecision(q)
    PROVE  ChainInv'
<1>1. CASE Done(q) /\ UNCHANGED decisions
  BY <1>1, DoneKeeps DEF RecordDecision, records
<1>2. CASE /\ decisions' = Append(decisions, [id |-> req[q].id, outcome |-> req[q].outcome])
           /\ Continue(q, "decideLine")
  <2> DEFINE d == [id |-> req[q].id, outcome |-> req[q].outcome]
  <2>1. RequestOK(q) /\ req[q] \in Requests /\ req[q].op \in DecideOps
    BY DEF ChainInv, RequestsOK, RecordDecision, DecideOps
  <2>2. PICK r \in Requests:
             /\ req' = [req EXCEPT ![q] = r] /\ req'[q] = r
             /\ r.op = "decideLine" /\ r.id = req[q].id /\ r.outcome = req[q].outcome
    BY <1>2, <2>1, ContinuedRequest DEF DecideOps
  <2>3. d \in Decision /\ decisions \in Seq(Decision)
    BY <2>1, RequestFields DEF Decision, ChainInv, LogsTyped
  <2>4. /\ decisions' \in Seq(Decision)
        /\ \A j \in 1 .. Len(decisions):
              j \in 1 .. Len(decisions') /\ decisions'[j] = decisions[j]
    BY <1>2, <2>3, AppendedLine
  <2>5. Len(decisions') \in 1 .. Len(decisions') /\ decisions'[Len(decisions')] = d
    <3>1. /\ Len(decisions') = Len(decisions) + 1 /\ decisions'[Len(decisions) + 1] = d
          /\ Len(decisions) \in Nat
      BY <1>2, <2>3, AppendProperties, LenProperties
    <3>. QED
      BY <3>1
  <2>6. Audited(req[q].id, req[q].outcome)'
    BY <2>2, <2>5 DEF Audited
  <2>7. PinsSound(req[q].id)'
    <3>1. UNCHANGED suite
      BY DEF RecordDecision, evidence
    <3>. QED
      BY <2>1, <2>2, <3>1 DEF RequestOK, PinsSound, CardOfOneRun, PinnedRuns
  <2>8. RequestOK(q)'
    BY <2>2, <2>6, <2>7 DEF RequestOK, ReadOps, GateOps, CardOps, StudyOps, DecideOps
  <2>9. /\ UNCHANGED <<evidence, faults>>
        /\ UNCHANGED <<gateLog, gateSide, cardLog, studyLog, cardSide>>
    BY DEF RecordDecision
  <2>10. Grows
    BY <2>4, <2>9 DEF Grows, evidence
  <2>11. EvidenceTyped' /\ gateSide' \subseteq GateIds
    BY <2>9, EvidenceStays DEF ChainInv, LogsTyped
  <2>. QED
    BY <2>2, <2>4, <2>8, <2>9, <2>10, <2>11, RequestStep
<1>. QED
  BY <1>1, <1>2 DEF RecordDecision

\* AppendDecision keeps the invariant.
LEMMA AppendDecisionKeeps ==
    ASSUME ChainInv, NEW q \in Callers, AppendDecision(q)
    PROVE  ChainInv'
<1> DEFINE line == [id |-> req[q].id, status |-> "decided", outcome |-> req[q].outcome]
<1>1. RequestOK(q) /\ req[q] \in Requests /\ req[q].op \in DecideOps
      /\ req[q].op = "decideLine"
  BY DEF ChainInv, RequestsOK, AppendDecision, DecideOps
<1>2. line \in StudyLine /\ PinsSound(line.id) /\ Audited(line.id, line.outcome)
  BY <1>1, RequestFields DEF StudyLine, RequestOK
<1>3. studyLog' = Append(studyLog, line)
  BY DEF AppendDecision
<1> HIDE DEF line
<1>. QED
  BY <1>2, <1>3, StudyLineAppended DEF AppendDecision

--------------------------------------------------------------------------------
(* Evidence and crashes. *)

\* The evidence changes, the stores and the requests do not.
LEMMA EvidenceStep ==
    ASSUME ChainInv, Grows, EvidenceTyped', UNCHANGED <<records, req>>
    PROVE  ChainInv'
<1>1. LogsTyped'
  BY DEF ChainInv, LogsTyped, records
<1>2. LinesOK'
  BY LinesKept DEF LinesOK, records
<1>3. \A p \in Callers: RequestOK(p)'
  BY RequestKept
<1>. QED
  BY <1>1, <1>2, <1>3 DEF ChainInv, RequestsOK

\* The bounded faults are counted.
LEMMA FaultCounted ==
    ASSUME ChainInv, Fault
    PROVE  faults' \in 0 .. MaxFaults
BY ChainAssumptions DEF ChainInv, EvidenceTyped, Fault

\* RunCompletes keeps the invariant.
LEMMA RunCompletesKeeps ==
    ASSUME ChainInv, NEW r \in Runs, RunCompletes(r)
    PROVE  ChainInv'
<1>1. EvidenceTyped
  BY DEF ChainInv
<1>2. Grows
  BY <1>1 DEF RunCompletes, Grows, records, EvidenceTyped
<1>3. EvidenceTyped'
  BY <1>1 DEF RunCompletes, EvidenceTyped, RunType
<1>. QED
  BY <1>2, <1>3, EvidenceStep DEF RunCompletes

\* InvalidateRun keeps the invariant.
LEMMA InvalidateRunKeeps ==
    ASSUME ChainInv, NEW r \in Runs, InvalidateRun(r)
    PROVE  ChainInv'
<1>1. EvidenceTyped
  BY DEF ChainInv
<1>2. Grows
  BY <1>1 DEF InvalidateRun, Grows, records, EvidenceTyped, RunType, NoRun
<1>3. EvidenceTyped'
  BY <1>1, FaultCounted DEF InvalidateRun, EvidenceTyped, RunType
<1>. QED
  BY <1>2, <1>3, EvidenceStep DEF InvalidateRun

\* InvalidateChild keeps the invariant.
LEMMA InvalidateChildKeeps ==
    ASSUME ChainInv, NEW s \in Suites, InvalidateChild(s)
    PROVE  ChainInv'
<1>1. EvidenceTyped
  BY DEF ChainInv
<1>2. Grows
  BY <1>1 DEF InvalidateChild, Grows, records, EvidenceTyped, SuiteType
<1>3. EvidenceTyped'
  BY <1>1, FaultCounted DEF InvalidateChild, EvidenceTyped, SuiteType
<1>. QED
  BY <1>2, <1>3, EvidenceStep DEF InvalidateChild

\* Damage keeps the invariant.
LEMMA DamageKeeps ==
    ASSUME ChainInv, NEW f \in Files, Damage(f)
    PROVE  ChainInv'
<1>1. EvidenceTyped
  BY DEF ChainInv
<1>2. Grows
  BY <1>1 DEF Damage, Grows, records
<1>3. EvidenceTyped'
  BY <1>1, FaultCounted DEF Damage, EvidenceTyped
<1>. QED
  BY <1>2, <1>3, EvidenceStep DEF Damage

\* EditPolicy keeps the invariant.
LEMMA EditPolicyKeeps ==
    ASSUME ChainInv, EditPolicy
    PROVE  ChainInv'
<1>1. EvidenceTyped
  BY DEF ChainInv
<1>2. Grows
  BY <1>1 DEF EditPolicy, Grows, records
<1>3. EvidenceTyped'
  BY <1>1, FaultCounted DEF EditPolicy, EvidenceTyped
<1>. QED
  BY <1>2, <1>3, EvidenceStep DEF EditPolicy

\* A crash takes the requests and leaves the stores.
LEMMA CrashKeeps ==
    ASSUME ChainInv, Crash
    PROVE  ChainInv'
<1>1. Grows
  BY GrowsTrivially DEF Crash, records
<1>2. EvidenceTyped'
  BY FaultCounted DEF Crash, ChainInv, EvidenceTyped, evidence
<1>3. LogsTyped'
  BY DEF Crash, ChainInv, LogsTyped, records
<1>4. LinesOK'
  BY <1>1, LinesKept DEF Crash, LinesOK, records
<1>5. RequestsOK'
  BY FreeIsRequest
  DEF Crash, RequestsOK, RequestOK, Free, ReadOps, GateOps, CardOps, StudyOps, DecideOps
<1>. QED
  BY <1>2, <1>3, <1>4, <1>5 DEF ChainInv

--------------------------------------------------------------------------------
(* The theorems. *)

\* The empty stores satisfy the invariant.
LEMMA ChainInvInit == Init => ChainInv
<1> SUFFICES ASSUME Init PROVE ChainInv
  OBVIOUS
<1>1. EvidenceTyped
  BY ChainAssumptions DEF Init, EvidenceTyped, RunType, NoRun, Experiments, SuiteType
<1>2. LogsTyped
  BY EmptySeq DEF Init, LogsTyped
<1>3. LinesOK
  BY EmptySeq DEF Init, LinesOK
<1>4. RequestsOK
  BY FreeIsRequest
  DEF Init, RequestsOK, RequestOK, Free, ReadOps, GateOps, CardOps, StudyOps, DecideOps
<1>. QED
  BY <1>1, <1>2, <1>3, <1>4 DEF ChainInv

\* Every step keeps the invariant.
LEMMA ChainInvNext == ChainInv /\ [Next]_vars => ChainInv'
<1> SUFFICES ASSUME ChainInv, [Next]_vars PROVE ChainInv'
  OBVIOUS
<1>1. CardCallers \subseteq Callers /\ StudyCallers \subseteq Callers
  BY ChainAssumptions
<1>2. ASSUME NEW q \in Callers, GatesOf(q) PROVE ChainInv'
  BY <1>2, EvaluateGateKeeps, ReadRunMetricsKeeps, ReadManifestsKeeps, MeasureKeeps,
     CheckGateKeeps, AppendGateKeeps, InvalidateGateKeeps
  DEF GatesOf
<1>3. ASSUME NEW q \in CardCallers, CardsOf(q) PROVE ChainInv'
  <2>1. q \in Callers
    BY <1>1
  <2>. QED
    BY <1>3, <2>1, EvaluateCardKeeps, InvalidateCardKeeps, ReadArtifactKeeps,
       CheckCardKeeps, AppendCardKeeps, ServeArtifactKeeps, ReplyArtifactKeeps
    DEF CardsOf
<1>4. ASSUME NEW q \in StudyCallers, StudiesOf(q) PROVE ChainInv'
  <2>1. q \in Callers
    BY <1>1
  <2>. QED
    BY <1>4, <2>1, CreateStudyKeeps, PinAdditionalKeeps, PinEvidenceKeeps, RefuseStudyKeeps, DecideKeeps, CheckStudyKeeps, AppendStudyKeeps,
       RecordDecisionKeeps, AppendDecisionKeeps
    DEF StudiesOf
<1>5. ASSUME NEW r \in Runs, RunCompletes(r) \/ InvalidateRun(r)
      PROVE  ChainInv'
  BY <1>5, RunCompletesKeeps, InvalidateRunKeeps
<1>6. CASE (\E s \in Suites: InvalidateChild(s)) \/ (\E f \in Files: Damage(f))
  BY <1>6, InvalidateChildKeeps, DamageKeeps
<1>7. CASE EditPolicy \/ Crash
  BY <1>7, EditPolicyKeeps, CrashKeeps
<1>8. CASE UNCHANGED vars
  <2>1. Grows /\ EvidenceTyped' /\ UNCHANGED <<records, req>>
    BY <1>8, GrowsTrivially, EvidenceStays DEF vars, records
  <2>. QED
    BY <2>1, EvidenceStep
<1>. QED
  BY <1>2, <1>3, <1>4, <1>5, <1>6, <1>7, <1>8 DEF Next

\* The inductive invariant holds in every reachable state.
THEOREM ChainInvariant == Spec => []ChainInv
BY ChainInvInit, ChainInvNext, PTL DEF Spec

\* The invariant has the types in it.
LEMMA TypeFromInv == ChainInv => TypeOK
<1> SUFFICES ASSUME ChainInv PROVE TypeOK
  OBVIOUS
<1>1. /\ \A i \in 1 .. Len(gateLog): gateLog[i] \in GateLine
      /\ \A i \in 1 .. Len(cardLog): cardLog[i] \in CardLine
      /\ \A i \in 1 .. Len(studyLog): studyLog[i] \in StudyLine
  BY ElementOfSeq DEF ChainInv, LogsTyped
<1>2. \A q \in Callers: req[q] \in Requests
  BY DEF ChainInv, RequestsOK
<1>3. \A q \in Callers: req[q].op \in {"none", "served"} \cup ReadOps \cup GateOps
                                       \cup CardOps \cup PinOps \cup StudyOps
                                       \cup DecideOps
  BY <1>2 DEF Requests, Free
<1>. QED
  BY <1>1, <1>3 DEF TypeOK, ChainInv, EvidenceTyped, LogsTyped, GateLine, CardLine,
     StudyLine, ReadOps, GateOps, CardOps, PinOps, StudyOps, DecideOps

\* GateEvaluator.evaluate: for any number of callers, runs and suites, a pass whose
\* record verifies rests on good sealed values of the run and of a suite of every
\* type, and no two records of one gate id that verifies disagree, although every
\* file is opened again after its verification.
THEOREM GatesBacked == Spec => []GatesAreBacked
<1>1. ChainInv => PassIsBacked
  <2> SUFFICES ASSUME ChainInv, NEW i \in 1 .. Len(gateLog), gateLog[i].overall = "pass",
                      ArtifactsVerify(gateLog[i].id)
               PROVE  /\ run[gateLog[i].id.run].good
                      /\ \A t \in SuiteTypes: \E s \in gateLog[i].id.suites:
                            /\ suite[s].type = t /\ suite[s].good
                            /\ suite[s].base = gateLog[i].id.run
    BY DEF PassIsBacked
  <2>1. SealedVerdict(gateLog[i].id) = "pass"
    BY DEF ChainInv, LinesOK, GateLineOK, VerdictOK
  <2>. QED
    BY <2>1 DEF SealedVerdict
<1>2. ChainInv => OneVerdictPerGate
  BY DEF ChainInv, LinesOK, GateLineOK, VerdictOK, OneVerdictPerGate
<1>. QED
  BY <1>1, <1>2, TypeFromInv, ChainInvariant, PTL DEF GatesAreBacked

\* GateResultStore.get: a gate that reads as active has no sidecar.
LEMMA ActiveHasNoSidecar ==
    ASSUME NEW g, GateStatus(g) = "active"
    PROVE  g \notin gateSide
BY DEF GateStatus

\* ValidationStudyService: all evidence of a study is of its pinned runs, the study
\* verifies only while these and its gates live, and it is decided only with an audit
\* entry.
THEOREM StudiesSound == Spec => []StudiesAreSound
<1>1. ChainInv => StudyOfPinnedRuns
  BY DEF ChainInv, LinesOK, StudyLineOK, PinsSound, CardOfOneRun, StudyOfPinnedRuns
<1>2. ChainInv => DecisionsAudited
  BY DEF ChainInv, LinesOK, StudyLineOK, Audited, DecisionsAudited
<1>3. ChainInv => VerifiedMeansLive
  <2> SUFFICES ASSUME ChainInv, NEW i \in 1 .. Len(studyLog),
                      SnapshotVerifies(studyLog[i].id)
               PROVE  LET p == studyLog[i].id IN
                      /\ \A r \in PinnedRuns(p):
                            run[r].status = "complete" /\ <<"run", r>> \notin damaged
                      /\ \A g \in {p.gate, p.card.gate} \ {NoGate}:
                            g \notin gateSide /\ g.policy = policy
    BY DEF VerifiedMeansLive
  <2> DEFINE p == studyLog[i].id
  <2>1. \A r \in PinnedRuns(p): run[r].status = "complete" /\ <<"run", r>> \notin damaged
    BY DEF SnapshotVerifies, RunPinsVerify, RunComplete, RunVerifies
  <2>2. p.gate # NoGate => p.gate \notin gateSide /\ p.gate.policy = policy
    BY ActiveHasNoSidecar DEF SnapshotVerifies, GatePinVerifies, GateVerifies
  <2>3. p.card.gate # NoGate => p.card.gate \notin gateSide /\ p.card.gate.policy = policy
    <3>1. p.card = NoCard => p.card.gate = NoGate
      BY DEF NoCard
    <3>. QED
      BY <3>1, ActiveHasNoSidecar
      DEF SnapshotVerifies, CardPinVerifies, CardVerifies, BoundGateVerifies, GateVerifies
  <2>. QED
    BY <2>1, <2>2, <2>3
<1>. QED
  BY <1>1, <1>2, <1>3, ChainInvariant, PTL DEF StudiesAreSound

\* read_sealed_artifact_content: whatever happens to the files between the
\* verification and the read, only the sealed value is answered.
THEOREM ServedSealed == Spec => []ServedIsSealed
<1>1. ChainInv => ServedIsSealed
  BY DEF ChainInv, RequestsOK, RequestOK, ServedIsSealed
<1>. QED
  BY <1>1, ChainInvariant, PTL

\* No action removes a sidecar or a line.
LEMMA SidecarsStay ==
    ASSUME ChainInv, [Next]_vars
    PROVE  /\ gateSide \subseteq gateSide'
           /\ \A i \in 1 .. Len(gateLog):
                 i \in 1 .. Len(gateLog') /\ gateLog'[i].id = gateLog[i].id
<1> DEFINE Stays == /\ gateSide \subseteq gateSide'
                    /\ \A i \in 1 .. Len(gateLog):
                          i \in 1 .. Len(gateLog') /\ gateLog'[i].id = gateLog[i].id
<1>1. ASSUME UNCHANGED <<gateLog, gateSide>> PROVE Stays
  BY <1>1
<1>2. ASSUME NEW line, gateLog' = Append(gateLog, line), UNCHANGED gateSide PROVE Stays
  <2>1. gateLog \in Seq(GateLine \cup {line}) /\ line \in GateLine \cup {line}
    BY SeqMonotonic DEF ChainInv, LogsTyped
  <2>. QED
    BY <1>2, <2>1, AppendedLine
<1> HIDE DEF Stays
<1>3. ASSUME NEW q \in Callers, GatesOf(q) PROVE Stays
  <2>1. ASSUME NEW g, InvalidateGate(q, g) PROVE Stays
    BY <2>1 DEF InvalidateGate, Stays
  <2>2. CASE AppendGate(q) \/ SupersedeGate(q)
    BY <2>2, <1>2 DEF AppendGate, SupersedeGate
  <2>3. CASE \/ ReadRunMetrics(q) \/ ReadManifests(q) \/ Measure(q) \/ CheckGate(q)
             \/ \E r \in Runs, S \in SUBSET Suites: EvaluateGate(q, r, S)
    BY <2>3, <1>1
    DEF ReadRunMetrics, ReadManifests, Measure, CheckGate, EvaluateGate, records
  <2>. QED
    BY <1>3, <2>1, <2>2, <2>3 DEF GatesOf
<1>4. ASSUME NEW q \in CardCallers, CardsOf(q) PROVE Stays
  BY <1>4, <1>1 DEF CardsOf, EvaluateCard, InvalidateCard, ReadArtifact, CheckCard,
     AppendCard, SupersedeCard, ServeArtifact, ReplyArtifact, records
<1>5. ASSUME NEW q \in StudyCallers, StudiesOf(q) PROVE Stays
  BY <1>5, <1>1 DEF StudiesOf, CreateStudy, PinAdditional, PinEvidence, RefuseStudy, Decide, CheckStudy, AppendStudy,
     RecordDecision, AppendDecision, records
<1>6. ASSUME UNCHANGED records PROVE Stays
  BY <1>6, <1>1 DEF records
<1>7. CASE \/ \E r \in Runs: RunCompletes(r) \/ InvalidateRun(r)
           \/ \E s \in Suites: InvalidateChild(s)
           \/ \E f \in Files: Damage(f)
           \/ EditPolicy \/ Crash
  BY <1>6, <1>7 DEF RunCompletes, InvalidateRun, Damage, InvalidateChild, EditPolicy, Crash,
     Stays
<1>8. CASE UNCHANGED vars
  BY <1>6, <1>8 DEF vars, Stays
<1>. QED
  BY <1>3, <1>4, <1>5, <1>7, <1>8 DEF Next, Stays

\* GateResultStore: whatever concurrent evaluations, invalidations and crashes
\* append, a gate once seen invalidated is seen so ever after.
THEOREM InvalidatedGateStays == Spec => InvalidatedGateStaysSo
<1>1. ASSUME ChainInv, [Next]_vars
      PROVE  [\A i \in 1 .. Len(gateLog): LET g == gateLog[i].id IN
                GateStatus(g) = "invalidated" => GateStatus(g)' = "invalidated"]_vars
  <2> SUFFICES ASSUME NEW i \in 1 .. Len(gateLog),
                      GateStatus(gateLog[i].id) = "invalidated"
               PROVE  LET g == gateLog[i].id IN GateStatus(g)' = "invalidated"
    OBVIOUS
  <2>1. i \in Lines(gateLog, gateLog[i].id)
    BY DEF Lines
  <2>2. gateLog[i].id \in gateSide
    BY <1>1, <2>1, LastGateLine DEF GateStatus
  <2>3. /\ gateSide \subseteq gateSide' /\ i \in 1 .. Len(gateLog')
        /\ gateLog'[i].id = gateLog[i].id
    BY <1>1, SidecarsStay
  <2>4. i \in Lines(gateLog', gateLog[i].id)
    BY <2>3 DEF Lines
  <2>. QED
    BY <2>2, <2>3, <2>4 DEF GateStatus
<1>. QED
  BY <1>1, ChainInvariant, PTL DEF Spec, InvalidatedGateStaysSo

================================================================================
