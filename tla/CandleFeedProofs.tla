-------------------------- MODULE CandleFeedProofs --------------------------
(***************************************************************************)
(* Proofs about the market-data runtime, for every number of days, trades,  *)
(* faults, every buffer and wire: a candle stored as closed is never        *)
(* rewritten, and readiness tells the truth about the stored candles.       *)
(*                                                                         *)
(* The argument for the second: a day of which anything is known is known   *)
(* in its newest version, or that version is on its way, unless the         *)
(* connection or its reader is dead, which readiness notices; and a day     *)
(* before the last known one can no longer change.                          *)
(***************************************************************************)
EXTENDS CandleFeed, FiniteSetTheorems, SequenceTheorems, WellFoundedInduction, TLAPS

\* A sequence of updates speaks of a day, and has a version of it.
Has(s, d) == \E i \in DOMAIN s : s[i].day = d
Carries(s, d, v) == \E i \in DOMAIN s : s[i].day = d /\ s[i].v = v

\* What the program holds of a day between two calls, and inside one.
Known(d) == repo.offered[d] # -1 \/ Has(queue, d)
KnownNewest(d) == repo.offered[d] = market[d] \/ Carries(queue, d, market[d])
Gathered(d) == Known(d) \/ Has(buffer, d) \/ Has(snapshot, d)
GatheredNewest(d) ==
    KnownNewest(d) \/ Carries(buffer, d, market[d]) \/ Carries(snapshot, d, market[d])

Dialling == {"start_dial", "dial"}
Greeting == {"start_acks", "acks"}
Fetching == {"start_fetch", "fetch"}
Ingesting == {"start_ingest", "ingest"}
Starting == {"start_dial", "start_acks", "start_fetch", "start_ingest"}
Calling == Dialling \cup Greeting \cup Fetching \cup Ingesting

-----------------------------------------------------------------------------
(* The state.                                                              *)

\* The repository is a record, and what was offered of a day tells whether it is stored.
RepoOK(r) ==
    /\ r = [daily |-> r.daily, weekly |-> r.weekly, conflicts |-> r.conflicts, offered |-> r.offered]
    /\ r.daily \in [Days -> Candles] /\ r.conflicts \in BOOLEAN
    /\ r.weekly = [w \in Weeks |-> r.weekly[w]]
    /\ r.offered \in [Days -> Nat \cup {-1}]
    /\ \A d \in Days : r.daily[d] = Missing <=> r.offered[d] = -1

\* A closed candle is closed by the time of the last call, and so is a week that was built.
RepoAsOf(r, t) ==
    /\ \A d \in Days : r.daily[d].closed => IsCandleClosed(d, t)
    /\ \A w \in Weeks : r.weekly[w] # <<>> => WeekClosed(w, t) /\ WeekOf(w) \subseteq Stored(r)

\* An update never runs ahead of the exchange or of the clock.
ItemsOK(s) == \A i \in DOMAIN s : s[i].v <= market[s[i].day] /\ Opened(s[i].day, clock)
Sorted(s) == \A i, j \in DOMAIN s : i <= j => s[i].day <= s[j].day

Shape ==
    /\ TypeOK
    /\ RepoOK(repo)
    /\ \A d \in Days : repo.offered[d] <= market[d] /\ (repo.offered[d] # -1 => Opened(d, clock))
    /\ net \in Seq({Ack} \cup [day : Days, v : Nat])
    /\ {buffer, queue, snapshot} \subseteq Seq(Raws)
    /\ ItemsOK(buffer) /\ ItemsOK(queue) /\ ItemsOK(snapshot)
    /\ \A i \in DOMAIN net : net[i] # Ack => net[i].v <= market[net[i].day] /\ Opened(net[i].day, clock)
    /\ Sorted(net) /\ Sorted(buffer)
    /\ \A i \in DOMAIN buffer, j \in DOMAIN net : net[j] # Ack => buffer[i].day <= net[j].day

\* What the place of the call says about the rest.
Places ==
    /\ buffering <=> pc \in Calling
    /\ pc \notin Calling => buffer = <<>>
    /\ pc \notin Ingesting => snapshot = <<>>
    /\ pc \in {"down"} \cup Starting => repo = EmptyRepo /\ queue = <<>> /\ ~flags.initial /\ ~outrun
    /\ pc \in {"down", "start_dial"} => ~link /\ buffer = <<>>
    /\ \A i \in DOMAIN net : net[i] = Ack => i = 1 /\ pc \in Greeting
    /\ pc \in Greeting => reader /\ (link => net # <<>> /\ net[1] = Ack)
    /\ pc \in Greeting => wsStatus = "CONNECTING"
    /\ link \/ net = <<>>
    /\ link /\ ~reader => bgError
    /\ pc \in {"idle"} \cup Fetching \cup Ingesting /\ link => acked
    /\ RepoAsOf(repo, evalTime)
    /\ pc \in Calling => \A d \in Days : Known(d) => Opened(d, evalTime)

-----------------------------------------------------------------------------
(* The weekly candles, and what a backfill has reached.                    *)

WeeksAgree(r) ==
    \A w \in Weeks : r.weekly[w] # <<>> => r.weekly[w] = [d \in WeekOf(w) |-> r.daily[d].v]

Weekly == lastError \/ repo.conflicts \/ WeeksAgree(repo)

Reached ==
    /\ flags.initial => 1 \in Stored(repo)
    /\ flags.initial => \A d \in Days : Opened(d, lastBackfill) => \E m \in Stored(repo) : m >= d
    /\ pc \in Ingesting =>
          \A d \in Days : Opened(d, evalTime) /\ (\A m \in Stored(repo) : m <= d) => Has(snapshot, d)
    /\ \A i \in DOMAIN snapshot : Opened(snapshot[i].day, evalTime)

-----------------------------------------------------------------------------
(* The updates.                                                            *)

\* The histories of which readiness has to tell the truth.
Sound == ~outrun /\ (flags.initial \/ pc \in Starting)

\* Days before the last known one are known in their final version.
EarlierFinal == \A d, e \in Days : d < e /\ Known(d) /\ Known(e) => KnownNewest(d)

\* Between calls, with a live reader: of a day that is known or in flight, the newest is.
Followed ==
    pc = "idle" /\ link /\ reader =>
        \A d \in Days : Known(d) \/ Has(net, d) => KnownNewest(d) \/ Carries(net, d, market[d])

\* What arrives from a connection is about the last known day or one known already.
LateIsKnown ==
    pc \notin Ingesting =>
        \A d, e \in Days : d < e /\ Known(e) /\ (Has(net, d) \/ Has(buffer, d)) => Known(d)

\* What a new connection sends is about the last day that is known, or a later one.
NewIsLast ==
    pc \in Greeting \cup Fetching \cup Ingesting =>
        \A i \in DOMAIN net : net[i] # Ack => \A e \in Days : Known(e) => e <= net[i].day

\* Of a day after the evaluation time all is known through the new connection.
AheadFollowed ==
    pc \in Greeting \cup Fetching /\ link /\ reader =>
        \A d \in Days : ~Opened(d, evalTime) /\ (Has(buffer, d) \/ Has(net, d)) =>
            Carries(buffer, d, market[d]) \/ Carries(net, d, market[d])

\* And a day before the last one in the buffer is there in its final version, however many
\* days the call has outlasted.
AheadFinal ==
    pc \in Greeting \cup Fetching =>
        \A d, e \in Days : d < e /\ ~Opened(d, evalTime) /\ Has(buffer, d) /\ Has(buffer, e) =>
            Carries(buffer, d, market[d])

\* Once the snapshot is there, the same holds for all that has been gathered.
GatheredFinal ==
    pc \in Ingesting =>
        /\ \A d, e \in Days : d < e /\ Gathered(d) /\ Gathered(e) => GatheredNewest(d)
        /\ link /\ reader =>
              \A d \in Days : Gathered(d) \/ Has(net, d) => GatheredNewest(d) \/ Carries(net, d, market[d])

Updates ==
    /\ NewIsLast
    /\ Sound => EarlierFinal /\ Followed /\ LateIsKnown /\ AheadFollowed /\ AheadFinal /\ GatheredFinal

FeedInv == Shape /\ Places /\ Weekly /\ Reached /\ Updates

-----------------------------------------------------------------------------
(* The fold of ingest_live_raw, unfolded.                                  *)

\* The place that the fold takes last, one turn, and all of them.
LastPlace(s) == Max(s)
Turn(acc, raws, i, t) == UpsertLive(acc, raws[i], t)
Turns(r, raws, t, D, g) ==
    [s \in SUBSET D |->
        IF s = {} THEN r ELSE Turn(g[s \ {LastPlace(s)}], raws, LastPlace(s), t)]

\* A finite set of numbers has a largest one.
LEMMA MaxExists ==
    ASSUME NEW S, IsFiniteSet(S), S # {}, S \subseteq Int
    PROVE  Max(S) \in S /\ \A y \in S : y <= Max(S)
<1> DEFINE Card == {n \in Nat : \E T \in SUBSET S : /\ T # {} /\ Cardinality(T) = n
                                                   /\ ~\E x \in T : \A y \in T : x >= y}
<1>1. \A T \in SUBSET S : IsFiniteSet(T) /\ Cardinality(T) \in Nat
  BY FS_Subset, FS_CardinalityType
<1>2. Card = {}
  <2>1. SUFFICES ASSUME Card # {} PROVE FALSE
    OBVIOUS
  <2>2. PICK n \in Card : \A m \in Card : ~ (<<m, n>> \in OpToRel(<, Nat))
    BY <2>1, WFMin, NatLessThanWellFounded, Zenon
  <2>3. \A m \in Card : ~ (m < n)
    BY <2>2 DEF OpToRel
  <2>4. PICK T \in SUBSET S : /\ T # {} /\ Cardinality(T) = n
                              /\ ~\E x \in T : \A y \in T : x >= y
    OBVIOUS
  <2>5. PICK x \in T : TRUE
    BY <2>4
  <2>6. Cardinality(T \ {x}) = n - 1 /\ n - 1 \in Nat /\ n - 1 < n /\ T \ {x} \in SUBSET S
    <3>1. Cardinality(T \ {x}) = n - 1 /\ n \in Nat
      BY <1>1, <2>4, <2>5, FS_RemoveElement
    <3>2. T \ {x} \in SUBSET S
      OBVIOUS
    <3>3. Cardinality(T \ {x}) \in Nat
      BY <1>1, <3>2
    <3>. QED
      BY <3>1, <3>2, <3>3
  <2>7. T \ {x} # {}
    <3>1. ASSUME T \ {x} = {} PROVE FALSE
      <4>1. \A y \in T : y = x
        BY <3>1
      <4>2. x \in Int
        BY <2>4, <2>5
      <4>. QED
        BY <4>1, <4>2, <2>4, <2>5
    <3>. QED
      BY <3>1
  <2>8. n - 1 \notin Card
    <3> HIDE DEF Card
    <3>. QED
      BY <2>3, <2>6
  <2>9. PICK z \in T \ {x} : \A y \in T \ {x} : z >= y
    BY <2>6, <2>7, <2>8
  <2>10. x \in Int /\ z \in Int /\ \A y \in T : y \in Int
    BY <2>4, <2>5, <2>9
  <2>11. CASE z >= x
    BY <2>4, <2>9, <2>11
  <2>12. CASE ~(z >= x)
    <3>1. \A y \in T : x >= y
      BY <2>9, <2>10, <2>12
    <3>. QED
      BY <3>1, <2>4, <2>5
  <2>. QED
    BY <2>11, <2>12
<1>3. \E x \in S : \A y \in S : x >= y
  BY <1>1, <1>2
<1>4. Max(S) \in S /\ \A y \in S : Max(S) >= y
  BY <1>3 DEF Max
<1>. QED
  BY <1>4

\* The fold's recursive function exists: it is built one cardinality at a time.
LEMMA TurnsExist ==
    ASSUME NEW D, IsFiniteSet(D), D \subseteq Int, NEW r, NEW raws, NEW t
    PROVE  \E g : g = Turns(r, raws, t, D, g)
<1> DEFINE Layer(n) == {s \in SUBSET D : Cardinality(s) <= n}
           Value(g, s) == IF s = {} THEN r
                          ELSE Turn(g[s \ {LastPlace(s)}], raws, LastPlace(s), t)
           Runs(n, g) == g = [s \in Layer(n) |-> Value(g, s)]
           B == {n \in Nat : ~\E g : Runs(n, g)}
<1>1. \A s \in SUBSET D : IsFiniteSet(s) /\ Cardinality(s) \in Nat
  BY FS_Subset, FS_CardinalityType
<1>2. \A s \in SUBSET D : s # {} => /\ LastPlace(s) \in s /\ s \ {LastPlace(s)} \in SUBSET D
                                    /\ Cardinality(s \ {LastPlace(s)}) = Cardinality(s) - 1
  BY <1>1, MaxExists, FS_RemoveElement DEF LastPlace
<1>3. \E g : Runs(0, g)
  <2>1. Layer(0) = {{}}
    BY <1>1, FS_EmptySet
  <2>2. Runs(0, [s \in Layer(0) |-> r])
    BY <2>1
  <2>. QED
    BY <2>2
<1>4. ASSUME NEW n \in Nat, NEW g, Runs(n, g) PROVE \E h : Runs(n + 1, h)
  <2> DEFINE h == [s \in Layer(n + 1) |-> Value(g, s)]
  <2>1. \A s \in Layer(n) : s \in Layer(n + 1) /\ h[s] = g[s]
    <3>1. ASSUME NEW s \in Layer(n) PROVE s \in Layer(n + 1)
      BY <1>1
    <3>2. ASSUME NEW s \in Layer(n)
          PROVE  g[s] = Value(g, s)
      BY <1>4, Zenon
    <3>3. ASSUME NEW s \in Layer(n + 1)
          PROVE  h[s] = Value(g, s)
      BY Zenon
    <3> HIDE DEF h, Layer, Value
    <3>. QED
      BY <3>1, <3>2, <3>3
  <2>2. \A s \in Layer(n + 1) : s # {} => s \ {LastPlace(s)} \in Layer(n)
    BY <1>1, <1>2
  <2>3. \A s \in Layer(n + 1) : s # {} => h[s \ {LastPlace(s)}] = g[s \ {LastPlace(s)}]
    <3> HIDE DEF h, Layer
    <3>. QED
      BY <2>1, <2>2
  <2>4. h = [s \in Layer(n + 1) |-> Value(h, s)]
    <3>1. \A s \in Layer(n + 1) : h[s] = Value(h, s)
      BY <2>3, Zenon
    <3>. QED
      BY <3>1, Zenon
  <2>. QED
    BY <2>4
<1>5. B = {}
  <2>1. SUFFICES ASSUME B # {} PROVE FALSE
    OBVIOUS
  <2>2. PICK n \in B : \A m \in B : ~ (<<m, n>> \in OpToRel(<, Nat))
    BY <2>1, WFMin, NatLessThanWellFounded, Zenon
  <2>3. \A m \in B : ~ (m < n)
    BY <2>2 DEF OpToRel
  <2> HIDE DEF Runs
  <2>4. n # 0
    BY <1>3
  <2>5. n \in Nat /\ n - 1 \in Nat /\ n - 1 < n /\ (n - 1) + 1 = n
    BY <2>4
  <2>6. n - 1 \notin B
    <3> HIDE DEF B
    <3>. QED
      BY <2>3, <2>5
  <2>7. PICK g : Runs(n - 1, g)
    BY <2>5, <2>6
  <2>8. PICK h : Runs((n - 1) + 1, h)
    BY <1>4, <2>5, <2>7
  <2>9. \E k : Runs(n, k)
    BY <2>5, <2>8
  <2>. QED
    BY <2>9
<1>6. PICK n \in Nat : n = Cardinality(D)
  BY FS_CardinalityType
<1>7. Layer(n) = SUBSET D
  BY <1>6, FS_Subset
<1>8. PICK g : Runs(n, g)
  <2> HIDE DEF Runs
  <2>. QED
    BY <1>5
<1>9. g = Turns(r, raws, t, D, g)
  <2> HIDE DEF Layer
  <2>. QED
    BY <1>7, <1>8 DEF Turns
<1>. QED
  BY <1>9

\* The ingest is the last of a series of repositories, one per update.
LEMMA IngestSteps ==
    ASSUME NEW r, NEW t, NEW raws \in Seq(Raws)
    PROVE  \E h : /\ h[0] = r
                  /\ \A k \in 1..Len(raws) : h[k] = UpsertLive(h[k - 1], raws[k], t)
                  /\ IngestLiveRaw(r, raws, t) = h[Len(raws)]
<1> DEFINE n == Len(raws)
           g == CHOOSE f : f = Turns(r, raws, t, 1..n, f)
           h == [k \in 0..n |-> g[1..k]]
<1>1. n \in Nat /\ DOMAIN raws = 1..n /\ IsFiniteSet(1..n)
  BY FS_Interval
<1>2. g = Turns(r, raws, t, 1..n, g)
  BY <1>1, TurnsExist
<1>3. IngestLiveRaw(r, raws, t) = g[1..n]
  BY <1>1 DEF IngestLiveRaw, FoldLeft, MapThenFoldSet, Turns, Turn, LastPlace
<1> HIDE DEF g
<1>4. ASSUME NEW s \in SUBSET (1..n)
      PROVE  g[s] = IF s = {} THEN r ELSE Turn(g[s \ {LastPlace(s)}], raws, LastPlace(s), t)
  <2>1. Turns(r, raws, t, 1..n, g)[s] =
            IF s = {} THEN r ELSE Turn(g[s \ {LastPlace(s)}], raws, LastPlace(s), t)
    BY Zenon DEF Turns
  <2>. QED
    BY <1>2, <2>1
<1>5. h[0] = r
  <2>1. 1..0 = {} /\ {} \in SUBSET (1..n)
    OBVIOUS
  <2>2. g[{}] = r
    BY <1>4, <2>1
  <2>. QED
    BY <1>1, <2>1, <2>2
<1>6. ASSUME NEW k \in 1..n PROVE h[k] = UpsertLive(h[k - 1], raws[k], t)
  <2>1. 1..k \in SUBSET (1..n) /\ 1..k # {} /\ k - 1 \in 0..n /\ k \in 0..n
    BY <1>1, SMTT(30)
  <2>2. LastPlace(1..k) = k
    <3>1. IsFiniteSet(1..k) /\ 1..k \subseteq Int /\ k \in 1..k
      BY <1>1, <2>1, FS_Subset
    <3>2. Max(1..k) \in 1..k /\ k <= Max(1..k)
      BY <3>1, <2>1, MaxExists
    <3>. QED
      BY <3>2 DEF LastPlace
  <2>3. (1..k) \ {k} = 1..(k - 1)
    BY <1>1
  <2>4. g[1..k] = Turn(g[1..(k - 1)], raws, k, t)
    BY <1>4, <2>1, <2>2, <2>3
  <2>. QED
    BY <2>1, <2>4 DEF Turn
<1>7. h[n] = g[1..n]
  BY <1>1
<1> HIDE DEF h
<1>. QED
  BY <1>3, <1>5, <1>6, <1>7

\* Induction over the places of a sequence.
LEMMA PlaceInduction ==
    ASSUME NEW n \in Nat, NEW Q, 0 \in Q, \A k \in 1..n : k - 1 \in Q => k \in Q
    PROVE  n \in Q
<1> DEFINE B == {k \in 0..n : k \notin Q}
<1>1. SUFFICES ASSUME B # {} PROVE FALSE
  OBVIOUS
<1>2. PICK k \in B : \A m \in B : ~ (<<m, k>> \in OpToRel(<, Nat))
  <2>1. B \subseteq Nat
    OBVIOUS
  <2>. QED
    BY <1>1, <2>1, WFMin, NatLessThanWellFounded, Zenon
<1>3. \A m \in B : ~ (m < k)
  <2>1. \A m \in B : m \in Nat
    OBVIOUS
  <2>2. k \in Nat
    BY <2>1
  <2> HIDE DEF B
  <2>. QED
    BY <1>2, <2>1, <2>2 DEF OpToRel
<1>4. k \in 1..n /\ k - 1 \in 0..n /\ k - 1 < k
  OBVIOUS
<1>5. k - 1 \notin B
  <2> HIDE DEF B
  <2>. QED
    BY <1>3, <1>4
<1>. QED
  BY <1>4, <1>5

\* The larger of two numbers.
LEMMA MaxOfTwo ==
    ASSUME NEW a \in Int, NEW b \in Int
    PROVE  Max({a, b}) \in {a, b} /\ a <= Max({a, b}) /\ b <= Max({a, b})
<1>1. IsFiniteSet({a, b})
  <2>1. IsFiniteSet({a}) /\ {a, b} = {a} \cup {b}
    BY FS_Singleton
  <2>. QED
    BY <2>1, FS_AddElement
<1>. QED
  BY <1>1, MaxExists

-----------------------------------------------------------------------------
(* What upsert_live and ingest_live_raw do to the repository.              *)

\* The repository q is r after the first k of the updates, ingested at time t.
IngestedUpTo(r, q, raws, k, t) ==
    /\ RepoOK(q) /\ q.weekly = r.weekly /\ (r.conflicts => q.conflicts)
    /\ \A d \in Days :
          /\ q.offered[d] >= r.offered[d]
          /\ q.offered[d] = r.offered[d] \/ \E i \in 1..k : raws[i].day = d /\ raws[i].v = q.offered[d]
          /\ \A i \in 1..k : raws[i].day = d => q.offered[d] >= raws[i].v
          /\ q.daily[d].closed => r.daily[d].closed \/ IsCandleClosed(d, t)
          /\ r.daily[d].closed /\ IsCandleClosed(d, t) => q.daily[d] = r.daily[d]
Ingested(r, q, raws, t) == IngestedUpTo(r, q, raws, Len(raws), t)

\* One upsert_live, field by field.
Upserted(r, q, raw, new, t) ==
    /\ q.weekly = r.weekly
    /\ q.offered = [r.offered EXCEPT ![raw.day] = Max({r.offered[raw.day], raw.v})]
    /\ \/ q.daily = r.daily /\ q.conflicts = r.conflicts /\ r.daily[raw.day] = new
       \/ /\ q.daily = [r.daily EXCEPT ![raw.day] = new] /\ q.conflicts = r.conflicts
          /\ ~(r.daily[raw.day].closed /\ IsCandleClosed(raw.day, t))
       \/ q.daily = r.daily /\ q.conflicts = TRUE /\ r.daily[raw.day] # Missing
    /\ q = [daily |-> q.daily, weekly |-> q.weekly, conflicts |-> q.conflicts, offered |-> q.offered]

\* upsert_live changes those fields.
LEMMA UpsertLiveFields ==
    ASSUME NEW r, RepoOK(r), NEW raw \in Raws, NEW t,
           NEW q, q = UpsertLive(r, raw, t), NEW new, new = NormalizeRawCandle(raw, t)
    PROVE  Upserted(r, q, raw, new, t)
<1>1. PICK da, we, co, of : r = [daily |-> da, weekly |-> we, conflicts |-> co, offered |-> of]
  BY DEF RepoOK
<1> DEFINE of2 == [of EXCEPT ![raw.day] = Max({of[raw.day], raw.v})]
<1>2. [r EXCEPT !.offered[raw.day] = Max({@, raw.v})] =
        [daily |-> da, weekly |-> we, conflicts |-> co, offered |-> of2]
  BY <1>1
<1>3. \/ q = [daily |-> da, weekly |-> we, conflicts |-> co, offered |-> of2] /\ da[raw.day] = new
      \/ /\ q = [daily |-> [da EXCEPT ![raw.day] = new], weekly |-> we, conflicts |-> co, offered |-> of2]
         /\ (da[raw.day] = Missing \/ ~da[raw.day].closed \/ ~IsCandleClosed(raw.day, t))
      \/ /\ q = [daily |-> da, weekly |-> we, conflicts |-> TRUE, offered |-> of2]
         /\ da[raw.day] # Missing
  <2> HIDE DEF of2
  <2>. QED
    BY <1>1, <1>2 DEF UpsertLive
<1>4. Missing.closed = FALSE
  BY DEF Missing
<1>5. /\ q.weekly = we /\ q.offered = of2
      /\ q = [daily |-> q.daily, weekly |-> q.weekly, conflicts |-> q.conflicts, offered |-> q.offered]
  BY <1>3
<1>6. \/ q.daily = da /\ q.conflicts = co /\ da[raw.day] = new
      \/ /\ q.daily = [da EXCEPT ![raw.day] = new] /\ q.conflicts = co
         /\ ~(da[raw.day].closed /\ IsCandleClosed(raw.day, t))
      \/ q.daily = da /\ q.conflicts = TRUE /\ da[raw.day] # Missing
  BY <1>3, <1>4
<1>7. r.daily = da /\ r.weekly = we /\ r.conflicts = co /\ r.offered = of
  BY <1>1
<1>. QED
  BY <1>5, <1>6, <1>7 DEF Upserted

\* One update more.
LEMMA UpsertLiveStep ==
    ASSUME NEW r, RepoOK(r), NEW raw \in Raws, NEW t, NEW q, q = UpsertLive(r, raw, t)
    PROVE  /\ RepoOK(q) /\ q.weekly = r.weekly /\ (r.conflicts => q.conflicts)
           /\ \A d \in Days :
                 /\ q.offered[d] >= r.offered[d]
                 /\ q.offered[d] = r.offered[d] \/ (raw.day = d /\ raw.v = q.offered[d])
                 /\ raw.day = d => q.offered[d] >= raw.v
                 /\ q.daily[d].closed => r.daily[d].closed \/ IsCandleClosed(d, t)
                 /\ r.daily[d].closed /\ IsCandleClosed(d, t) => q.daily[d] = r.daily[d]
<1> DEFINE new == NormalizeRawCandle(raw, t)
           m == Max({r.offered[raw.day], raw.v})
<1>1. /\ q.weekly = r.weekly
      /\ q.offered = [r.offered EXCEPT ![raw.day] = m]
      /\ \/ q.daily = r.daily /\ q.conflicts = r.conflicts /\ r.daily[raw.day] = new
         \/ /\ q.daily = [r.daily EXCEPT ![raw.day] = new] /\ q.conflicts = r.conflicts
            /\ ~(r.daily[raw.day].closed /\ IsCandleClosed(raw.day, t))
         \/ q.daily = r.daily /\ q.conflicts = TRUE /\ r.daily[raw.day] # Missing
      /\ q = [daily |-> q.daily, weekly |-> q.weekly, conflicts |-> q.conflicts, offered |-> q.offered]
  <2>1. Upserted(r, q, raw, new, t)
    BY UpsertLiveFields
  <2>. QED
    BY <2>1 DEF Upserted
<1>2. raw.day \in Days /\ raw.v \in Nat /\ raw.closed \in BOOLEAN
  BY DEF Raws
<1>3. /\ r.daily \in [Days -> Candles] /\ r.conflicts \in BOOLEAN
      /\ r.weekly = [w \in Weeks |-> r.weekly[w]]
      /\ r.offered \in [Days -> Nat \cup {-1}]
      /\ \A d \in Days : r.daily[d] = Missing <=> r.offered[d] = -1
  BY DEF RepoOK
<1>4. m \in {r.offered[raw.day], raw.v} /\ r.offered[raw.day] <= m /\ raw.v <= m
  <2>1. r.offered[raw.day] \in Int /\ raw.v \in Int
    BY <1>2, <1>3
  <2>. QED
    BY <2>1, MaxOfTwo
<1>5. m \in Nat
  BY <1>2, <1>3, <1>4
<1>6. new \in Candles /\ new # Missing /\ (new.closed => IsCandleClosed(raw.day, t))
  <2>1. IsCandleClosed(raw.day, t) \in BOOLEAN
    BY DEF IsCandleClosed
  <2>2. new = [v |-> raw.v, closed |-> raw.closed /\ IsCandleClosed(raw.day, t)]
    BY DEF NormalizeRawCandle
  <2>3. new.v = raw.v /\ new.v # -1
    BY <2>2, <1>2
  <2>4. new \in Candles
    <3>1. PICK b \in BOOLEAN : b = (raw.closed /\ IsCandleClosed(raw.day, t))
      BY <2>1, <1>2
    <3>2. new = [v |-> raw.v, closed |-> b]
      BY <2>2, <3>1
    <3>. QED
      BY <3>2, <1>2 DEF Candles
  <2>5. Missing.v = -1
    BY DEF Missing
  <2>6. new.closed = (raw.closed /\ IsCandleClosed(raw.day, t))
    BY <2>2
  <2>. QED
    BY <2>3, <2>4, <2>5, <2>6
<1> HIDE DEF new, m
<1>7. q.daily \in [Days -> Candles] /\ q.conflicts \in BOOLEAN
  BY <1>1, <1>3, <1>6
<1>8. q.offered \in [Days -> Nat \cup {-1}]
  BY <1>1, <1>3, <1>5
<1>9. \A d \in Days : q.daily[d] = Missing <=> q.offered[d] = -1
  BY <1>1, <1>2, <1>3, <1>5, <1>6
<1>10. q.weekly = [w \in Weeks |-> q.weekly[w]]
  BY <1>1, <1>3
<1>11. RepoOK(q)
  BY <1>1, <1>7, <1>8, <1>9, <1>10 DEF RepoOK
<1>12. ASSUME NEW d \in Days
       PROVE  /\ q.offered[d] >= r.offered[d]
              /\ q.offered[d] = r.offered[d] \/ (raw.day = d /\ raw.v = q.offered[d])
              /\ raw.day = d => q.offered[d] >= raw.v
  BY <1>1, <1>2, <1>3, <1>4, <1>5
<1>13. ASSUME NEW d \in Days
       PROVE  /\ q.daily[d].closed => r.daily[d].closed \/ IsCandleClosed(d, t)
              /\ r.daily[d].closed /\ IsCandleClosed(d, t) => q.daily[d] = r.daily[d]
  BY <1>1, <1>2, <1>3, <1>6
<1>. QED
  BY <1>1, <1>11, <1>12, <1>13

\* ingest_live_raw: every update is offered, and a closed candle stays.
LEMMA IngestEffect ==
    ASSUME NEW r, RepoOK(r), NEW raws \in Seq(Raws), NEW t
    PROVE  Ingested(r, IngestLiveRaw(r, raws, t), raws, t)
<1>1. PICK h : /\ h[0] = r
               /\ \A k \in 1..Len(raws) : h[k] = UpsertLive(h[k - 1], raws[k], t)
               /\ IngestLiveRaw(r, raws, t) = h[Len(raws)]
  BY IngestSteps
<1> DEFINE Q == {k \in 0..Len(raws) : IngestedUpTo(r, h[k], raws, k, t)}
<1>2. Len(raws) \in Nat
  OBVIOUS
<1>3. 0 \in Q
  <2>1. r.offered \in [Days -> Nat \cup {-1}]
    BY DEF RepoOK
  <2>2. IngestedUpTo(r, r, raws, 0, t)
    BY <2>1 DEF IngestedUpTo
  <2>. QED
    BY <1>1, <1>2, <2>2
<1>4. ASSUME NEW k \in 1..Len(raws), k - 1 \in Q PROVE k \in Q
  <2> DEFINE p == h[k - 1]
             q == h[k]
  <2>1. /\ RepoOK(p) /\ p.weekly = r.weekly /\ (r.conflicts => p.conflicts)
        /\ \A d \in Days :
              /\ p.offered[d] >= r.offered[d]
              /\ p.offered[d] = r.offered[d] \/ \E i \in 1..(k - 1) : raws[i].day = d /\ raws[i].v = p.offered[d]
              /\ \A i \in 1..(k - 1) : raws[i].day = d => p.offered[d] >= raws[i].v
              /\ p.daily[d].closed => r.daily[d].closed \/ IsCandleClosed(d, t)
              /\ r.daily[d].closed /\ IsCandleClosed(d, t) => p.daily[d] = r.daily[d]
    BY <1>4 DEF IngestedUpTo
  <2>2. raws[k] \in Raws /\ k \in 0..Len(raws)
    BY <1>2
  <2>3. q = UpsertLive(p, raws[k], t)
    BY <1>1
  <2> HIDE DEF p, q
  <2>4. /\ RepoOK(q) /\ q.weekly = p.weekly /\ (p.conflicts => q.conflicts)
        /\ \A d \in Days :
              /\ q.offered[d] >= p.offered[d]
              /\ q.offered[d] = p.offered[d] \/ (raws[k].day = d /\ raws[k].v = q.offered[d])
              /\ raws[k].day = d => q.offered[d] >= raws[k].v
              /\ q.daily[d].closed => p.daily[d].closed \/ IsCandleClosed(d, t)
              /\ p.daily[d].closed /\ IsCandleClosed(d, t) => q.daily[d] = p.daily[d]
    BY <2>1, <2>2, <2>3, UpsertLiveStep
  <2>5. \A i \in 1..k : i \in 1..(k - 1) \/ i = k
    BY <1>2
  <2>6. \A i \in 1..Len(raws) : raws[i].v \in Nat
    <3>1. \A i \in 1..Len(raws) : raws[i] \in Raws
      BY <1>2
    <3>. QED
      BY <3>1 DEF Raws
  <2>7. ASSUME NEW d \in Days
        PROVE  r.offered[d] \in Int /\ p.offered[d] \in Int /\ q.offered[d] \in Int
    BY <2>1, <2>4 DEF RepoOK
  <2>8. ASSUME NEW d \in Days
        PROVE  /\ q.offered[d] >= r.offered[d]
               /\ q.offered[d] = r.offered[d] \/ \E i \in 1..k : raws[i].day = d /\ raws[i].v = q.offered[d]
    <3>1. 1..(k - 1) \subseteq 1..k /\ k \in 1..k
      BY <1>2
    <3>. QED
      BY <2>1, <2>4, <2>7, <3>1
  <2>9. ASSUME NEW d \in Days, NEW i \in 1..k, raws[i].day = d
        PROVE  q.offered[d] >= raws[i].v
    <3>1. raws[i].v \in Int
      BY <2>6, <1>2
    <3>. QED
      BY <2>1, <2>4, <2>5, <2>7, <2>9, <3>1
  <2>10. ASSUME NEW d \in Days
         PROVE  /\ q.daily[d].closed => r.daily[d].closed \/ IsCandleClosed(d, t)
                /\ r.daily[d].closed /\ IsCandleClosed(d, t) => q.daily[d] = r.daily[d]
    BY <2>1, <2>4
  <2>11. IngestedUpTo(r, q, raws, k, t)
    BY <2>1, <2>4, <2>8, <2>9, <2>10 DEF IngestedUpTo
  <2>. QED
    BY <2>2, <2>11 DEF q
<1>5. Len(raws) \in Q
  <2> HIDE DEF Q
  <2>. QED
    BY <1>2, <1>3, <1>4, PlaceInduction
<1>. QED
  BY <1>1, <1>5 DEF Ingested

\* The updates of a sequence, whatever their order.
Items(s) == {s[i] : i \in DOMAIN s}

\* The repository q holds what r held and the updates U, and no closed candle changed.
Absorbed(r, q, U) ==
    /\ RepoOK(q) /\ (r.conflicts => q.conflicts)
    /\ \A d \in Days :
          /\ q.offered[d] >= r.offered[d]
          /\ q.offered[d] = r.offered[d] \/ \E u \in U : u.day = d /\ u.v = q.offered[d]
          /\ \A u \in U : u.day = d => q.offered[d] >= u.v
          /\ r.daily[d].closed => q.daily[d] = r.daily[d]

\* No day is lost.
LEMMA AbsorbedStored ==
    ASSUME NEW r, RepoOK(r), NEW q, NEW U, Absorbed(r, q, U)
    PROVE  Stored(r) \subseteq Stored(q)
<1>1. ASSUME NEW d \in Days, r.daily[d] # Missing PROVE q.daily[d] # Missing
  <2>1. r.offered[d] \in Nat
    BY <1>1 DEF RepoOK
  <2>2. q.offered[d] \in Nat \cup {-1} /\ q.offered[d] >= r.offered[d]
    BY DEF RepoOK, Absorbed
  <2>3. q.offered[d] # -1
    BY <2>1, <2>2
  <2>. QED
    BY <2>3 DEF RepoOK, Absorbed
<1>. QED
  BY <1>1 DEF Stored

\* Two absorptions are one.
LEMMA AbsorbedTwice ==
    ASSUME NEW r, RepoOK(r), NEW p, NEW q, NEW U, NEW V, Absorbed(r, p, U), Absorbed(p, q, V),
           \A u \in U : u.v \in Int
    PROVE  Absorbed(r, q, U \cup V)
<1>1. /\ RepoOK(p) /\ (r.conflicts => p.conflicts)
      /\ \A d \in Days :
            /\ p.offered[d] >= r.offered[d]
            /\ p.offered[d] = r.offered[d] \/ \E u \in U : u.day = d /\ u.v = p.offered[d]
            /\ \A u \in U : u.day = d => p.offered[d] >= u.v
            /\ r.daily[d].closed => p.daily[d] = r.daily[d]
  BY DEF Absorbed
<1>2. /\ RepoOK(q) /\ (p.conflicts => q.conflicts)
      /\ \A d \in Days :
            /\ q.offered[d] >= p.offered[d]
            /\ q.offered[d] = p.offered[d] \/ \E u \in V : u.day = d /\ u.v = q.offered[d]
            /\ \A u \in V : u.day = d => q.offered[d] >= u.v
            /\ p.daily[d].closed => q.daily[d] = p.daily[d]
  BY DEF Absorbed
<1>3. ASSUME NEW d \in Days
      PROVE  r.offered[d] \in Int /\ p.offered[d] \in Int /\ q.offered[d] \in Int
  BY <1>1, <1>2 DEF RepoOK
<1>4. ASSUME NEW d \in Days
      PROVE  /\ q.offered[d] >= r.offered[d]
             /\ q.offered[d] = r.offered[d] \/ \E u \in U \cup V : u.day = d /\ u.v = q.offered[d]
             /\ r.daily[d].closed => q.daily[d] = r.daily[d]
  BY <1>1, <1>2, <1>3
<1>5. ASSUME NEW d \in Days, NEW u \in U \cup V, u.day = d
      PROVE  q.offered[d] >= u.v
  BY <1>1, <1>2, <1>3, <1>5
<1>. QED
  BY <1>1, <1>2, <1>4, <1>5 DEF Absorbed

\* ingest_live_raw absorbs the updates and leaves the weeks.
LEMMA IngestAbsorbs ==
    ASSUME NEW r, RepoOK(r), NEW raws \in Seq(Raws), NEW t, RepoAsOf(r, t),
           NEW q, q = IngestLiveRaw(r, raws, t)
    PROVE  Absorbed(r, q, Items(raws)) /\ q.weekly = r.weekly /\ RepoAsOf(q, t)
<1>1. Ingested(r, q, raws, t)
  BY IngestEffect
<1>2. /\ RepoOK(q) /\ q.weekly = r.weekly /\ (r.conflicts => q.conflicts)
      /\ \A d \in Days :
            /\ q.offered[d] >= r.offered[d]
            /\ q.offered[d] = r.offered[d] \/ \E i \in 1..Len(raws) : raws[i].day = d /\ raws[i].v = q.offered[d]
            /\ \A i \in 1..Len(raws) : raws[i].day = d => q.offered[d] >= raws[i].v
            /\ q.daily[d].closed => r.daily[d].closed \/ IsCandleClosed(d, t)
            /\ r.daily[d].closed /\ IsCandleClosed(d, t) => q.daily[d] = r.daily[d]
  BY <1>1 DEF Ingested, IngestedUpTo
<1>3. DOMAIN raws = 1..Len(raws)
  OBVIOUS
<1>4. \A d \in Days : r.daily[d].closed => IsCandleClosed(d, t)
  BY DEF RepoAsOf
<1>5. Absorbed(r, q, Items(raws))
  <2>1. \A i \in 1..Len(raws) : raws[i] \in Items(raws)
    BY <1>3 DEF Items
  <2>2. \A u \in Items(raws) : \E i \in 1..Len(raws) : u = raws[i]
    BY <1>3 DEF Items
  <2>3. ASSUME NEW d \in Days
        PROVE  /\ q.offered[d] = r.offered[d] \/ \E u \in Items(raws) : u.day = d /\ u.v = q.offered[d]
               /\ \A u \in Items(raws) : u.day = d => q.offered[d] >= u.v
    BY <1>2, <2>1, <2>2
  <2>. QED
    BY <1>2, <1>4, <2>3 DEF Absorbed
<1>6. Stored(r) \subseteq Stored(q)
  BY <1>5, AbsorbedStored
<1>7. RepoAsOf(q, t)
  BY <1>2, <1>4, <1>6 DEF RepoAsOf
<1>. QED
  BY <1>2, <1>5, <1>7

-----------------------------------------------------------------------------
(* The weekly refresh.                                                     *)

\* The days of a closed week are closed.
LEMMA WeekDaysClosed ==
    ASSUME NEW w \in Weeks, NEW t \in Int, WeekClosed(w, t), NEW d \in WeekOf(w)
    PROVE  d \in Int /\ IsCandleClosed(d, t)
<1>1. w \in Int /\ WeekDays \in Int
  BY FeedConstants DEF Weeks
<1> DEFINE x == w * WeekDays
           y == (w - 1) * WeekDays
<1>2. x \in Int /\ y \in Int
  BY <1>1
<1>3. d \in (y + 1)..x /\ t >= 2 * x - 1
  BY DEF WeekOf, WeekClosed, IsCandleClosed
<1> HIDE DEF x, y
<1>. QED
  BY <1>2, <1>3 DEF IsCandleClosed

\* refresh_iso_weekly: afterwards a week is that of its days, or a conflict is recorded.
LEMMA RefreshAbsorbs ==
    ASSUME NEW r, RepoOK(r), NEW t \in Int, RepoAsOf(r, t),
           NEW q, q = RefreshIsoWeekly(r, t)
    PROVE  Absorbed(r, q, {}) /\ RepoAsOf(q, t) /\ q.daily = r.daily /\ (q.conflicts \/ WeeksAgree(q))
<1> DEFINE built == AggregateWeeklyFromDaily(r, t)
           week(w) == IF w \in built THEN Upsert(r.weekly[w], AggregateBucket(r, w)) ELSE r.weekly[w]
           differ == \E w \in built : Upsert(r.weekly[w], AggregateBucket(r, w)) # AggregateBucket(r, w)
<1>1. PICK da, we, co, of : r = [daily |-> da, weekly |-> we, conflicts |-> co, offered |-> of]
  BY DEF RepoOK
<1>2. r.daily = da /\ r.weekly = we /\ r.conflicts = co /\ r.offered = of
  BY <1>1
<1>3. q = [r EXCEPT !.weekly = [w \in Weeks |-> week(w)], !.conflicts = r.conflicts \/ differ]
  BY <1>1 DEF RefreshIsoWeekly
<1> HIDE DEF week, differ, built
<1>4. q = [daily |-> da, weekly |-> [w \in Weeks |-> week(w)], conflicts |-> (co \/ differ), offered |-> of]
  BY <1>1, <1>2, <1>3
<1>5. /\ q.daily = r.daily /\ q.offered = r.offered /\ q.conflicts = (r.conflicts \/ differ)
      /\ q.weekly = [w \in Weeks |-> week(w)]
  BY <1>2, <1>4
<1>6. RepoOK(q)
  <2>1. q = [daily |-> q.daily, weekly |-> q.weekly, conflicts |-> q.conflicts, offered |-> q.offered]
    BY <1>2, <1>4, <1>5
  <2>2. q.weekly = [w \in Weeks |-> q.weekly[w]]
    BY <1>5
  <2>3. q.conflicts \in BOOLEAN
    BY <1>5 DEF RepoOK
  <2>. QED
    BY <1>5, <2>1, <2>2, <2>3 DEF RepoOK
<1>7. Absorbed(r, q, {})
  <2>1. \A d \in Days : q.offered[d] >= r.offered[d]
    BY <1>5 DEF RepoOK
  <2>. QED
    BY <1>5, <1>6, <2>1 DEF Absorbed
<1>8. Stored(q) = Stored(r)
  BY <1>5 DEF Stored
<1>9. ASSUME NEW w \in built PROVE w \in Weeks /\ WeekClosed(w, t) /\ WeekOf(w) \subseteq Stored(r)
  BY DEF built, AggregateWeeklyFromDaily, GetClosedBefore
<1>10. RepoAsOf(q, t)
  <2>1. \A d \in Days : q.daily[d].closed => IsCandleClosed(d, t)
    BY <1>5 DEF RepoAsOf
  <2>2. ASSUME NEW w \in Weeks, q.weekly[w] # <<>>
        PROVE  WeekClosed(w, t) /\ WeekOf(w) \subseteq Stored(q)
    <3>1. CASE w \in built
      BY <1>8, <1>9, <3>1
    <3>2. CASE w \notin built
      <4>1. r.weekly[w] # <<>>
        BY <1>5, <2>2, <3>2 DEF week
      <4>. QED
        BY <1>8, <4>1 DEF RepoAsOf
    <3>. QED
      BY <3>1, <3>2
  <2>. QED
    BY <2>1, <2>2 DEF RepoAsOf
<1>11. ASSUME ~q.conflicts PROVE WeeksAgree(q)
  <2>1. ~differ
    BY <1>5, <1>11
  <2>2. ASSUME NEW w \in Weeks, q.weekly[w] # <<>>
        PROVE  q.weekly[w] = AggregateBucket(r, w)
    <3>1. w \in built
      <4>1. CASE r.weekly[w] # <<>>
        <5>1. WeekClosed(w, t) /\ WeekOf(w) \subseteq Stored(r)
          BY <4>1 DEF RepoAsOf
        <5>2. WeekOf(w) \subseteq GetClosedBefore(r, t)
          BY <5>1, WeekDaysClosed DEF GetClosedBefore
        <5>. QED
          BY <5>1, <5>2 DEF built, AggregateWeeklyFromDaily
      <4>2. CASE r.weekly[w] = <<>>
        BY <1>5, <2>2, <4>2 DEF week
      <4>. QED
        BY <4>1, <4>2
    <3>2. q.weekly[w] = Upsert(r.weekly[w], AggregateBucket(r, w))
      BY <1>5, <3>1 DEF week
    <3>. QED
      BY <2>1, <3>1, <3>2 DEF differ
  <2>3. ASSUME NEW w \in Weeks PROVE AggregateBucket(r, w) = [d \in WeekOf(w) |-> q.daily[d].v]
    BY <1>5 DEF AggregateBucket
  <2>. QED
    BY <2>2, <2>3 DEF WeeksAgree
<1>. QED
  BY <1>5, <1>7, <1>10, <1>11

\* Time only confirms what is closed.
LEMMA AsOfLater ==
    ASSUME NEW r, NEW t \in Int, NEW u \in Int, t <= u, RepoAsOf(r, t)
    PROVE  RepoAsOf(r, u)
<1>1. ASSUME NEW d \in Int, IsCandleClosed(d, t) PROVE IsCandleClosed(d, u)
  BY <1>1 DEF IsCandleClosed
<1>2. \A d \in Days : d \in Int
  BY DEF Days
<1>3. \A w \in Weeks : w * WeekDays \in Int
  BY FeedConstants DEF Weeks
<1>. QED
  BY <1>1, <1>2, <1>3 DEF RepoAsOf, WeekClosed

-----------------------------------------------------------------------------
(* The sequences: the replay of the buffer, the snapshot, the wire.        *)

\* What a sequence has.
LEMMA HasItems ==
    ASSUME NEW s, NEW d
    PROVE  Has(s, d) <=> \E u \in Items(s) : u.day = d
BY DEF Has, Items

\* What a sequence carries.
LEMMA CarriesItems ==
    ASSUME NEW s, NEW d, NEW v
    PROVE  /\ Carries(s, d, v) <=> \E u \in Items(s) : u.day = d /\ u.v = v
           /\ Carries(s, d, v) => Has(s, d)
BY DEF Has, Carries, Items

\* An empty sequence has nothing.
LEMMA EmptyItems ==
    /\ Items(<<>>) = {}
    /\ \A d : ~Has(<<>>, d)
    /\ \A d, v : ~Carries(<<>>, d, v)
<1>1. DOMAIN <<>> = {}
  OBVIOUS
<1>. QED
  BY <1>1 DEF Has, Carries, Items

\* The updates of a longer sequence.
LEMMA AppendItems ==
    ASSUME NEW S, NEW s \in Seq(S), NEW x \in S
    PROVE  /\ Items(Append(s, x)) = Items(s) \cup {x}
           /\ \A d : Has(Append(s, x), d) <=> Has(s, d) \/ x.day = d
           /\ \A d, v : Carries(Append(s, x), d, v) <=> Carries(s, d, v) \/ (x.day = d /\ x.v = v)
<1>1. /\ DOMAIN Append(s, x) = 1..(Len(s) + 1) /\ DOMAIN s = 1..Len(s) /\ Len(s) \in Nat
      /\ \A i \in 1..Len(s) : Append(s, x)[i] = s[i]
      /\ Append(s, x)[Len(s) + 1] = x
  OBVIOUS
<1>2. Items(Append(s, x)) = Items(s) \cup {x}
  <2>1. ASSUME NEW u \in Items(Append(s, x)) PROVE u \in Items(s) \cup {x}
    <3>1. PICK i \in 1..(Len(s) + 1) : u = Append(s, x)[i]
      BY <1>1 DEF Items
    <3>2. i \in 1..Len(s) \/ i = Len(s) + 1
      BY <1>1
    <3>. QED
      BY <1>1, <3>1, <3>2 DEF Items
  <2>2. ASSUME NEW u \in Items(s) \cup {x} PROVE u \in Items(Append(s, x))
    <3>1. CASE u = x
      BY <1>1, <3>1 DEF Items
    <3>2. CASE u \in Items(s)
      <4>1. PICK i \in 1..Len(s) : u = s[i]
        BY <1>1, <3>2 DEF Items
      <4>2. i \in 1..(Len(s) + 1)
        BY <1>1
      <4>. QED
        BY <1>1, <4>1, <4>2 DEF Items
    <3>. QED
      BY <3>1, <3>2
  <2>. QED
    BY <2>1, <2>2
<1>3. ASSUME NEW d, NEW v
      PROVE  /\ Has(Append(s, x), d) <=> Has(s, d) \/ x.day = d
             /\ Carries(Append(s, x), d, v) <=> Carries(s, d, v) \/ (x.day = d /\ x.v = v)
  <2> DEFINE a == Append(s, x)
  <2>1. Items(a) = Items(s) \cup {x}
    BY <1>2
  <2> HIDE DEF a
  <2>2. Has(a, d) <=> Has(s, d) \/ x.day = d
    BY <2>1, HasItems
  <2>3. Carries(a, d, v) <=> Carries(s, d, v) \/ (x.day = d /\ x.v = v)
    BY <2>1, CarriesItems
  <2>. QED
    BY <2>2, <2>3 DEF a
<1>. QED
  BY <1>2, <1>3

\* The places of a longer sequence.
Grown(S, s, a, x) ==
    /\ a \in Seq(S) /\ Len(a) = Len(s) + 1 /\ Len(s) \in Nat
    /\ \A i \in DOMAIN a : \/ i \in DOMAIN s /\ a[i] = s[i]
                           \/ i = Len(s) + 1 /\ a[i] = x
    /\ \A i, j \in DOMAIN a : i <= j /\ i = Len(s) + 1 => j = Len(s) + 1
    /\ s # <<>> => a # <<>> /\ a[1] = s[1]

\* Append makes one.
LEMMA AppendPlaces ==
    ASSUME NEW S, NEW s \in Seq(S), NEW x \in S
    PROVE  Grown(S, s, Append(s, x), x)
<1> DEFINE a == Append(s, x)
<1>1. /\ DOMAIN a = 1..(Len(s) + 1) /\ DOMAIN s = 1..Len(s) /\ Len(s) \in Nat
      /\ \A i \in 1..Len(s) : a[i] = s[i]
      /\ a[Len(s) + 1] = x /\ a \in Seq(S) /\ Len(a) = Len(s) + 1
  OBVIOUS
<1>2. ASSUME s # <<>> PROVE a # <<>> /\ a[1] = s[1]
  BY <1>1, <1>2
<1>3. \A i \in DOMAIN a : \/ i \in DOMAIN s /\ a[i] = s[i]
                          \/ i = Len(s) + 1 /\ a[i] = x
  <2>1. \A i \in 1..(Len(s) + 1) : i \in 1..Len(s) \/ i = Len(s) + 1
    BY <1>1
  <2>. QED
    BY <1>1, <2>1
<1>4. \A i, j \in DOMAIN a : i <= j /\ i = Len(s) + 1 => j = Len(s) + 1
  BY <1>1
<1>. QED
  BY <1>1, <1>2, <1>3, <1>4 DEF Grown

\* The updates of what is left once the first is taken.
LEMMA TailItems ==
    ASSUME NEW S, NEW s \in Seq(S), s # <<>>
    PROVE  /\ Items(s) = Items(Tail(s)) \cup {Head(s)}
           /\ Head(s) = s[1] /\ Head(s) \in S /\ Tail(s) \in Seq(S)
           /\ \A d : Has(s, d) <=> Has(Tail(s), d) \/ Head(s).day = d
           /\ \A d, v : Carries(s, d, v) <=> Carries(Tail(s), d, v) \/ (Head(s).day = d /\ Head(s).v = v)
<1>1. /\ DOMAIN Tail(s) = 1..(Len(s) - 1) /\ DOMAIN s = 1..Len(s) /\ Len(s) \in Nat \ {0}
      /\ \A i \in 1..(Len(s) - 1) : Tail(s)[i] = s[i + 1]
      /\ Head(s) = s[1] /\ Tail(s) \in Seq(S)
  OBVIOUS
<1>2. Items(s) = Items(Tail(s)) \cup {Head(s)}
  <2>1. ASSUME NEW u \in Items(s) PROVE u \in Items(Tail(s)) \cup {Head(s)}
    <3>1. PICK i \in 1..Len(s) : u = s[i]
      BY <1>1 DEF Items
    <3>2. i = 1 \/ (i - 1 \in 1..(Len(s) - 1) /\ i = (i - 1) + 1)
      BY <1>1
    <3>. QED
      BY <1>1, <3>1, <3>2 DEF Items
  <2>2. ASSUME NEW u \in Items(Tail(s)) \cup {Head(s)} PROVE u \in Items(s)
    <3>1. CASE u = Head(s)
      BY <1>1, <3>1 DEF Items
    <3>2. CASE u \in Items(Tail(s))
      <4>1. PICK i \in 1..(Len(s) - 1) : u = s[i + 1]
        BY <1>1, <3>2 DEF Items
      <4>2. i + 1 \in 1..Len(s)
        BY <1>1
      <4>. QED
        BY <1>1, <4>1, <4>2 DEF Items
    <3>. QED
      BY <3>1, <3>2
  <2>. QED
    BY <2>1, <2>2
<1>3. Head(s) \in S
  BY <1>1
<1>4. ASSUME NEW d, NEW v
      PROVE  /\ Has(s, d) <=> Has(Tail(s), d) \/ Head(s).day = d
             /\ Carries(s, d, v) <=> Carries(Tail(s), d, v) \/ (Head(s).day = d /\ Head(s).v = v)
  <2> DEFINE a == Tail(s)
             x == Head(s)
  <2>1. Items(s) = Items(a) \cup {x}
    BY <1>2
  <2> HIDE DEF a, x
  <2>2. Has(s, d) <=> Has(a, d) \/ x.day = d
    BY <2>1, HasItems
  <2>3. Carries(s, d, v) <=> Carries(a, d, v) \/ (x.day = d /\ x.v = v)
    BY <2>1, CarriesItems
  <2>. QED
    BY <2>2, <2>3 DEF a, x
<1>. QED
  BY <1>1, <1>2, <1>3, <1>4

\* end_buffer finds the buffer in order.
LEMMA EndBufferSorted ==
    ASSUME buffer \in Seq(Raws), Sorted(buffer)
    PROVE  EndBuffer = buffer
<1>1. DOMAIN buffer = 1..Len(buffer) /\ Len(buffer) \in Nat
  OBVIOUS
<1>2. \A i \in DOMAIN buffer : buffer[i].day \in Int
  <2>1. \A i \in DOMAIN buffer : buffer[i] \in Raws
    OBVIOUS
  <2>. QED
    BY <2>1 DEF Raws, Days
<1>3. ASSUME NEW i \in DOMAIN buffer PROVE NotAfter(i) = 1..i
  <2>1. ASSUME NEW k \in DOMAIN buffer PROVE k \in NotAfter(i) <=> k <= i
    BY <1>1, <1>2 DEF NotAfter, Sorted
  <2>. QED
    BY <1>1, <2>1 DEF NotAfter
<1>4. ASSUME NEW i \in DOMAIN buffer PROVE Cardinality(NotAfter(i)) = i
  BY <1>1, <1>3, FS_Interval
<1> DEFINE place(n) == CHOOSE i \in DOMAIN buffer : Cardinality(NotAfter(i)) = n
<1>5. ASSUME NEW n \in DOMAIN buffer PROVE place(n) = n
  BY <1>4
<1>6. EndBuffer = [n \in DOMAIN buffer |-> buffer[n]]
  <2>1. EndBuffer = [n \in DOMAIN buffer |-> buffer[place(n)]]
    BY DEF EndBuffer
  <2> HIDE DEF place
  <2>. QED
    BY <1>5, <2>1
<1>. QED
  BY <1>6

\* There are finitely many days.
LEMMA DaysFinite ==
    IsFiniteSet(Days) /\ Days \subseteq Int /\ 1 \in Days
<1>1. NDays \in Int /\ 1 <= NDays
  BY FeedConstants
<1>. QED
  BY <1>1, FS_Interval DEF Days

\* The place from which the backfill asks.
LEMMA BackfillBegins ==
    /\ BackfillFrom \in Days
    /\ \A m \in Stored(repo) : m <= BackfillFrom
    /\ IF Stored(repo) = {} THEN BackfillFrom = 1 ELSE BackfillFrom \in Stored(repo)
<1>1. IsFiniteSet(Days) /\ Stored(repo) \subseteq Days /\ 1 \in Days
  BY DaysFinite DEF Stored
<1>2. IsFiniteSet(Stored(repo)) /\ Stored(repo) \subseteq Int
  BY <1>1, DaysFinite, FS_Subset
<1>3. CASE Stored(repo) = {}
  BY <1>1, <1>3 DEF BackfillFrom
<1>4. CASE Stored(repo) # {}
  BY <1>1, <1>2, <1>4, MaxExists DEF BackfillFrom
<1>. QED
  BY <1>3, <1>4

\* parse_candle keeps day and version.
LEMMA ParsedRaw ==
    ASSUME NEW d \in Days, NEW v \in Nat, NEW t
    PROVE  ParseCandle(d, v, t) \in Raws /\ ParseCandle(d, v, t).day = d /\ ParseCandle(d, v, t).v = v
<1>1. ProviderClosed(d, t) \in BOOLEAN
  BY DEF ProviderClosed
<1>2. PICK b \in BOOLEAN : b = ProviderClosed(d, t)
  BY <1>1
<1>3. ParseCandle(d, v, t) = [day |-> d, v |-> v, closed |-> b]
  BY <1>2 DEF ParseCandle
<1>. QED
  BY <1>3 DEF Raws

\* candleSnapshot: the days asked for, in the version of the moment.
LEMMA SnapshotItems ==
    ASSUME NEW from, NEW to, FetchCandles(from, to), evalTime \in Int, market \in [Days -> Nat]
    PROVE  /\ snapshot' \in Seq(Raws)
           /\ Items(snapshot') = {ParseCandle(d, market[d], evalTime) :
                                     d \in {d \in Days : d >= BackfillFrom /\ Opened(d, evalTime)}}
<1> DEFINE F == BackfillFrom
           asked == {d \in Days : d >= F /\ Opened(d, evalTime)}
           n == Cardinality(asked)
           day(i) == F + i - 1
<1>1. snapshot' = [i \in 1..n |-> ParseCandle(day(i), market[day(i)], evalTime)]
  BY DEF FetchCandles
<1>2. F \in Days /\ F \in Int /\ asked \subseteq Int
  BY BackfillBegins DEF Days
<1>3. n \in Nat /\ asked = F..(F + n - 1)
  <2>1. IsFiniteSet(asked)
    BY DaysFinite, FS_Subset
  <2>2. CASE asked = {}
    <3>1. n = 0
      BY <2>2, FS_EmptySet
    <3>. QED
      BY <1>2, <2>2, <3>1
  <2>3. CASE asked # {}
    <3>1. Max(asked) \in asked /\ \A y \in asked : y <= Max(asked)
      BY <1>2, <2>1, <2>3, MaxExists
    <3>2. asked = F..Max(asked)
      <4> DEFINE M == Max(asked)
      <4>1. M \in Days /\ M >= F /\ Opened(M, evalTime)
        BY <3>1
      <4>2. \A y \in asked : y \in Int /\ F <= y /\ y <= M
        BY <1>2, <3>1
      <4> HIDE DEF M, F
      <4>3. \A y \in F..M : y \in Days /\ y >= F /\ Opened(y, evalTime)
        BY <1>2, <4>1, FeedConstants DEF Days, Opened
      <4>4. F..M \subseteq asked
        BY <4>3
      <4>5. asked \subseteq F..M
        <5> HIDE DEF asked
        <5>1. M \in Int
          BY <4>1 DEF Days
        <5>. QED
          BY <1>2, <4>2, <5>1
      <4>. QED
        BY <4>4, <4>5 DEF M
    <3>3. Max(asked) \in Int /\ F <= Max(asked)
      BY <3>1, <1>2
    <3>4. n = Max(asked) - F + 1
      <4> DEFINE M == Max(asked)
      <4> HIDE DEF M, F
      <4>1. Cardinality(F..M) = M - F + 1
        BY <1>2, <3>3, FS_Interval DEF M
      <4>. QED
        BY <3>2, <4>1 DEF M
    <3> HIDE DEF n, asked, F
    <3>. QED
      BY <1>2, <3>2, <3>3, <3>4
  <2>. QED
    BY <2>2, <2>3
<1> HIDE DEF n, F
<1>4. \A i \in 1..n : day(i) \in asked
  <2> HIDE DEF asked
  <2>. QED
    BY <1>2, <1>3
<1>5. \A d \in asked : d - F + 1 \in 1..n /\ day(d - F + 1) = d
  <2> HIDE DEF asked
  <2>. QED
    BY <1>2, <1>3
<1>6. \A d \in asked : d \in Days /\ market[d] \in Nat /\ ParseCandle(d, market[d], evalTime) \in Raws
  <2>1. ASSUME NEW d \in asked PROVE d \in Days /\ market[d] \in Nat
    OBVIOUS
  <2>. QED
    BY <2>1, ParsedRaw
<1> HIDE DEF asked, day
<1>7. snapshot' \in Seq(Raws)
  <2>1. \A i \in 1..n : ParseCandle(day(i), market[day(i)], evalTime) \in Raws
    BY <1>4, <1>6
  <2>. QED
    BY <1>1, <1>3, <2>1
<1>8. Items(snapshot') = {ParseCandle(d, market[d], evalTime) : d \in asked}
  <2>1. DOMAIN snapshot' = 1..n /\ \A i \in 1..n : snapshot'[i] = ParseCandle(day(i), market[day(i)], evalTime)
    BY <1>1
  <2>. QED
    BY <1>4, <1>5, <2>1 DEF Items
<1>. QED
  BY <1>7, <1>8 DEF asked, F

\* Known and the rest in the next state.
LEMMA NextVocabulary ==
    ASSUME NEW d
    PROVE  /\ Known(d)' <=> (repo'.offered[d] # -1 \/ Has(queue', d))
           /\ KnownNewest(d)' <=> (repo'.offered[d] = market'[d] \/ Carries(queue', d, market'[d]))
           /\ Gathered(d)' <=> (Known(d)' \/ Has(buffer', d) \/ Has(snapshot', d))
           /\ GatheredNewest(d)' <=>
                 (KnownNewest(d)' \/ Carries(buffer', d, market'[d]) \/ Carries(snapshot', d, market'[d]))
BY DEF Known, KnownNewest, Gathered, GatheredNewest, Has, Carries

-----------------------------------------------------------------------------
(* The calls' effect on the repository.                                    *)

\* The updates of a sequence of raw candles are raw candles.
LEMMA RawItems ==
    ASSUME NEW s \in Seq(Raws)
    PROVE  \A u \in Items(s) : u \in Raws /\ u.day \in Days /\ u.v \in Nat
<1>1. \A i \in DOMAIN s : s[i] \in Raws
  OBVIOUS
<1>2. \A u \in Raws : u.day \in Days /\ u.v \in Nat
  BY DEF Raws
<1>. QED
  BY <1>1, <1>2 DEF Items

\* The tail of process_live.
LEMMA DrainAbsorbs ==
    ASSUME NEW r, RepoOK(r), NEW t \in Int, RepoAsOf(r, t), queue \in Seq(Raws), NEW q, q = Drain(r, t)
    PROVE  Absorbed(r, q, Items(queue)) /\ RepoAsOf(q, t) /\ (q.conflicts \/ WeeksAgree(q))
<1> DEFINE p == IngestLiveRaw(r, queue, t)
<1>1. Absorbed(r, p, Items(queue)) /\ RepoAsOf(p, t)
  BY IngestAbsorbs
<1>2. q = RefreshIsoWeekly(p, t)
  BY DEF Drain
<1> HIDE DEF p
<1>3. RepoOK(p)
  BY <1>1 DEF Absorbed
<1>4. Absorbed(p, q, {}) /\ RepoAsOf(q, t) /\ (q.conflicts \/ WeeksAgree(q))
  BY <1>1, <1>2, <1>3, RefreshAbsorbs
<1>5. Absorbed(r, q, Items(queue) \cup {})
  <2>1. \A u \in Items(queue) : u.v \in Int
    BY RawItems
  <2>. QED
    BY <1>1, <1>4, <2>1, AbsorbedTwice
<1>6. Items(queue) \cup {} = Items(queue)
  OBVIOUS
<1>. QED
  BY <1>4, <1>5, <1>6

\* The backfill, the replay of the buffer and the weekly refresh.
LEMMA BackfillAbsorbs ==
    ASSUME RepoOK(repo), evalTime \in Int, RepoAsOf(repo, evalTime), snapshot \in Seq(Raws),
           buffer \in Seq(Raws), Sorted(buffer), NEW q, q = AfterBackfill(repo)
    PROVE  /\ Absorbed(repo, q, Items(snapshot) \cup Items(buffer))
           /\ RepoAsOf(q, evalTime) /\ (q.conflicts \/ WeeksAgree(q))
<1> DEFINE p == IngestLiveRaw(repo, snapshot, evalTime)
           o == IngestLiveRaw(p, buffer, evalTime)
<1>1. Absorbed(repo, p, Items(snapshot)) /\ RepoAsOf(p, evalTime)
  BY IngestAbsorbs
<1>2. q = RefreshIsoWeekly(o, evalTime)
  BY EndBufferSorted DEF AfterBackfill
<1> HIDE DEF p
<1>3. RepoOK(p)
  BY <1>1 DEF Absorbed
<1>4. Absorbed(p, o, Items(buffer)) /\ RepoAsOf(o, evalTime)
  BY <1>1, <1>3, IngestAbsorbs
<1> HIDE DEF o
<1>5. RepoOK(o)
  BY <1>4 DEF Absorbed
<1>6. Absorbed(o, q, {}) /\ RepoAsOf(q, evalTime) /\ (q.conflicts \/ WeeksAgree(q))
  BY <1>2, <1>4, <1>5, RefreshAbsorbs
<1>7. (\A u \in Items(snapshot) : u.v \in Int) /\ (\A u \in Items(buffer) : u.v \in Int)
  BY RawItems
<1> DEFINE U == Items(snapshot) \cup Items(buffer)
<1>8. Absorbed(repo, o, U) /\ \A u \in U : u.v \in Int
  BY <1>1, <1>4, <1>7, AbsorbedTwice
<1> HIDE DEF U
<1>9. Absorbed(repo, q, U \cup {}) /\ U \cup {} = U
  BY <1>6, <1>8, AbsorbedTwice
<1>. QED
  BY <1>6, <1>9 DEF U

\* What a repository knows after an absorption, when no update runs ahead of the exchange.
LEMMA AbsorbedKnows ==
    ASSUME NEW r, RepoOK(r), NEW q, NEW U, Absorbed(r, q, U), NEW m \in [Days -> Nat],
           \A d \in Days : r.offered[d] <= m[d],
           \A u \in U : u.day \in Days /\ u.v \in Nat /\ u.v <= m[u.day],
           NEW d \in Days
    PROVE  /\ q.offered[d] \in Nat \cup {-1} /\ q.offered[d] <= m[d]
           /\ q.offered[d] # -1 <=> r.offered[d] # -1 \/ \E u \in U : u.day = d
           /\ q.offered[d] = m[d] <=> r.offered[d] = m[d] \/ \E u \in U : u.day = d /\ u.v = m[d]
<1>1. r.offered[d] \in Nat \cup {-1} /\ q.offered[d] \in Nat \cup {-1} /\ m[d] \in Nat
  BY DEF Absorbed, RepoOK
<1>2. /\ q.offered[d] >= r.offered[d]
      /\ q.offered[d] = r.offered[d] \/ \E u \in U : u.day = d /\ u.v = q.offered[d]
      /\ \A u \in U : u.day = d => q.offered[d] >= u.v
  BY DEF Absorbed
<1>3. q.offered[d] <= m[d]
  BY <1>1, <1>2
<1>4. q.offered[d] # -1 <=> r.offered[d] # -1 \/ \E u \in U : u.day = d
  BY <1>1, <1>2
<1>5. q.offered[d] = m[d] <=> r.offered[d] = m[d] \/ \E u \in U : u.day = d /\ u.v = m[d]
  BY <1>1, <1>2, <1>3
<1>. QED
  BY <1>1, <1>3, <1>4, <1>5

-----------------------------------------------------------------------------
(* What the invariant says, in the form that the steps use.                *)

\* The last tick of the clock.
LEMMA ClockBound ==
    /\ Max({StartTick, 2 * NDays}) \in Int
    /\ StartTick <= Max({StartTick, 2 * NDays}) /\ 2 * NDays <= Max({StartTick, 2 * NDays})
<1> DEFINE n == 2 * NDays
<1>1. StartTick \in Int /\ n \in Int
  BY FeedConstants
<1> HIDE DEF n
<1>2. Max({StartTick, n}) \in {StartTick, n} /\ StartTick <= Max({StartTick, n}) /\ n <= Max({StartTick, n})
  BY <1>1, MaxOfTwo
<1>3. Max({StartTick, n}) \in Int
  BY <1>1, <1>2
<1>. QED
  BY <1>2, <1>3 DEF n

\* The types of the variables.
LEMMA Types ==
    ASSUME TypeOK
    PROVE  /\ clock \in Nat /\ evalTime \in Nat /\ lastBackfill \in Nat
           /\ evalTime <= clock /\ lastBackfill <= clock /\ StartTick <= clock
           /\ market \in [Days -> Nat]
           /\ link \in BOOLEAN /\ acked \in BOOLEAN /\ reader \in BOOLEAN /\ bgError \in BOOLEAN
           /\ buffering \in BOOLEAN /\ lastError \in BOOLEAN /\ outrun \in BOOLEAN
           /\ pc \in PCs
           /\ NDays \in Nat /\ Days \subseteq Int
<1>1. StartTick \in Nat /\ NDays \in Nat
  BY FeedConstants
<1>2. clock \in StartTick..Max({StartTick, 2 * NDays})
  BY DEF TypeOK
<1>3. Max({StartTick, 2 * NDays}) \in Int
  BY ClockBound
<1>4. clock \in Nat /\ StartTick <= clock
  BY <1>1, <1>2, <1>3
<1>. QED
  BY <1>1, <1>4, DaysFinite DEF TypeOK

\* A call that touches neither the repository nor the queue knows what was known.
LEMMA SameKnown ==
    ASSUME repo' = repo, queue' = queue, NEW d
    PROVE  /\ Known(d)' <=> Known(d)
           /\ market' = market => (KnownNewest(d)' <=> KnownNewest(d))
BY DEF Known, KnownNewest, Has, Carries

\* Nor gathers more, if buffer and snapshot stay too.
LEMMA SameGathered ==
    ASSUME repo' = repo, queue' = queue, buffer' = buffer, snapshot' = snapshot, NEW d
    PROVE  /\ Gathered(d)' <=> Gathered(d)
           /\ market' = market => (GatheredNewest(d)' <=> GatheredNewest(d))
BY SameKnown DEF Gathered, GatheredNewest, Has, Carries

\* What is on the wire and in the sequences stays well-formed while time passes and
\* sequences are emptied or lose their head.
LEMMA FewerShape ==
    ASSUME Shape, TypeOK', clock' >= clock, market' = market,
           \/ buffer' \in {buffer, <<>>}
           \/ /\ buffer' \in Seq(Raws) /\ ItemsOK(buffer)' /\ Sorted(buffer)'
              /\ \A i \in DOMAIN buffer', j \in DOMAIN net' : net'[j] # Ack => buffer'[i].day <= net'[j].day,
           queue' \in {queue, <<>>} \/ (queue' \in Seq(Raws) /\ ItemsOK(queue)'),
           snapshot' \in {snapshot, <<>>} \/ (snapshot' \in Seq(Raws) /\ ItemsOK(snapshot)'),
           net' \in {net, <<>>, <<Ack>>} \/ (net # <<>> /\ net' = Tail(net)),
           RepoOK(repo)',
           \A d \in Days : repo'.offered[d] <= market[d] /\ (repo'.offered[d] # -1 => Opened(d, clock'))
    PROVE  Shape'
<1>1. clock \in Int /\ clock' \in Int /\ Days \subseteq Int
  <2>1. TypeOK
    BY DEF Shape
  <2>2. clock \in Int /\ Days \subseteq Int
    BY <2>1, Types
  <2>3. clock' \in Int
    <3>1. StartTick \in Nat /\ NDays \in Nat /\ Max({StartTick, 2 * NDays}) \in Int
      BY FeedConstants, ClockBound
    <3>. QED
      BY <3>1 DEF TypeOK
  <2>. QED
    BY <2>2, <2>3
<1>2. ASSUME NEW d \in Int, Opened(d, clock) PROVE Opened(d, clock')
  BY <1>1, <1>2 DEF Opened
<1>3. \A s \in {buffer, queue, snapshot} : \A i \in DOMAIN s : s[i].day \in Int
  <2>1. \A s \in {buffer, queue, snapshot} : \A i \in DOMAIN s : s[i] \in Raws
    BY DEF Shape, TypeOK
  <2>. QED
    BY <1>1, <2>1 DEF Raws
<1>4. \A i \in DOMAIN net : net[i] # Ack => net[i].day \in Int
  BY <1>1 DEF Shape, TypeOK
<1>5. DOMAIN <<>> = {} /\ <<>> \in Seq(Raws)
  OBVIOUS
<1>6. {buffer', queue', snapshot'} \subseteq Seq(Raws)
  BY <1>5 DEF Shape
<1>7. ItemsOK(buffer)' /\ ItemsOK(queue)' /\ ItemsOK(snapshot)'
  <2>1. ASSUME NEW s \in {buffer, queue, snapshot}, NEW i \in DOMAIN s
        PROVE  s[i].v <= market[s[i].day] /\ Opened(s[i].day, clock')
    BY <1>2, <1>3 DEF Shape, ItemsOK
  <2>. QED
    BY <1>5, <2>1 DEF ItemsOK
<1>8. Sorted(buffer)'
  BY <1>5 DEF Shape, Sorted
<1> DEFINE Wire == {Ack} \cup [day : Days, v : Nat]
<1>9. /\ net' \in Seq(Wire) /\ Sorted(net)'
      /\ \A i \in DOMAIN net' : net'[i] = Ack \/ \E j \in DOMAIN net : net'[i] = net[j]
  <2>0. net \in Seq(Wire) /\ Sorted(net)
    BY DEF Shape
  <2>1. CASE net' = net
    BY <2>0, <2>1 DEF Sorted
  <2>2. CASE net' = <<>>
    BY <1>5, <2>2 DEF Sorted
  <2>3. CASE net' = <<Ack>>
    <3>1. <<Ack>> \in Seq(Wire) /\ DOMAIN <<Ack>> = {1} /\ <<Ack>>[1] = Ack
      OBVIOUS
    <3>2. Ack.day <= Ack.day
      BY DEF Ack
    <3>. QED
      BY <2>3, <3>1, <3>2 DEF Sorted
  <2>4. CASE net # <<>> /\ net' = Tail(net)
    <3>1. Tail(net) \in Seq(Wire) /\ Len(net) \in Nat \ {0} /\ DOMAIN net = 1..Len(net)
      BY <2>0, <2>4
    <3>2. DOMAIN Tail(net) = 1..(Len(net) - 1) /\ \A i \in 1..(Len(net) - 1) : Tail(net)[i] = net[i + 1]
      BY <2>0, <2>4
    <3>3. \A i \in 1..(Len(net) - 1) : i + 1 \in DOMAIN net
      BY <3>1
    <3>4. \A i, j \in 1..(Len(net) - 1) : i <= j => i + 1 <= j + 1
      BY <3>1
    <3> HIDE DEF Wire
    <3>5. ASSUME NEW i \in 1..(Len(net) - 1), NEW j \in 1..(Len(net) - 1), i <= j
          PROVE  Tail(net)[i].day <= Tail(net)[j].day
      <4>1. net[i + 1].day <= net[j + 1].day
        BY <2>0, <3>3, <3>4, <3>5 DEF Sorted
      <4>. QED
        BY <3>2, <4>1
    <3>6. Sorted(net)'
      BY <2>4, <3>2, <3>5, Zenon DEF Sorted
    <3>7. ASSUME NEW i \in DOMAIN net' PROVE \E j \in DOMAIN net : net'[i] = net[j]
      <4>1. i \in 1..(Len(net) - 1) /\ net'[i] = net[i + 1] /\ i + 1 \in DOMAIN net
        BY <2>4, <3>2, <3>3
      <4>. QED
        BY <4>1
    <3>8. net' \in Seq(Wire)
      BY <2>4, <3>1
    <3>. QED
      BY <3>6, <3>7, <3>8
  <2>. QED
    BY <2>1, <2>2, <2>3, <2>4
<1>10. \A i \in DOMAIN net' : net'[i] # Ack => net'[i].v <= market'[net'[i].day] /\ Opened(net'[i].day, clock')
  <2>1. \A j \in DOMAIN net : net[j] # Ack => net[j].v <= market[net[j].day] /\ Opened(net[j].day, clock')
    BY <1>2, <1>4 DEF Shape
  <2>. QED
    BY <1>9, <2>1
<1>11. \A i \in DOMAIN buffer', j \in DOMAIN net' : net'[j] # Ack => buffer'[i].day <= net'[j].day
  <2>1. \A i \in DOMAIN buffer, j \in DOMAIN net : net[j] # Ack => buffer[i].day <= net[j].day
    BY DEF Shape
  <2>2. CASE buffer' = buffer
    BY <1>9, <2>1, <2>2
  <2>3. CASE buffer' = <<>>
    BY <1>5, <2>3
  <2>. QED
    BY <2>2, <2>3
<1>. QED
  BY <1>6, <1>7, <1>8, <1>9, <1>10, <1>11 DEF Shape

\* The same while nothing but time passes.
LEMMA SameShape ==
    ASSUME Shape, TypeOK', clock' >= clock, market' = market, repo' = repo,
           buffer' \in {buffer, <<>>}, queue' \in {queue, <<>>}, snapshot' \in {snapshot, <<>>},
           net' \in {net, <<>>, <<Ack>>} \/ (net # <<>> /\ net' = Tail(net))
    PROVE  Shape'
<1>1. RepoOK(repo)'
  <2>1. RepoOK(repo)
    BY DEF Shape
  <2>. QED
    BY <2>1 DEF RepoOK
<1>2. ASSUME NEW d \in Days
      PROVE  repo'.offered[d] <= market[d] /\ (repo'.offered[d] # -1 => Opened(d, clock'))
  <2>1. TypeOK
    BY DEF Shape
  <2>2. clock \in Int /\ Days \subseteq Int /\ StartTick \in Nat /\ Max({StartTick, 2 * NDays}) \in Int
    BY <2>1, Types, ClockBound, FeedConstants
  <2>3. clock' \in Int
    BY <2>2 DEF TypeOK
  <2>4. Opened(d, clock) => Opened(d, clock')
    BY <2>2, <2>3 DEF Opened
  <2>. QED
    BY <2>4 DEF Shape
<1>. QED
  BY <1>1, <1>2, FewerShape

\* Nothing is lost by a step that moves no update.
LEMMA SameUpdates ==
    ASSUME Updates, UNCHANGED <<market, net, buffer, queue, snapshot, repo, evalTime, pc, flags, outrun>>,
           link' => link, reader' => reader
    PROVE  Updates'
<1>1. \A d : /\ (Known(d)' <=> Known(d)) /\ (KnownNewest(d)' <=> KnownNewest(d))
             /\ (Gathered(d)' <=> Gathered(d)) /\ (GatheredNewest(d)' <=> GatheredNewest(d))
  BY SameKnown, SameGathered
<1>2. NewIsLast'
  BY <1>1 DEF Updates, NewIsLast
<1>3. Sound' <=> Sound
  BY DEF Sound
<1>4. EarlierFinal => EarlierFinal'
  BY <1>1 DEF EarlierFinal
<1>5. Followed => Followed'
  BY <1>1 DEF Followed, Has, Carries
<1>6. LateIsKnown => LateIsKnown'
  BY <1>1 DEF LateIsKnown, Has
<1>7. AheadFollowed => AheadFollowed'
  BY <1>1 DEF AheadFollowed, Has, Carries
<1>8. GatheredFinal => GatheredFinal'
  BY <1>1 DEF GatheredFinal, Has, Carries
<1>9. AheadFinal => AheadFinal'
  BY DEF AheadFinal
<1>. QED
  BY <1>2, <1>3, <1>4, <1>5, <1>6, <1>7, <1>8, <1>9 DEF Updates

\* The weeks stay while the repository does.
LEMMA SameWeekly ==
    ASSUME Weekly, repo' = repo, lastError => lastError'
    PROVE  Weekly'
BY DEF Weekly, WeeksAgree

\* So does what the backfill has reached.
LEMMA SameReached ==
    ASSUME Reached, UNCHANGED <<flags, repo, lastBackfill, pc, evalTime, snapshot>>
    PROVE  Reached'
BY DEF Reached, Stored, Has

\* And what the repository says of time.
LEMMA SameAsOf ==
    ASSUME RepoAsOf(repo, evalTime), repo' = repo, evalTime' = evalTime
    PROVE  RepoAsOf(repo, evalTime)'
BY DEF RepoAsOf, Stored

-----------------------------------------------------------------------------
(* One lemma per action.                                                   *)

\* The clock moves on.
LEMMA TickKeeps ==
    ASSUME FeedInv, Tick
    PROVE  FeedInv'
<1> USE DEF FeedInv
<1>1. TypeOK /\ clock \in Nat /\ clock' = clock + 1 /\ clock < 2 * NDays
  BY Types DEF Shape, Tick
<1>2. UNCHANGED <<market, net, buffer, queue, snapshot, repo, evalTime, pc, flags, outrun, link, reader, acked,
                  buffering, bgError, wsStatus, lastError, lastBackfill>>
  BY DEF Tick, feedVars
<1>3. TypeOK'
  <2>1. clock' \in StartTick..Max({StartTick, 2 * NDays}) /\ evalTime' \in 0..clock' /\ lastBackfill' \in 0..clock'
    BY <1>1, <1>2, ClockBound, Types, FeedConstants
  <2>. QED
    BY <1>1, <1>2, <2>1 DEF TypeOK
<1>4. Shape'
  BY <1>1, <1>2, <1>3, SameShape
<1>5. Places'
  <2>1. \A d : Known(d)' <=> Known(d)
    BY <1>2, SameKnown
  <2>2. RepoAsOf(repo, evalTime)'
    BY <1>2, SameAsOf DEF Places
  <2>. QED
    BY <1>2, <2>1, <2>2 DEF Places
<1>6. Weekly' /\ Reached' /\ Updates'
  BY <1>2, SameWeekly, SameReached, SameUpdates
<1>. QED
  BY <1>4, <1>5, <1>6

\* The reader task ends on a dead connection.
LEMMA ReaderFailsKeeps ==
    ASSUME FeedInv, ReaderFails
    PROVE  FeedInv'
<1> USE DEF FeedInv
<1>1. /\ TypeOK /\ clock \in Nat
      /\ wsStatus = "CONNECTED" /\ ~link /\ wsStatus' = "RECONNECTING" /\ bgError' = TRUE /\ reader' = FALSE
  BY Types DEF Shape, ReaderFails
<1>2. UNCHANGED <<market, net, buffer, queue, snapshot, repo, evalTime, pc, flags, outrun, link, acked,
                  buffering, lastError, lastBackfill, clock>>
  BY DEF ReaderFails
<1>3. TypeOK'
  BY <1>1, <1>2 DEF TypeOK
<1>4. Shape'
  BY <1>1, <1>2, <1>3, SameShape
<1>5. Places'
  <2>1. \A d : Known(d)' <=> Known(d)
    BY <1>2, SameKnown
  <2>2. RepoAsOf(repo, evalTime)'
    BY <1>2, SameAsOf DEF Places
  <2>. QED
    BY <1>1, <1>2, <2>1, <2>2 DEF Places
<1>6. Weekly' /\ Reached' /\ Updates'
  BY <1>1, <1>2, SameWeekly, SameReached, SameUpdates
<1>. QED
  BY <1>4, <1>5, <1>6

\* The heartbeat gives up while the reader goes on.
LEMMA PongTimeoutKeeps ==
    ASSUME FeedInv, PongTimeout
    PROVE  FeedInv'
<1> USE DEF FeedInv
<1>1. /\ TypeOK /\ clock \in Nat
      /\ wsStatus = "CONNECTED" /\ wsStatus' = "RECONNECTING" /\ bgError' = TRUE
  BY Types DEF Shape, PongTimeout
<1>2. UNCHANGED <<market, net, buffer, queue, snapshot, repo, evalTime, pc, flags, outrun, link, acked, reader,
                  buffering, lastError, lastBackfill, clock>>
  BY DEF PongTimeout
<1>3. TypeOK'
  BY <1>1, <1>2 DEF TypeOK
<1>4. Shape'
  BY <1>1, <1>2, <1>3, SameShape
<1>5. Places'
  <2>1. \A d : Known(d)' <=> Known(d)
    BY <1>2, SameKnown
  <2>2. RepoAsOf(repo, evalTime)'
    BY <1>2, SameAsOf DEF Places
  <2>. QED
    BY <1>1, <1>2, <2>1, <2>2 DEF Places
<1>6. Weekly' /\ Reached' /\ Updates'
  BY <1>2, SameWeekly, SameReached, SameUpdates
<1>. QED
  BY <1>4, <1>5, <1>6

\* The connection dies with what was in flight.
LEMMA CutKeeps ==
    ASSUME FeedInv, Cut
    PROVE  FeedInv'
<1> USE DEF FeedInv
<1>1. TypeOK /\ clock \in Nat /\ link' = FALSE /\ net' = <<>>
  BY Types DEF Shape, Cut
<1>2. UNCHANGED <<market, buffer, queue, snapshot, repo, evalTime, pc, flags, outrun, acked, reader,
                  buffering, bgError, wsStatus, lastError, lastBackfill, clock>>
  BY DEF Cut, feedVars
<1>3. DOMAIN <<>> = {}
  OBVIOUS
<1>4. TypeOK'
  BY <1>1, <1>2, <1>3 DEF TypeOK
<1>5. Shape'
  BY <1>1, <1>2, <1>4, SameShape
<1>6. \A d : /\ (Known(d)' <=> Known(d)) /\ (KnownNewest(d)' <=> KnownNewest(d))
             /\ (Gathered(d)' <=> Gathered(d)) /\ (GatheredNewest(d)' <=> GatheredNewest(d))
  BY <1>2, SameKnown, SameGathered
<1>7. Places'
  <2>1. RepoAsOf(repo, evalTime)'
    BY <1>2, SameAsOf DEF Places
  <2>. QED
    BY <1>1, <1>2, <1>3, <1>6, <2>1 DEF Places
<1>8. Weekly' /\ Reached'
  BY <1>2, SameWeekly, SameReached
<1>9. Updates'
  <2>1. Sound' <=> Sound
    BY <1>2 DEF Sound
  <2>2. NewIsLast' /\ Followed' /\ AheadFollowed'
    BY <1>1, <1>3 DEF NewIsLast, Followed, AheadFollowed
  <2>6. AheadFinal => AheadFinal'
    BY <1>2 DEF AheadFinal
  <2>3. EarlierFinal => EarlierFinal'
    BY <1>6 DEF EarlierFinal
  <2>4. LateIsKnown => LateIsKnown'
    BY <1>1, <1>2, <1>3, <1>6 DEF LateIsKnown, Has
  <2>5. GatheredFinal => GatheredFinal'
    BY <1>1, <1>2, <1>6 DEF GatheredFinal
  <2>. QED
    BY <2>1, <2>2, <2>3, <2>4, <2>5, <2>6 DEF Updates
<1>. QED
  BY <1>5, <1>7, <1>8, <1>9

\* The empty repository.
LEMMA EmptyRepoFacts ==
    /\ RepoOK(EmptyRepo) /\ WeeksAgree(EmptyRepo) /\ Stored(EmptyRepo) = {}
    /\ \A t : RepoAsOf(EmptyRepo, t)
    /\ \A d \in Days : EmptyRepo.offered[d] = -1
<1>1. /\ EmptyRepo.daily = [d \in Days |-> Missing] /\ EmptyRepo.weekly = [w \in Weeks |-> <<>>]
      /\ EmptyRepo.conflicts = FALSE /\ EmptyRepo.offered = [d \in Days |-> -1]
      /\ EmptyRepo = [daily |-> EmptyRepo.daily, weekly |-> EmptyRepo.weekly,
                      conflicts |-> EmptyRepo.conflicts, offered |-> EmptyRepo.offered]
  BY DEF EmptyRepo
<1>2. Missing \in Candles /\ ~Missing.closed
  BY DEF Missing, Candles
<1> HIDE DEF EmptyRepo, Missing
<1>3. RepoOK(EmptyRepo)
  BY <1>1, <1>2 DEF RepoOK
<1>4. WeeksAgree(EmptyRepo) /\ \A t : RepoAsOf(EmptyRepo, t)
  BY <1>1, <1>2 DEF WeeksAgree, RepoAsOf
<1>5. Stored(EmptyRepo) = {}
  BY <1>1 DEF Stored
<1>. QED
  BY <1>1, <1>3, <1>4, <1>5

\* start() begins.
LEMMA StartKeeps ==
    ASSUME FeedInv, Start
    PROVE  FeedInv'
<1> USE DEF FeedInv
<1>1. /\ TypeOK /\ clock \in Nat /\ pc = "down" /\ pc' = "start_dial" /\ evalTime' = clock
      /\ buffering' = TRUE /\ buffer' = <<>>
  BY Types DEF Shape, Start, BeginBuffer
<1>2. UNCHANGED <<market, queue, snapshot, repo, flags, outrun, acked, reader, link, net,
                  bgError, wsStatus, lastError, lastBackfill, clock>>
  BY DEF Start
<1>3. /\ repo = EmptyRepo /\ queue = <<>> /\ ~link /\ net = <<>> /\ snapshot = <<>> /\ ~flags.initial /\ ~outrun
      /\ DOMAIN <<>> = {} /\ Len(<<>>) = 0
  BY <1>1 DEF Places, Ingesting
<1>4. TypeOK'
  BY <1>1, <1>2, <1>3, FeedConstants DEF TypeOK, PCs
<1>5. Shape'
  BY <1>1, <1>2, <1>4, SameShape
<1>6. \A d \in Days : ~Known(d)'
  BY <1>2, <1>3, EmptyRepoFacts DEF Known, Has
<1>7. Places'
  <2>1. RepoAsOf(repo, evalTime)'
    BY <1>2, <1>3, EmptyRepoFacts
  <2>. QED
    BY <1>1, <1>2, <1>3, <1>6, <2>1 DEF Places, Calling, Dialling, Greeting, Fetching, Ingesting, Starting
<1>8. Weekly'
  BY <1>2, SameWeekly
<1>9. Reached'
  BY <1>1, <1>2, <1>3 DEF Reached, Ingesting
<1>10. Updates'
  BY <1>1, <1>6 DEF Updates, NewIsLast, EarlierFinal, Followed, LateIsKnown, AheadFollowed, AheadFinal, GatheredFinal,
                    Greeting, Fetching, Ingesting
<1>. QED
  BY <1>5, <1>7, <1>8, <1>9, <1>10

\* What is known has opened.
LEMMA KnownOpened ==
    ASSUME Shape
    PROVE  \A d \in Days : Known(d) => Opened(d, clock)
BY DEF Shape, Known, Has, ItemsOK

\* process_live finds the feed reconnecting.
LEMMA PollReconnectsKeeps ==
    ASSUME FeedInv, PollReconnects
    PROVE  FeedInv'
<1> USE DEF FeedInv
<1>1. /\ TypeOK /\ clock \in Nat /\ evalTime \in Nat /\ evalTime <= clock
      /\ pc = "idle" /\ pc' = "dial" /\ evalTime' = clock /\ buffering' = TRUE /\ buffer' = <<>>
  BY Types DEF Shape, PollReconnects, BeginBuffer
<1>2. UNCHANGED <<market, queue, snapshot, repo, flags, outrun, acked, reader, link, net,
                  bgError, wsStatus, lastError, lastBackfill, clock>>
  BY DEF PollReconnects
<1>3. snapshot = <<>> /\ buffer = <<>> /\ DOMAIN <<>> = {} /\ Len(<<>>) = 0
  BY <1>1 DEF Places, Calling, Dialling, Greeting, Fetching, Ingesting
<1>4. TypeOK'
  BY <1>1, <1>2, <1>3, FeedConstants DEF TypeOK, PCs
<1>5. Shape'
  BY <1>1, <1>2, <1>4, SameShape
<1>6. \A d \in Days : (Known(d)' <=> Known(d)) /\ (KnownNewest(d)' <=> KnownNewest(d))
  BY <1>2, SameKnown
<1>7. Places'
  <2>1. RepoAsOf(repo, evalTime)'
    <3>1. RepoAsOf(repo, clock)
      BY <1>1, AsOfLater DEF Places
    <3>. QED
      BY <1>1, <1>2, <3>1 DEF RepoAsOf, Stored
  <2>2. \A d \in Days : Known(d)' => Opened(d, evalTime')
    BY <1>1, <1>6, KnownOpened
  <2>. QED
    BY <1>1, <1>2, <1>3, <2>1, <2>2 DEF Places, Calling, Dialling, Greeting, Fetching, Ingesting, Starting
<1>8. Weekly'
  BY <1>2, SameWeekly
<1>9. Reached'
  BY <1>1, <1>2, <1>3 DEF Reached, Ingesting, Stored
<1>10. Updates'
  <2>1. Sound' => Sound
    BY <1>1, <1>2 DEF Sound, Starting
  <2>2. NewIsLast' /\ Followed' /\ AheadFollowed' /\ AheadFinal' /\ GatheredFinal'
    BY <1>1 DEF NewIsLast, Followed, AheadFollowed, AheadFinal, GatheredFinal, Greeting, Fetching, Ingesting
  <2>3. EarlierFinal => EarlierFinal'
    BY <1>6 DEF EarlierFinal
  <2>4. LateIsKnown => LateIsKnown'
    BY <1>1, <1>2, <1>3, <1>6 DEF LateIsKnown, Has, Ingesting
  <2>. QED
    BY <2>1, <2>2, <2>3, <2>4 DEF Updates
<1>. QED
  BY <1>5, <1>7, <1>8, <1>9, <1>10

\* connect_and_subscribe dials.
LEMMA DialKeeps ==
    ASSUME FeedInv, NEW from \in Dialling, NEW to \in Greeting, (from = "start_dial") <=> (to = "start_acks"),
           Dial(from, to)
    PROVE  FeedInv'
<1> USE DEF FeedInv
<1>1. /\ TypeOK /\ clock \in Nat /\ evalTime \in Nat
      /\ pc = from /\ pc' = to /\ link' = TRUE /\ net' = <<Ack>>
      /\ wsStatus' = "CONNECTING" /\ acked' = FALSE /\ reader' = TRUE
      /\ flags' = [flags EXCEPT !.meta = @ \/ from = "start_dial"]
      /\ outrun' = (outrun \/ \E i \in DOMAIN buffer : ~Opened(buffer[i].day, evalTime))
  BY Types DEF Shape, Dial
<1>2. UNCHANGED <<market, queue, snapshot, repo, buffer, buffering, evalTime, bgError, lastError, lastBackfill,
                  clock>>
  BY DEF Dial
<1>3. /\ flags' \in [meta : BOOLEAN, backfill : BOOLEAN, initial : BOOLEAN, bundles : BOOLEAN]
      /\ flags'.initial = flags.initial
  <2>1. flags \in [meta : BOOLEAN, backfill : BOOLEAN, initial : BOOLEAN, bundles : BOOLEAN]
    BY DEF Shape, TypeOK
  <2>2. (flags.meta \/ from = "start_dial") \in BOOLEAN
    OBVIOUS
  <2>. QED
    BY <1>1, <2>1, <2>2
<1>4. DOMAIN net' = {1} /\ net'[1] = Ack /\ Ack.day = 0
  BY <1>1 DEF Ack
<1>5. outrun' \in BOOLEAN
  BY <1>1, Types
<1>6. TypeOK'
  BY <1>1, <1>2, <1>3, <1>4, <1>5 DEF TypeOK, PCs, Greeting
<1>7. Shape'
  BY <1>1, <1>2, <1>6, SameShape
<1>8. \A d \in Days : (Known(d)' <=> Known(d)) /\ (KnownNewest(d)' <=> KnownNewest(d))
  BY <1>2, SameKnown
<1>9. \A d \in Days : ~Has(net', d)
  BY <1>4 DEF Has, Days
<1>10. pc \in Dialling /\ pc \in Calling /\ pc' \in Greeting /\ pc' \in Calling /\ snapshot = <<>>
  BY <1>1 DEF Places, Calling, Dialling, Greeting, Ingesting
<1>11. Places'
  <2>1. RepoAsOf(repo, evalTime)'
    BY <1>2, SameAsOf DEF Places
  <2>2. pc' \in {"down"} \cup Starting => repo' = EmptyRepo /\ queue' = <<>> /\ ~flags'.initial /\ ~outrun'
    <3>1. ASSUME pc' \in {"down"} \cup Starting PROVE from = "start_dial"
      BY <1>1, <3>1 DEF Starting, Greeting
    <3>2. DOMAIN <<>> = {}
      OBVIOUS
    <3>. QED
      BY <1>1, <1>2, <1>3, <3>1, <3>2 DEF Places, Starting
  <2>3. pc' \notin {"down", "start_dial"} /\ pc' \notin {"idle"} \cup Fetching \cup Ingesting
    BY <1>10 DEF Greeting, Fetching, Ingesting
  <2>. QED
    BY <1>1, <1>2, <1>4, <1>8, <1>10, <2>1, <2>2, <2>3 DEF Places
<1>12. Weekly'
  BY <1>2, SameWeekly
<1>13. Reached'
  BY <1>1, <1>2, <1>3, <1>10 DEF Reached, Ingesting, Greeting, Stored
<1>14. Updates'
  <2>1. Sound' => Sound /\ \A i \in DOMAIN buffer : Opened(buffer[i].day, evalTime)
    BY <1>1, <1>3 DEF Sound, Starting, Dialling, Greeting
  <2>2. NewIsLast'
    BY <1>4 DEF NewIsLast
  <2>3. Followed' /\ GatheredFinal'
    BY <1>10 DEF Followed, GatheredFinal, Greeting, Ingesting
  <2>4. EarlierFinal => EarlierFinal'
    BY <1>8 DEF EarlierFinal
  <2>5. LateIsKnown => LateIsKnown'
    BY <1>2, <1>8, <1>9, <1>10 DEF LateIsKnown, Has, Dialling, Ingesting
  <2>6. Sound' => AheadFollowed' /\ AheadFinal'
    BY <1>2, <1>9, <2>1 DEF AheadFollowed, AheadFinal, Has
  <2>. QED
    BY <2>1, <2>2, <2>3, <2>4, <2>5, <2>6 DEF Updates
<1>. QED
  BY <1>7, <1>11, <1>12, <1>13, <1>14

\* connect_and_subscribe is acknowledged.
LEMMA AcknowledgedKeeps ==
    ASSUME FeedInv, NEW from \in Greeting, NEW to \in Fetching, (from = "start_acks") <=> (to = "start_fetch"),
           Acknowledged(from, to)
    PROVE  FeedInv'
<1> USE DEF FeedInv
<1>1. /\ TypeOK /\ clock \in Nat /\ evalTime \in Nat
      /\ pc = from /\ pc' = to /\ net # <<>> /\ Head(net) = Ack /\ net' = Tail(net)
      /\ wsStatus' = "CONNECTED" /\ acked' = TRUE /\ bgError' = FALSE
  BY Types DEF Shape, Acknowledged
<1>2. UNCHANGED <<market, queue, snapshot, repo, buffer, buffering, evalTime, lastError, lastBackfill,
                  clock, link, reader, flags, outrun>>
  BY DEF Acknowledged
<1> DEFINE Wire == {Ack} \cup [day : Days, v : Nat]
<1>3. net \in Seq(Wire)
  BY DEF Shape
<1>4. /\ net' \in Seq(Wire) /\ net[1] = Ack
      /\ \A d : Has(net, d) <=> Has(net', d) \/ Ack.day = d
      /\ \A d, v : Carries(net, d, v) <=> Carries(net', d, v) \/ (Ack.day = d /\ Ack.v = v)
  BY <1>1, <1>3, TailItems
<1>5. \A d \in Days : d # Ack.day
  BY DEF Days, Ack
<1>6. \A d \in Days : (Has(net', d) <=> Has(net, d)) /\ \A v : Carries(net', d, v) <=> Carries(net, d, v)
  BY <1>4, <1>5
<1>7. \A i \in DOMAIN net' : i + 1 \in DOMAIN net /\ i + 1 # 1 /\ net'[i] = net[i + 1]
  BY <1>1, <1>3
<1>8. TypeOK'
  <2>1. \A i \in DOMAIN net' : net'[i] = Ack \/ net'[i] \in [day : Days, v : Nat]
    BY <1>7 DEF Shape, TypeOK
  <2>. QED
    BY <1>1, <1>2, <2>1 DEF TypeOK, PCs, Fetching
<1>9. Shape'
  BY <1>1, <1>2, <1>8, SameShape
<1>10. \A d \in Days : (Known(d)' <=> Known(d)) /\ (KnownNewest(d)' <=> KnownNewest(d))
  BY <1>2, SameKnown
<1>11. pc \in Greeting /\ pc \in Calling /\ pc' \in Fetching /\ pc' \in Calling
  BY <1>1 DEF Calling
<1>12. Places'
  <2>1. RepoAsOf(repo, evalTime)'
    BY <1>2, SameAsOf DEF Places
  <2>2. pc' \in {"down"} \cup Starting => pc \in Starting
    BY <1>1, <1>11 DEF Starting, Fetching, Greeting
  <2>3. pc' \notin {"down", "start_dial", "idle"} /\ pc' \notin Greeting /\ pc' \notin Ingesting /\ pc \notin Ingesting
    BY <1>11 DEF Greeting, Fetching, Ingesting
  <2>4. \A i \in DOMAIN net' : net'[i] # Ack
    BY <1>7 DEF Places
  <2>5. reader
    BY <1>11 DEF Places
  <2>6. net = <<>> => net' = <<>>
    BY <1>1
  <2>7. ~link => net = <<>>
    BY DEF Places
  <2>. QED
    BY <1>1, <1>2, <1>10, <1>11, <2>1, <2>2, <2>3, <2>4, <2>5, <2>6, <2>7 DEF Places
<1>13. Weekly'
  BY <1>2, SameWeekly
<1>14. Reached'
  BY <1>1, <1>2, <1>11 DEF Reached, Ingesting, Fetching, Stored
<1>15. Updates'
  <2>1. Sound' => Sound
    BY <1>1, <1>2 DEF Sound, Starting, Fetching, Greeting
  <2>2. NewIsLast'
    <3>1. NewIsLast
      BY DEF Updates
    <3>. QED
      BY <1>7, <1>10, <1>11, <3>1 DEF NewIsLast
  <2>3. Followed' /\ GatheredFinal'
    BY <1>11 DEF Followed, GatheredFinal, Fetching, Ingesting
  <2>4. EarlierFinal => EarlierFinal'
    BY <1>10 DEF EarlierFinal
  <2>5. LateIsKnown => LateIsKnown'
    <3>1. pc \notin Ingesting /\ \A d : Has(buffer', d) <=> Has(buffer, d)
      BY <1>2, <1>11 DEF Greeting, Ingesting
    <3>. QED
      BY <1>6, <1>10, <3>1 DEF LateIsKnown
  <2>6. AheadFollowed => AheadFollowed'
    BY <1>2, <1>6, <1>11 DEF AheadFollowed
  <2>7. AheadFinal => AheadFinal'
    BY <1>2, <1>11 DEF AheadFinal
  <2>. QED
    BY <2>1, <2>2, <2>3, <2>4, <2>5, <2>6, <2>7 DEF Updates
<1>. QED
  BY <1>9, <1>12, <1>13, <1>14, <1>15

\* A reconnect fails in its handshake.
LEMMA HandshakeFailsKeeps ==
    ASSUME FeedInv, HandshakeFails
    PROVE  FeedInv'
<1> USE DEF FeedInv
<1>1. /\ TypeOK /\ clock \in Nat
      /\ pc \in {"dial", "acks"} /\ pc' = "idle" /\ link' = FALSE /\ net' = <<>>
      /\ buffering' = FALSE /\ buffer' = <<>> /\ wsStatus' = "RECONNECTING" /\ bgError' = TRUE
      /\ reader' = FALSE /\ lastError' = TRUE /\ acked' = (acked /\ pc = "dial")
  BY Types DEF Shape, HandshakeFails, DiscardBuffer
<1>2. UNCHANGED <<market, queue, snapshot, repo, flags, outrun, evalTime, lastBackfill, clock>>
  BY DEF HandshakeFails
<1>3. DOMAIN <<>> = {} /\ Len(<<>>) = 0
  OBVIOUS
<1>4. TypeOK'
  <2>1. acked' \in BOOLEAN
    BY <1>1, Types
  <2>2. BufferSize \in Nat
    BY FeedConstants
  <2>3. {link', acked', reader', bgError', buffering', lastError'} \subseteq BOOLEAN
    BY <1>1, <2>1
  <2>4. \A s \in {buffer', queue', snapshot'} : \A i \in DOMAIN s : s[i] \in Raws
    BY <1>1, <1>2, <1>3 DEF TypeOK
  <2>5. Len(buffer') <= BufferSize /\ \A i \in DOMAIN net' : net'[i] = Ack \/ net'[i] \in [day : Days, v : Nat]
    BY <1>1, <1>3, <2>2
  <2>. QED
    BY <1>1, <1>2, <2>3, <2>4, <2>5 DEF TypeOK, PCs
<1>5. Shape'
  BY <1>1, <1>2, <1>4, SameShape
<1>6. \A d \in Days : (Known(d)' <=> Known(d)) /\ (KnownNewest(d)' <=> KnownNewest(d))
  BY <1>2, SameKnown
<1>7. Places'
  <2>1. RepoAsOf(repo, evalTime)'
    BY <1>2, SameAsOf DEF Places
  <2>. QED
    BY <1>1, <1>2, <1>3, <2>1 DEF Places, Calling, Dialling, Greeting, Fetching, Ingesting, Starting
<1>8. Weekly'
  BY <1>1 DEF Weekly
<1>9. Reached'
  BY <1>1, <1>2 DEF Reached, Ingesting, Stored
<1>10. Updates'
  <2>1. Sound' => Sound
    BY <1>1, <1>2 DEF Sound, Starting
  <2>2. NewIsLast' /\ Followed' /\ AheadFollowed' /\ AheadFinal' /\ GatheredFinal'
    BY <1>1 DEF NewIsLast, Followed, AheadFollowed, AheadFinal, GatheredFinal, Greeting, Fetching, Ingesting
  <2>3. EarlierFinal => EarlierFinal'
    BY <1>6 DEF EarlierFinal
  <2>4. LateIsKnown'
    BY <1>1, <1>3 DEF LateIsKnown, Has
  <2>. QED
    BY <2>1, <2>2, <2>3, <2>4 DEF Updates
<1>. QED
  BY <1>5, <1>7, <1>8, <1>9, <1>10

\* A new process knows nothing.
LEMMA RestartKeeps ==
    ASSUME FeedInv, Restart
    PROVE  FeedInv'
<1> USE DEF FeedInv
<1>1. /\ TypeOK /\ clock \in Nat /\ clock' = clock /\ market' = market
      /\ link' = FALSE /\ net' = <<>> /\ buffer' = <<>> /\ queue' = <<>> /\ snapshot' = <<>>
      /\ wsStatus' = "DISCONNECTED" /\ acked' = FALSE /\ reader' = FALSE /\ bgError' = FALSE
      /\ buffering' = FALSE /\ lastError' = FALSE /\ outrun' = FALSE /\ flags' = NoFlags
      /\ repo' = EmptyRepo /\ pc' = "down" /\ evalTime' = 0 /\ lastBackfill' = 0
  BY Types DEF Shape, Restart, Fresh
<1>2. DOMAIN <<>> = {} /\ Len(<<>>) = 0
  OBVIOUS
<1>3. /\ NoFlags \in [meta : BOOLEAN, backfill : BOOLEAN, initial : BOOLEAN, bundles : BOOLEAN]
      /\ NoFlags.initial = FALSE
  BY DEF NoFlags
<1>4. /\ RepoOK(repo)' /\ RepoAsOf(repo, evalTime)' /\ WeeksAgree(repo)' /\ Stored(repo') = {}
      /\ \A d \in Days : repo'.offered[d] = -1
  BY <1>1, EmptyRepoFacts
<1>5. TypeOK'
  <2>1. repo'.daily \in [Days -> Candles] /\ repo'.conflicts \in BOOLEAN
    BY <1>4 DEF RepoOK
  <2>2. BufferSize \in Nat
    BY FeedConstants
  <2>3. {link', acked', reader', bgError', buffering', lastError'} \subseteq BOOLEAN
    BY <1>1
  <2>4. \A s \in {buffer', queue', snapshot'} : \A i \in DOMAIN s : s[i] \in Raws
    BY <1>1, <1>2
  <2>5. Len(buffer') <= BufferSize /\ \A i \in DOMAIN net' : net'[i] = Ack \/ net'[i] \in [day : Days, v : Nat]
    BY <1>1, <1>2, <2>2
  <2>6. evalTime' \in 0..clock' /\ lastBackfill' \in 0..clock'
    BY <1>1
  <2>. QED
    BY <1>1, <1>3, <2>1, <2>3, <2>4, <2>5, <2>6 DEF TypeOK, PCs
<1>6. Shape'
  <2>1. \A d \in Days : repo'.offered[d] <= market[d]
    BY <1>1, <1>4, Types
  <2>. QED
    BY <1>1, <1>4, <1>5, <2>1, FewerShape
<1>7. Places'
  BY <1>1, <1>2, <1>3, <1>4 DEF Places, Calling, Dialling, Greeting, Fetching, Ingesting, Starting
<1>8. Weekly'
  BY <1>4 DEF Weekly
<1>9. Reached'
  BY <1>1, <1>2, <1>3 DEF Reached, Ingesting
<1>10. Updates'
  <2>1. ~Sound'
    BY <1>1, <1>3 DEF Sound, Starting
  <2>. QED
    BY <1>1, <1>2, <2>1 DEF Updates, NewIsLast
<1>. QED
  BY <1>6, <1>7, <1>8, <1>9, <1>10

\* So does the first one.
LEMMA InitHolds ==
    ASSUME Init
    PROVE  FeedInv
<1>1. /\ clock = StartTick /\ market = [d \in Days |-> 0]
      /\ link = FALSE /\ net = <<>> /\ buffer = <<>> /\ queue = <<>> /\ snapshot = <<>>
      /\ wsStatus = "DISCONNECTED" /\ acked = FALSE /\ reader = FALSE /\ bgError = FALSE
      /\ buffering = FALSE /\ lastError = FALSE /\ outrun = FALSE /\ flags = NoFlags
      /\ repo = EmptyRepo /\ pc = "down" /\ evalTime = 0 /\ lastBackfill = 0
  BY DEF Init
<1>2. DOMAIN <<>> = {} /\ Len(<<>>) = 0
  OBVIOUS
<1>3. /\ NoFlags \in [meta : BOOLEAN, backfill : BOOLEAN, initial : BOOLEAN, bundles : BOOLEAN]
      /\ NoFlags.initial = FALSE
  BY DEF NoFlags
<1>4. /\ RepoOK(repo) /\ RepoAsOf(repo, evalTime) /\ WeeksAgree(repo) /\ Stored(repo) = {}
      /\ \A d \in Days : repo.offered[d] = -1
  BY <1>1, EmptyRepoFacts
<1>5. TypeOK
  <2>1. repo.daily \in [Days -> Candles] /\ repo.conflicts \in BOOLEAN
    BY <1>4 DEF RepoOK
  <2>2. clock \in StartTick..Max({StartTick, 2 * NDays}) /\ clock \in Nat
    BY <1>1, ClockBound, FeedConstants
  <2>3. BufferSize \in Nat
    BY FeedConstants
  <2>4. {link, acked, reader, bgError, buffering, lastError} \subseteq BOOLEAN
    BY <1>1
  <2>5. \A s \in {buffer, queue, snapshot} : \A i \in DOMAIN s : s[i] \in Raws
    BY <1>1, <1>2
  <2>6. Len(buffer) <= BufferSize /\ \A i \in DOMAIN net : net[i] = Ack \/ net[i] \in [day : Days, v : Nat]
    BY <1>1, <1>2, <2>3
  <2>7. evalTime \in 0..clock /\ lastBackfill \in 0..clock /\ market \in [Days -> Nat]
    BY <1>1, <2>2
  <2>. QED
    BY <1>1, <1>3, <2>1, <2>2, <2>4, <2>5, <2>6, <2>7 DEF TypeOK, PCs
<1>6. Shape
  <2>1. \A d \in Days : repo.offered[d] <= market[d]
    BY <1>1, <1>4
  <2>2. <<>> \in Seq(Raws) /\ <<>> \in Seq({Ack} \cup [day : Days, v : Nat])
    OBVIOUS
  <2>. QED
    BY <1>1, <1>2, <1>4, <1>5, <2>1, <2>2 DEF Shape, ItemsOK, Sorted
<1>7. Places
  BY <1>1, <1>2, <1>3, <1>4 DEF Places, Calling, Dialling, Greeting, Fetching, Ingesting, Starting
<1>8. Weekly
  BY <1>4 DEF Weekly
<1>9. Reached
  BY <1>1, <1>2, <1>3 DEF Reached, Ingesting
<1>10. Updates
  <2>1. ~Sound
    BY <1>1, <1>3 DEF Sound, Starting
  <2>. QED
    BY <1>1, <1>2, <2>1 DEF Updates, NewIsLast
<1>. QED
  BY <1>6, <1>7, <1>8, <1>9, <1>10 DEF FeedInv

\* All that a call has in its hands.
Received == Items(snapshot) \cup Items(buffer) \cup Items(queue)

InHand(U) == U \subseteq Received

\* A repository that has absorbed the updates U.
Knows(q, U) ==
    /\ RepoOK(q) /\ Stored(repo) \subseteq Stored(q)
    /\ \A d \in Days :
          /\ q.offered[d] <= market[d] /\ (q.offered[d] # -1 => Opened(d, clock))
          /\ d \in Stored(q) <=> q.offered[d] # -1
          /\ q.offered[d] # -1 <=> repo.offered[d] # -1 \/ \E u \in U : u.day = d
          /\ q.offered[d] = market[d] <=> repo.offered[d] = market[d] \/ \E u \in U : u.day = d /\ u.v = market[d]

\* The repository after an absorption of what had been received.
LEMMA AbsorbedShape ==
    ASSUME Shape, NEW U, InHand(U), NEW q, Absorbed(repo, q, U)
    PROVE  Knows(q, U)
<1>1. TypeOK /\ market \in [Days -> Nat] /\ RepoOK(repo)
  BY Types DEF Shape
<1>2. \A u \in U : u.day \in Days /\ u.v \in Nat /\ u.v <= market[u.day] /\ Opened(u.day, clock)
  <2>1. \A u \in Received : u.day \in Days /\ u.v \in Nat
    BY RawItems DEF Shape, Received
  <2>2. \A u \in Received : u.v <= market[u.day] /\ Opened(u.day, clock)
    BY DEF Shape, ItemsOK, Items, Received
  <2>. QED
    BY <2>1, <2>2 DEF InHand
<1>3. RepoOK(q) /\ Stored(repo) \subseteq Stored(q)
  BY <1>1, AbsorbedStored DEF Absorbed
<1>4. \A d \in Days : repo.offered[d] <= market[d] /\ (repo.offered[d] # -1 => Opened(d, clock))
  BY DEF Shape
<1>5. \A d \in Days :
         /\ q.offered[d] \in Nat \cup {-1} /\ q.offered[d] <= market[d]
         /\ q.offered[d] # -1 <=> repo.offered[d] # -1 \/ \E u \in U : u.day = d
         /\ q.offered[d] = market[d] <=> repo.offered[d] = market[d] \/ \E u \in U : u.day = d /\ u.v = market[d]
  BY <1>1, <1>2, <1>4, AbsorbedKnows
<1>6. \A d \in Days : q.offered[d] # -1 => Opened(d, clock)
  BY <1>2, <1>4, <1>5
<1>7. \A d \in Days : d \in Stored(q) <=> q.offered[d] # -1
  BY <1>3 DEF RepoOK, Stored
<1>. QED
  BY <1>3, <1>5, <1>6, <1>7 DEF Knows

\* A stored day is known.
LEMMA StoredKnown ==
    ASSUME Shape
    PROVE  \A d \in Stored(repo) : d \in Days /\ Known(d)
BY DEF Shape, RepoOK, Stored, Known

\* A reconnect fails after its handshake: what it fetched is kept.
LEMMA ReconnectFailsKeeps ==
    ASSUME FeedInv, BackfillFails \/ ReconnectTimesOut
    PROVE  FeedInv'
<1> USE DEF FeedInv
<1>1. /\ TypeOK /\ clock \in Nat /\ evalTime \in Nat
      /\ pc \in {"fetch", "ingest"} /\ pc' = "idle"
      /\ buffering' = FALSE /\ buffer' = <<>> /\ snapshot' = <<>> /\ lastError' = TRUE
      /\ repo' = IngestLiveRaw(repo, snapshot, evalTime)
  BY Types DEF Shape, BackfillFails, ReconnectTimesOut, ReconnectFails, DiscardBuffer
<1>2. UNCHANGED <<market, queue, evalTime, lastBackfill, clock, link, net, wsStatus, acked, reader, bgError>>
  BY DEF BackfillFails, ReconnectTimesOut, ReconnectFails
<1>3. \/ flags' = NoFlags /\ outrun' = outrun
      \/ flags' = flags /\ outrun' = TRUE
  BY DEF BackfillFails, ReconnectTimesOut
<1>4. DOMAIN <<>> = {} /\ Len(<<>>) = 0 /\ <<>> \in Seq(Raws)
  OBVIOUS
<1>5. /\ NoFlags \in [meta : BOOLEAN, backfill : BOOLEAN, initial : BOOLEAN, bundles : BOOLEAN]
      /\ NoFlags.initial = FALSE
  BY DEF NoFlags
<1>6. Absorbed(repo, repo', Items(snapshot)) /\ RepoAsOf(repo', evalTime)
  BY <1>1, IngestAbsorbs DEF Shape, Places
<1>7. /\ RepoOK(repo') /\ Stored(repo) \subseteq Stored(repo')
      /\ \A d \in Days : repo'.offered[d] <= market[d] /\ (repo'.offered[d] # -1 => Opened(d, clock))
  <2>1. InHand(Items(snapshot))
    BY DEF Received, InHand
  <2>2. Knows(repo', Items(snapshot))
    BY <1>6, <2>1, AbsorbedShape
  <2>. QED
    BY <2>2 DEF Knows
<1>8. TypeOK'
  <2>1. repo'.daily \in [Days -> Candles] /\ repo'.conflicts \in BOOLEAN
    BY <1>7 DEF RepoOK
  <2>2. BufferSize \in Nat
    BY FeedConstants
  <2>3. {link', acked', reader', bgError', buffering', lastError'} \subseteq BOOLEAN /\ outrun' \in BOOLEAN
    BY <1>1, <1>2, <1>3, Types
  <2>4. \A s \in {buffer', queue', snapshot'} : \A i \in DOMAIN s : s[i] \in Raws
    BY <1>1, <1>2, <1>4 DEF TypeOK
  <2>5. Len(buffer') <= BufferSize
    BY <1>1, <1>4, <2>2
  <2>6. flags' \in [meta : BOOLEAN, backfill : BOOLEAN, initial : BOOLEAN, bundles : BOOLEAN]
    BY <1>1, <1>3, <1>5 DEF TypeOK
  <2>. QED
    BY <1>1, <1>2, <2>1, <2>3, <2>4, <2>5, <2>6 DEF TypeOK, PCs
<1>9. Shape'
  BY <1>1, <1>2, <1>7, <1>8, FewerShape
<1>10. Places'
  <2>1. RepoAsOf(repo, evalTime)'
    BY <1>2, <1>6
  <2>2. pc \notin Greeting /\ pc \in Fetching \cup Ingesting
    BY <1>1 DEF Greeting, Fetching, Ingesting
  <2>3. pc' \notin Calling /\ pc' \notin Greeting /\ pc' \notin {"down"} \cup Starting
    BY <1>1 DEF Calling, Dialling, Greeting, Fetching, Ingesting, Starting
  <2>. QED
    BY <1>1, <1>2, <1>4, <2>1, <2>2, <2>3 DEF Places
<1>11. Weekly'
  BY <1>1 DEF Weekly
<1>12. Reached'
  BY <1>1, <1>2, <1>3, <1>4, <1>5, <1>7 DEF Reached, Ingesting
<1>13. Updates'
  <2>1. ~Sound'
    BY <1>1, <1>3, <1>5 DEF Sound, Starting
  <2>. QED
    BY <1>1, <2>1 DEF Updates, NewIsLast, Greeting, Fetching, Ingesting
<1>. QED
  BY <1>9, <1>10, <1>11, <1>12, <1>13

\* process_live drains the queue.
LEMMA PollKeeps ==
    ASSUME FeedInv, Poll
    PROVE  FeedInv'
<1> USE DEF FeedInv
<1>1. /\ TypeOK /\ clock \in Nat /\ evalTime \in Nat /\ evalTime <= clock
      /\ pc = "idle" /\ evalTime' = clock /\ repo' = Drain(repo, clock) /\ queue' = <<>>
  BY Types DEF Shape, Poll
<1>2. UNCHANGED <<market, pc, lastBackfill, clock, link, net, wsStatus, acked, reader, bgError, buffering, buffer,
                  snapshot, flags, lastError, outrun>>
  BY DEF Poll
<1>3. DOMAIN <<>> = {} /\ Len(<<>>) = 0 /\ <<>> \in Seq(Raws)
  OBVIOUS
<1>4. Absorbed(repo, repo', Items(queue)) /\ RepoAsOf(repo', clock) /\ (repo'.conflicts \/ WeeksAgree(repo'))
  <2>1. RepoAsOf(repo, clock)
    BY <1>1, AsOfLater DEF Places
  <2>. QED
    BY <1>1, <2>1, DrainAbsorbs DEF Shape
<1>5. /\ RepoOK(repo') /\ Stored(repo) \subseteq Stored(repo')
      /\ \A d \in Days :
            /\ repo'.offered[d] <= market[d] /\ (repo'.offered[d] # -1 => Opened(d, clock))
            /\ repo'.offered[d] # -1 <=> repo.offered[d] # -1 \/ \E u \in Items(queue) : u.day = d
            /\ repo'.offered[d] = market[d] <=>
                  repo.offered[d] = market[d] \/ \E u \in Items(queue) : u.day = d /\ u.v = market[d]
  <2>1. InHand(Items(queue))
    BY DEF Received, InHand
  <2>2. Knows(repo', Items(queue))
    BY <1>4, <2>1, AbsorbedShape
  <2>. QED
    BY <2>2 DEF Knows
<1>6. TypeOK'
  <2>1. repo'.daily \in [Days -> Candles] /\ repo'.conflicts \in BOOLEAN
    BY <1>5 DEF RepoOK
  <2>2. \A s \in {buffer', queue', snapshot'} : \A i \in DOMAIN s : s[i] \in Raws
    BY <1>1, <1>2, <1>3 DEF TypeOK
  <2>. QED
    BY <1>1, <1>2, <2>1, <2>2 DEF TypeOK
<1>7. Shape'
  BY <1>1, <1>2, <1>5, <1>6, FewerShape
<1>8. \A d \in Days : (Known(d)' <=> Known(d)) /\ (KnownNewest(d)' <=> KnownNewest(d))
  <2>1. \A d : ~Has(queue', d) /\ \A v : ~Carries(queue', d, v)
    BY <1>1, EmptyItems
  <2>2. \A d \in Days : Has(queue, d) <=> \E u \in Items(queue) : u.day = d
    BY HasItems
  <2>3. \A d \in Days : Carries(queue, d, market[d]) <=> \E u \in Items(queue) : u.day = d /\ u.v = market[d]
    BY CarriesItems
  <2>4. \A d \in Days : Known(d)' <=> Known(d)
    BY <1>5, <2>1, <2>2, NextVocabulary DEF Known
  <2>5. \A d \in Days : KnownNewest(d)' <=> KnownNewest(d)
    BY <1>2, <1>5, <2>1, <2>3, NextVocabulary DEF KnownNewest
  <2>. QED
    BY <2>4, <2>5
<1>9. pc \notin Calling /\ pc \notin Greeting /\ pc \notin Fetching /\ pc \notin Ingesting /\ pc \notin {"down"} \cup Starting
  BY <1>1 DEF Calling, Dialling, Greeting, Fetching, Ingesting, Starting
<1>10. Places'
  <2>1. RepoAsOf(repo, evalTime)'
    BY <1>1, <1>4
  <2>. QED
    BY <1>1, <1>2, <1>9, <2>1 DEF Places
<1>11. Weekly'
  BY <1>4 DEF Weekly
<1>12. Reached'
  BY <1>1, <1>2, <1>3, <1>5, <1>9 DEF Reached, Places
<1>13. Updates'
  <2>1. Sound' <=> Sound
    BY <1>2 DEF Sound
  <2>2. NewIsLast' /\ AheadFollowed' /\ AheadFinal' /\ GatheredFinal'
    BY <1>2, <1>9 DEF NewIsLast, AheadFollowed, AheadFinal, GatheredFinal
  <2>3. EarlierFinal => EarlierFinal'
    BY <1>8 DEF EarlierFinal
  <2>4. Followed => Followed'
    <3>1. \A d : (Has(net', d) <=> Has(net, d)) /\ (Carries(net', d, market'[d]) <=> Carries(net, d, market[d]))
      BY <1>2
    <3>. QED
      BY <1>2, <1>8, <3>1 DEF Followed
  <2>5. LateIsKnown => LateIsKnown'
    <3>1. \A d : (Has(net', d) <=> Has(net, d)) /\ (Has(buffer', d) <=> Has(buffer, d))
      BY <1>2
    <3>. QED
      BY <1>2, <1>8, <3>1 DEF LateIsKnown
  <2>. QED
    BY <2>1, <2>2, <2>3, <2>4, <2>5 DEF Updates
<1>. QED
  BY <1>7, <1>10, <1>11, <1>12, <1>13

\* The exchange answers candleSnapshot.
LEMMA FetchKeeps ==
    ASSUME FeedInv, NEW from \in Fetching, NEW to \in Ingesting, (from = "start_fetch") <=> (to = "start_ingest"),
           FetchCandles(from, to)
    PROVE  FeedInv'
<1> USE DEF FeedInv
<1>1. /\ TypeOK /\ clock \in Nat /\ evalTime \in Nat /\ evalTime <= clock /\ market \in [Days -> Nat]
      /\ Days \subseteq Int /\ pc = from /\ pc' = to
  BY Types DEF Shape, FetchCandles
<1>2. UNCHANGED <<market, queue, repo, evalTime, lastBackfill, clock, link, net, wsStatus, acked, reader, bgError,
                  buffering, buffer, flags, lastError, outrun>>
  BY DEF FetchCandles, feedVars
<1> DEFINE F == BackfillFrom
           asked == {d \in Days : d >= F /\ Opened(d, evalTime)}
<1>3. snapshot' \in Seq(Raws) /\ Items(snapshot') = {ParseCandle(d, market[d], evalTime) : d \in asked}
  BY <1>1, SnapshotItems
<1>4. \A d \in asked : ParseCandle(d, market[d], evalTime).day = d /\ ParseCandle(d, market[d], evalTime).v = market[d]
  BY DEF ParseCandle
<1>5. F \in Days /\ (\A m \in Stored(repo) : m <= F) /\ IF Stored(repo) = {} THEN F = 1 ELSE F \in Stored(repo)
  BY BackfillBegins
<1>6. \A u \in Items(snapshot') : u.day \in asked /\ u.v = market[u.day]
  BY <1>3, <1>4
<1>7. \A d \in Days : Has(snapshot', d) <=> d >= F /\ Opened(d, evalTime)
  <2>1. \A d \in Days : Has(snapshot', d) => d \in asked
    BY <1>6, HasItems
  <2>2. \A d \in asked : Has(snapshot', d)
    BY <1>3, <1>4, HasItems
  <2>. QED
    BY <2>1, <2>2
<1>8. \A d \in Days : d >= F /\ Opened(d, evalTime) => Carries(snapshot', d, market[d])
  <2>1. \A d \in asked : Carries(snapshot', d, market[d])
    BY <1>3, <1>4, CarriesItems
  <2>. QED
    BY <2>1
<1>9. \A d \in Days : Opened(d, evalTime) => Opened(d, clock)
  BY <1>1 DEF Opened
<1> HIDE DEF F
<1>10. /\ \A i \in DOMAIN snapshot' : snapshot'[i] \in Items(snapshot')
       /\ \A i \in DOMAIN snapshot' : snapshot'[i] \in Raws
  BY <1>3 DEF Items
<1>11. TypeOK'
  <2>1. \A s \in {buffer', queue', snapshot'} : \A i \in DOMAIN s : s[i] \in Raws
    BY <1>1, <1>2, <1>10 DEF TypeOK
  <2>. QED
    BY <1>1, <1>2, <2>1 DEF TypeOK, PCs, Ingesting
<1>12. Shape'
  <2>1. ItemsOK(snapshot)'
    <3>1. \A i \in DOMAIN snapshot' : snapshot'[i].v = market[snapshot'[i].day] /\ snapshot'[i].day \in Days
                                      /\ Opened(snapshot'[i].day, evalTime)
      BY <1>6, <1>10
    <3>2. \A d \in Days : market[d] <= market[d]
      BY <1>1
    <3>. QED
      BY <1>2, <1>9, <3>1, <3>2 DEF ItemsOK
  <2>2. /\ RepoOK(repo)'
        /\ \A d \in Days : repo'.offered[d] <= market[d] /\ (repo'.offered[d] # -1 => Opened(d, clock'))
    BY <1>2 DEF Shape
  <2>3. clock' >= clock
    BY <1>1, <1>2
  <2>. QED
    BY <1>2, <1>3, <1>11, <2>1, <2>2, <2>3, FewerShape
<1>13. \A d \in Days : (Known(d)' <=> Known(d)) /\ (KnownNewest(d)' <=> KnownNewest(d))
  BY <1>2, SameKnown
<1>14. pc \in Fetching /\ pc \in Calling /\ pc' \in Ingesting /\ pc' \in Calling
  BY <1>1 DEF Calling
<1>15. Places'
  <2>1. RepoAsOf(repo, evalTime)'
    BY <1>2, SameAsOf DEF Places
  <2>2. pc' \in {"down"} \cup Starting => pc \in Starting
    BY <1>1, <1>14 DEF Starting, Fetching, Ingesting
  <2>3. pc' \notin {"down", "start_dial"} /\ pc' \notin Greeting /\ pc \notin Greeting
    BY <1>14 DEF Greeting, Fetching, Ingesting
  <2>. QED
    BY <1>1, <1>2, <1>13, <1>14, <2>1, <2>2, <2>3 DEF Places
<1>16. Weekly'
  BY <1>2, SameWeekly
<1>17. Reached'
  <2>1. \A d \in Days : Opened(d, evalTime) /\ (\A m \in Stored(repo) : m <= d) => Has(snapshot', d)
    <3>1. ASSUME NEW d \in Days, Opened(d, evalTime), \A m \in Stored(repo) : m <= d PROVE d >= F
      BY <1>1, <1>5, <3>1 DEF Days
    <3>. QED
      BY <1>7, <3>1
  <2>2. \A i \in DOMAIN snapshot' : Opened(snapshot'[i].day, evalTime)
    BY <1>6, <1>10
  <2>. QED
    BY <1>2, <2>1, <2>2 DEF Reached
<1>18. Updates'
  <2>1. Sound' => Sound
    BY <1>1, <1>2 DEF Sound, Starting, Fetching, Ingesting
  <2>2. NewIsLast'
    BY <1>2, <1>13, <1>14 DEF Updates, NewIsLast
  <2>3. Followed' /\ LateIsKnown' /\ AheadFollowed' /\ AheadFinal'
    BY <1>14 DEF Followed, LateIsKnown, AheadFollowed, AheadFinal, Greeting, Fetching, Ingesting
  <2>4. EarlierFinal => EarlierFinal'
    BY <1>13 DEF EarlierFinal
  <2>5. ASSUME Sound, NEW d \in Days, d < F, Known(d) \/ Has(buffer, d) \/ Has(net, d)
        PROVE  KnownNewest(d)
    <3>1. F \in Stored(repo)
      <4>1. F # 1
        BY <1>1, <2>5 DEF Days
      <4>. QED
        BY <1>5, <4>1
    <3>2. Known(F)
      BY <3>1, StoredKnown
    <3>3. Known(d)
      BY <1>5, <1>14, <2>5, <3>2 DEF Updates, LateIsKnown, Fetching, Ingesting
    <3>. QED
      BY <1>5, <2>5, <3>2, <3>3 DEF Updates, EarlierFinal
  <2>6. \A d \in Days : Known(d) => Opened(d, evalTime)
    BY <1>14 DEF Places
  <2>7. \A d, e \in Days : ~Opened(d, evalTime) /\ d < e => ~Opened(e, evalTime)
    BY <1>1 DEF Opened
  <2>8. Sound => AheadFinal
    BY DEF Updates
  <2>9. ASSUME NEW d \in Days
        PROVE  /\ Gathered(d)' <=> Known(d) \/ Has(buffer, d) \/ Has(snapshot', d)
               /\ GatheredNewest(d)' <=> KnownNewest(d) \/ Carries(buffer, d, market[d]) \/ Carries(snapshot', d, market[d])
    BY <1>2, <1>13, NextVocabulary
  <2>10. ASSUME Sound, NEW d \in Days, NEW e \in Days, d < e, Gathered(d)', Gathered(e)'
         PROVE  GatheredNewest(d)'
    <3>1. CASE d >= F /\ Opened(d, evalTime)
      BY <1>8, <2>9, <3>1
    <3>2. CASE ~Opened(d, evalTime)
      <4>1. ~Known(d) /\ ~Known(e) /\ ~Has(snapshot', d) /\ ~Has(snapshot', e)
        BY <1>7, <2>6, <2>7, <2>10, <3>2
      <4>2. Has(buffer, d) /\ Has(buffer, e)
        BY <2>9, <2>10, <4>1
      <4>. QED
        BY <1>14, <2>8, <2>9, <2>10, <3>2, <4>2 DEF AheadFinal
    <3>3. CASE ~(d >= F)
      <4>1. d < F
        BY <1>1, <1>5, <3>3
      <4>. QED
        BY <1>7, <2>5, <2>9, <2>10, <3>3, <4>1
    <3>. QED
      BY <3>1, <3>2, <3>3
  <2>11. ASSUME Sound, link, reader, NEW d \in Days, Gathered(d)' \/ Has(net, d)
         PROVE  GatheredNewest(d)' \/ Carries(net, d, market[d])
    <3>1. CASE d >= F /\ Opened(d, evalTime)
      BY <1>8, <2>9, <3>1
    <3>2. CASE ~Opened(d, evalTime)
      <4>1. Has(buffer, d) \/ Has(net, d)
        BY <1>7, <2>6, <2>9, <2>11, <3>2
      <4>. QED
        BY <1>14, <2>9, <2>11, <3>2, <4>1 DEF Updates, AheadFollowed
    <3>3. CASE ~(d >= F)
      <4>1. d < F
        BY <1>1, <1>5, <3>3
      <4>. QED
        BY <1>7, <2>5, <2>9, <2>11, <3>3, <4>1
    <3>. QED
      BY <3>1, <3>2, <3>3
  <2>12. Sound => GatheredFinal'
    BY <1>2, <2>10, <2>11 DEF GatheredFinal
  <2>. QED
    BY <2>1, <2>2, <2>3, <2>4, <2>12 DEF Updates
<1>. QED
  BY <1>12, <1>15, <1>16, <1>17, <1>18

\* At the end of a backfill all that was gathered is known.
LEMMA BackfillUpdates ==
    ASSUME FeedInv, pc \in Ingesting, pc' = "idle", UNCHANGED <<market, net, link, reader>>, buffer' = <<>>,
           \A d \in Days : Known(d)' <=> Gathered(d),
           \A d \in Days : GatheredNewest(d) => KnownNewest(d)',
           Sound' => Sound
    PROVE  Updates'
<1> USE DEF FeedInv
<1>1. NewIsLast' /\ AheadFollowed' /\ AheadFinal' /\ GatheredFinal'
  BY DEF NewIsLast, AheadFollowed, AheadFinal, GatheredFinal, Greeting, Fetching, Ingesting
<1>2. Sound => EarlierFinal'
  BY DEF Updates, GatheredFinal, EarlierFinal
<1>3. Sound => Followed'
  BY DEF Updates, GatheredFinal, Followed
<1>4. LateIsKnown'
  <2>1. SUFFICES ASSUME NEW d \in Days, NEW e \in Days, d < e, Gathered(e), Has(net, d)
                 PROVE  Gathered(d)
    BY EmptyItems DEF LateIsKnown
  <2>2. Days \subseteq Int /\ evalTime \in Nat
    BY Types DEF Shape
  <2>3. PICK j \in DOMAIN net : net[j].day = d /\ net[j] # Ack
    BY <2>1 DEF Has, Ack, Days
  <2>4. \A k \in Days : Known(k) => k <= d
    BY <2>3 DEF Updates, NewIsLast
  <2>5. \A k \in Days : Has(buffer, k) => k <= d
    BY <2>3 DEF Shape, Has
  <2>6. Has(snapshot, e)
    BY <2>1, <2>2, <2>4, <2>5 DEF Gathered
  <2>7. Opened(e, evalTime)
    BY <2>6 DEF Reached, Has
  <2>8. Opened(d, evalTime)
    BY <2>1, <2>2, <2>7 DEF Opened
  <2>9. \A m \in Stored(repo) : m <= d
    BY <2>4, StoredKnown
  <2>. QED
    BY <2>8, <2>9 DEF Reached, Gathered
<1>. QED
  BY <1>1, <1>2, <1>3, <1>4 DEF Updates

\* A backfill that has reached the repository, what stays in the queue aside.
LEMMA BackfillKnown ==
    ASSUME Shape, market' = market, NEW U,
           \/ U = Items(snapshot) \cup Items(buffer) /\ queue' = queue
           \/ U = (Items(snapshot) \cup Items(buffer)) \cup Items(queue) /\ queue' = <<>>,
           Absorbed(repo, repo', U), NEW d \in Days
    PROVE  (Known(d)' <=> Gathered(d)) /\ (GatheredNewest(d) => KnownNewest(d)')
<1>1. InHand(U)
  BY DEF Received, InHand
<1>2. /\ repo'.offered[d] # -1 <=> repo.offered[d] # -1 \/ \E u \in U : u.day = d
      /\ repo'.offered[d] = market[d] <=> repo.offered[d] = market[d] \/ \E u \in U : u.day = d /\ u.v = market[d]
  <2>1. Knows(repo', U)
    BY <1>1, AbsorbedShape
  <2>. QED
    BY <2>1 DEF Knows
<1>3. /\ Has(snapshot, d) <=> \E u \in Items(snapshot) : u.day = d
      /\ Has(buffer, d) <=> \E u \in Items(buffer) : u.day = d
      /\ Has(queue, d) <=> \E u \in Items(queue) : u.day = d
  BY HasItems
<1>4. /\ Carries(snapshot, d, market[d]) <=> \E u \in Items(snapshot) : u.day = d /\ u.v = market[d]
      /\ Carries(buffer, d, market[d]) <=> \E u \in Items(buffer) : u.day = d /\ u.v = market[d]
      /\ Carries(queue, d, market[d]) <=> \E u \in Items(queue) : u.day = d /\ u.v = market[d]
  BY CarriesItems
<1>5. CASE U = Items(snapshot) \cup Items(buffer) /\ queue' = queue
  <2>1. Known(d)' <=> Gathered(d)
    BY <1>2, <1>3, <1>5, NextVocabulary DEF Known, Gathered
  <2>2. GatheredNewest(d) => KnownNewest(d)'
    BY <1>2, <1>4, <1>5, NextVocabulary DEF KnownNewest, GatheredNewest
  <2>. QED
    BY <2>1, <2>2
<1>6. CASE U = (Items(snapshot) \cup Items(buffer)) \cup Items(queue) /\ queue' = <<>>
  <2>0. ~Has(queue', d) /\ ~Carries(queue', d, market'[d])
    BY <1>6, EmptyItems
  <2>1. Known(d)' <=> Gathered(d)
    BY <1>2, <1>3, <1>6, <2>0, NextVocabulary DEF Known, Gathered
  <2>2. GatheredNewest(d) => KnownNewest(d)'
    BY <1>2, <1>4, <1>6, <2>0, NextVocabulary DEF KnownNewest, GatheredNewest
  <2>. QED
    BY <2>1, <2>2
<1>. QED
  BY <1>5, <1>6

\* After it no day of before the evaluation time lies beyond the last one stored.
LEMMA BackfillReached ==
    ASSUME FeedInv, pc \in Ingesting, Stored(repo) \subseteq Stored(repo'), RepoOK(repo'),
           \A d \in Days : Has(snapshot, d) => repo'.offered[d] # -1
    PROVE  /\ \A d \in Days : Opened(d, evalTime) => \E m \in Stored(repo') : m >= d
           /\ pc = "start_ingest" => 1 \in Stored(repo')
<1> USE DEF FeedInv
<1>1. Days \subseteq Int /\ 1 \in Days /\ evalTime \in Nat
  BY Types, DaysFinite DEF Shape
<1>2. \A d \in Days : Has(snapshot, d) => d \in Stored(repo')
  BY DEF Stored, RepoOK
<1>3. ASSUME NEW d \in Days, Opened(d, evalTime) PROVE \E m \in Stored(repo') : m >= d
  <2>1. CASE \A m \in Stored(repo) : m <= d
    BY <1>1, <1>2, <1>3, <2>1 DEF Reached
  <2>2. CASE ~\A m \in Stored(repo) : m <= d
    BY <1>1, <2>2 DEF Stored
  <2>. QED
    BY <2>1, <2>2
<1>4. ASSUME pc = "start_ingest" PROVE 1 \in Stored(repo')
  <2>1. Stored(repo) = {}
    BY <1>4, EmptyRepoFacts DEF Places, Starting
  <2>2. Opened(1, evalTime)
    BY <1>1 DEF Opened
  <2>. QED
    BY <1>1, <1>2, <2>1, <2>2 DEF Reached
<1>. QED
  BY <1>3, <1>4

\* start() ends.
LEMMA StartDoneKeeps ==
    ASSUME FeedInv, StartDone
    PROVE  FeedInv'
<1> USE DEF FeedInv
<1>1. /\ TypeOK /\ clock \in Nat /\ evalTime \in Nat /\ evalTime <= clock
      /\ pc = "start_ingest" /\ pc' = "idle" /\ repo' = AfterBackfill(repo) /\ lastBackfill' = evalTime
      /\ buffering' = FALSE /\ buffer' = <<>> /\ snapshot' = <<>> /\ lastError' = FALSE
      /\ flags' = [meta |-> TRUE, backfill |-> TRUE, initial |-> TRUE, bundles |-> BundleUsable(repo', evalTime)]
  BY Types DEF Shape, StartDone, DiscardBuffer
<1>2. UNCHANGED <<market, queue, evalTime, clock, link, net, wsStatus, acked, reader, bgError, outrun>>
  BY DEF StartDone
<1>3. DOMAIN <<>> = {} /\ Len(<<>>) = 0 /\ <<>> \in Seq(Raws)
  OBVIOUS
<1> DEFINE U == Items(snapshot) \cup Items(buffer)
<1>4. Absorbed(repo, repo', U) /\ RepoAsOf(repo', evalTime) /\ (repo'.conflicts \/ WeeksAgree(repo'))
  <2>1. /\ RepoOK(repo) /\ snapshot \in Seq(Raws) /\ buffer \in Seq(Raws) /\ Sorted(buffer)
        /\ RepoAsOf(repo, evalTime) /\ evalTime \in Int
    BY <1>1 DEF Shape, Places
  <2>. QED
    BY <1>1, <2>1, BackfillAbsorbs
<1>5. /\ RepoOK(repo') /\ Stored(repo) \subseteq Stored(repo')
      /\ \A d \in Days : repo'.offered[d] <= market[d] /\ (repo'.offered[d] # -1 => Opened(d, clock))
      /\ \A d \in Days : repo'.offered[d] # -1 <=> repo.offered[d] # -1 \/ \E u \in U : u.day = d
  <2>1. InHand(U)
    BY DEF Received, InHand
  <2> HIDE DEF U
  <2>2. Knows(repo', U)
    BY <1>4, <2>1, AbsorbedShape
  <2>. QED
    BY <2>2 DEF Knows
<1>6. \A d \in Days : (Known(d)' <=> Gathered(d)) /\ (GatheredNewest(d) => KnownNewest(d)')
  BY <1>2, <1>4, BackfillKnown
<1>7. TypeOK'
  <2>1. repo'.daily \in [Days -> Candles] /\ repo'.conflicts \in BOOLEAN
    BY <1>5 DEF RepoOK
  <2>2. BufferSize \in Nat
    BY FeedConstants
  <2>3. {link', acked', reader', bgError', buffering', lastError'} \subseteq BOOLEAN
    BY <1>1, <1>2, Types
  <2>4. \A s \in {buffer', queue', snapshot'} : \A i \in DOMAIN s : s[i] \in Raws
    BY <1>1, <1>2, <1>3 DEF TypeOK
  <2>5. Len(buffer') <= BufferSize
    BY <1>1, <1>3, <2>2
  <2>6. flags' \in [meta : BOOLEAN, backfill : BOOLEAN, initial : BOOLEAN, bundles : BOOLEAN]
    <3>1. BundleUsable(repo', evalTime) \in BOOLEAN
      BY DEF BundleUsable
    <3>. QED
      BY <1>1, <3>1
  <2>7. lastBackfill' \in 0..clock'
    BY <1>1, <1>2
  <2>. QED
    BY <1>1, <1>2, <2>1, <2>3, <2>4, <2>5, <2>6, <2>7 DEF TypeOK, PCs
<1>8. Shape'
  BY <1>1, <1>2, <1>5, <1>7, FewerShape
<1>9. Places'
  <2>1. RepoAsOf(repo, evalTime)'
    BY <1>2, <1>4
  <2>2. pc \notin Greeting /\ pc \in Ingesting
    BY <1>1 DEF Greeting, Ingesting
  <2>3. pc' \notin Calling /\ pc' \notin Greeting /\ pc' \notin {"down"} \cup Starting
    BY <1>1 DEF Calling, Dialling, Greeting, Fetching, Ingesting, Starting
  <2>. QED
    BY <1>1, <1>2, <1>3, <2>1, <2>2, <2>3 DEF Places
<1>10. Weekly'
  BY <1>4 DEF Weekly
<1>11. Reached'
  <2>1. \A d \in Days : Has(snapshot, d) => repo'.offered[d] # -1
    BY <1>5, HasItems
  <2>2. /\ \A d \in Days : Opened(d, evalTime) => \E m \in Stored(repo') : m >= d
        /\ 1 \in Stored(repo')
    BY <1>1, <1>5, <2>1, BackfillReached DEF Ingesting
  <2>. QED
    BY <1>1, <1>3, <2>2 DEF Reached, Ingesting
<1>12. Updates'
  <2>1. Sound' => Sound
    BY <1>1, <1>2 DEF Sound, Starting
  <2>2. pc \in Ingesting
    BY <1>1 DEF Ingesting
  <2>. QED
    BY <1>1, <1>2, <1>6, <2>1, <2>2, BackfillUpdates
<1>. QED
  BY <1>8, <1>9, <1>10, <1>11, <1>12

\* reconnect() ends, and process_live with it.
LEMMA ReconnectDoneKeeps ==
    ASSUME FeedInv, ReconnectDone
    PROVE  FeedInv'
<1> USE DEF FeedInv
<1> DEFINE r == AfterBackfill(repo)
<1>1. /\ TypeOK /\ clock \in Nat /\ evalTime \in Nat /\ evalTime <= clock
      /\ pc = "ingest" /\ pc' = "idle" /\ repo' = Drain(r, evalTime) /\ lastBackfill' = evalTime
      /\ buffering' = FALSE /\ buffer' = <<>> /\ snapshot' = <<>> /\ queue' = <<>>
  BY Types DEF Shape, ReconnectDone, DiscardBuffer
<1>2. UNCHANGED <<market, evalTime, clock, link, net, wsStatus, acked, reader, bgError, outrun>>
  BY DEF ReconnectDone
<1>3. DOMAIN <<>> = {} /\ Len(<<>>) = 0 /\ <<>> \in Seq(Raws)
  OBVIOUS
<1>4. /\ flags' \in [meta : BOOLEAN, backfill : BOOLEAN, initial : BOOLEAN, bundles : BOOLEAN]
      /\ flags'.initial = flags.initial /\ lastError' \in BOOLEAN
  <2>1. flags \in [meta : BOOLEAN, backfill : BOOLEAN, initial : BOOLEAN, bundles : BOOLEAN]
    BY DEF Shape, TypeOK
  <2>2. BundleUsable(r, evalTime) \in BOOLEAN
    BY DEF BundleUsable
  <2>3. flags' = [flags EXCEPT !.meta = TRUE, !.backfill = TRUE, !.bundles = BundleUsable(r, evalTime)]
    BY DEF ReconnectDone
  <2>4. lastError' \in BOOLEAN
    BY DEF ReconnectDone
  <2> HIDE DEF r
  <2>. QED
    BY <2>1, <2>2, <2>3, <2>4
<1> DEFINE V == Items(snapshot) \cup Items(buffer)
           U == V \cup Items(queue)
<1>5. Absorbed(repo, r, V) /\ RepoAsOf(r, evalTime)
  <2>1. /\ RepoOK(repo) /\ snapshot \in Seq(Raws) /\ buffer \in Seq(Raws) /\ Sorted(buffer)
        /\ RepoAsOf(repo, evalTime) /\ evalTime \in Int
    BY <1>1 DEF Shape, Places
  <2>. QED
    BY <1>1, <2>1, BackfillAbsorbs
<1> HIDE DEF r
<1>6. Absorbed(r, repo', Items(queue)) /\ RepoAsOf(repo', evalTime) /\ (repo'.conflicts \/ WeeksAgree(repo'))
  <2>1. RepoOK(r)
    BY <1>5 DEF Absorbed
  <2>. QED
    BY <1>1, <1>5, <2>1, DrainAbsorbs DEF Shape
<1>7. Absorbed(repo, repo', U)
  <2>1. \A u \in V : u.v \in Int
    BY RawItems DEF Shape
  <2> HIDE DEF V
  <2>. QED
    BY <1>5, <1>6, <2>1, AbsorbedTwice DEF Shape
<1>8. /\ RepoOK(repo') /\ Stored(repo) \subseteq Stored(repo')
      /\ \A d \in Days : repo'.offered[d] <= market[d] /\ (repo'.offered[d] # -1 => Opened(d, clock))
      /\ \A d \in Days : repo'.offered[d] # -1 <=> repo.offered[d] # -1 \/ \E u \in U : u.day = d
  <2>1. InHand(U)
    BY DEF Received, InHand
  <2> HIDE DEF U
  <2>2. Knows(repo', U)
    BY <1>7, <2>1, AbsorbedShape
  <2>. QED
    BY <2>2 DEF Knows
<1>9. \A d \in Days : (Known(d)' <=> Gathered(d)) /\ (GatheredNewest(d) => KnownNewest(d)')
  BY <1>1, <1>2, <1>7, BackfillKnown
<1>10. TypeOK'
  <2>1. repo'.daily \in [Days -> Candles] /\ repo'.conflicts \in BOOLEAN
    BY <1>8 DEF RepoOK
  <2>2. BufferSize \in Nat
    BY FeedConstants
  <2>3. {link', acked', reader', bgError', buffering', lastError'} \subseteq BOOLEAN
    BY <1>1, <1>2, <1>4, Types
  <2>4. \A s \in {buffer', queue', snapshot'} : \A i \in DOMAIN s : s[i] \in Raws
    BY <1>1, <1>3
  <2>5. Len(buffer') <= BufferSize
    BY <1>1, <1>3, <2>2
  <2>6. lastBackfill' \in 0..clock'
    BY <1>1, <1>2
  <2>. QED
    BY <1>1, <1>2, <1>4, <2>1, <2>3, <2>4, <2>5, <2>6 DEF TypeOK, PCs
<1>11. Shape'
  BY <1>1, <1>2, <1>8, <1>10, FewerShape
<1>12. Places'
  <2>1. RepoAsOf(repo, evalTime)'
    BY <1>2, <1>6
  <2>2. pc \notin Greeting /\ pc \in Ingesting
    BY <1>1 DEF Greeting, Ingesting
  <2>3. pc' \notin Calling /\ pc' \notin Greeting /\ pc' \notin {"down"} \cup Starting
    BY <1>1 DEF Calling, Dialling, Greeting, Fetching, Ingesting, Starting
  <2>. QED
    BY <1>1, <1>2, <1>3, <2>1, <2>2, <2>3 DEF Places
<1>13. Weekly'
  BY <1>6 DEF Weekly
<1>14. Reached'
  <2>1. \A d \in Days : Has(snapshot, d) => repo'.offered[d] # -1
    BY <1>8, HasItems
  <2>2. \A d \in Days : Opened(d, evalTime) => \E m \in Stored(repo') : m >= d
    BY <1>1, <1>8, <2>1, BackfillReached DEF Ingesting
  <2>. QED
    BY <1>1, <1>3, <1>4, <1>8, <2>2 DEF Reached, Ingesting
<1>15. Updates'
  <2>1. Sound' => Sound
    BY <1>1, <1>2, <1>4 DEF Sound, Starting
  <2>2. pc \in Ingesting
    BY <1>1 DEF Ingesting
  <2>. QED
    BY <1>1, <1>2, <1>9, <2>1, <2>2, BackfillUpdates
<1>. QED
  BY <1>11, <1>12, <1>13, <1>14, <1>15

-----------------------------------------------------------------------------
(* An update is received.                                                  *)

\* The first update on the wire, and the rest.
Arrives(x) ==
    /\ x \in [day : Days, v : Nat] /\ x.day \in Days /\ x.v \in Nat
    /\ x.v <= market[x.day] /\ Opened(x.day, clock)
    /\ \A j \in DOMAIN net : x.day <= net[j].day /\ net[j] # Ack
    /\ \A i \in DOMAIN buffer : buffer[i].day <= x.day
    /\ \A d : Has(net, d) <=> Has(net', d) \/ x.day = d
    /\ \A d, v : Carries(net, d, v) <=> Carries(net', d, v) \/ (x.day = d /\ x.v = v)
    /\ \A i \in DOMAIN net' : i + 1 \in DOMAIN net /\ net'[i] = net[i + 1]
    /\ \A i \in DOMAIN net' : x.day <= net'[i].day
    /\ Has(net, x.day)

\* What _read_once takes from the wire.
LEMMA ReceiveFacts ==
    ASSUME FeedInv, ReceiveCandle
    PROVE  /\ Arrives(Head(net)) /\ link /\ reader
           /\ pc \notin Greeting /\ pc \notin {"down", "start_dial"}
<1> USE DEF FeedInv
<1>1. reader /\ net # <<>> /\ Head(net) # Ack /\ net' = Tail(net)
  BY DEF ReceiveCandle
<1> DEFINE Wire == {Ack} \cup [day : Days, v : Nat]
           x == Head(net)
<1>2. net \in Seq(Wire) /\ Sorted(net)
  BY DEF Shape
<1>3. /\ x = net[1] /\ x \in Wire
      /\ \A d : Has(net, d) <=> Has(net', d) \/ x.day = d
      /\ \A d, v : Carries(net, d, v) <=> Carries(net', d, v) \/ (x.day = d /\ x.v = v)
  BY <1>1, <1>2, TailItems
<1>4. x \in [day : Days, v : Nat] /\ x.day \in Days /\ x.v \in Nat /\ Has(net, x.day)
  BY <1>1, <1>3
<1>5. 1 \in DOMAIN net /\ \A i \in DOMAIN net' : i + 1 \in DOMAIN net /\ net'[i] = net[i + 1]
  BY <1>1, <1>2
<1>6. x.v <= market[x.day] /\ Opened(x.day, clock)
  BY <1>1, <1>3, <1>5 DEF Shape
<1>7. link /\ pc \notin Greeting /\ pc \notin {"down", "start_dial"}
  BY <1>1, <1>3 DEF Places
<1>8. \A j \in DOMAIN net : x.day <= net[j].day /\ net[j] # Ack
  <2>1. \A j \in DOMAIN net : 1 <= j
    BY <1>2
  <2>2. \A j \in DOMAIN net : net[j] # Ack
    BY <1>7 DEF Places
  <2>. QED
    BY <1>2, <1>3, <1>5, <2>1, <2>2 DEF Sorted
<1>9. \A i \in DOMAIN buffer : buffer[i].day <= x.day
  BY <1>1, <1>3, <1>5 DEF Shape
<1>10. \A i \in DOMAIN net' : x.day <= net'[i].day
  BY <1>5, <1>8
<1> HIDE DEF x
<1>11. Arrives(x)
  BY <1>3, <1>4, <1>5, <1>6, <1>8, <1>9, <1>10 DEF Arrives
<1>. QED
  BY <1>1, <1>7, <1>11 DEF x

\* _handle_candle puts it into the buffer.
LEMMA ReceiveBufferedKeeps ==
    ASSUME FeedInv, ReceiveCandle, buffering, Len(buffer) < BufferSize,
           buffer' = Append(buffer, ParseCandle(Head(net).day, Head(net).v, clock)),
           UNCHANGED <<queue, wsStatus, bgError, reader>>
    PROVE  FeedInv'
<1> USE DEF FeedInv
<1> DEFINE x == Head(net)
           raw == ParseCandle(x.day, x.v, clock)
<1>1. Arrives(x) /\ link /\ reader /\ pc \notin Greeting /\ pc \notin {"down", "start_dial"}
  BY ReceiveFacts
<1>2. /\ TypeOK /\ clock \in Nat /\ Days \subseteq Int /\ evalTime \in Nat
      /\ net # <<>> /\ net' = Tail(net)
  BY Types DEF Shape, ReceiveCandle
<1>3. UNCHANGED <<market, clock, link, repo, queue, snapshot, evalTime, pc, flags, outrun, acked, reader, buffering,
                  bgError, wsStatus, lastError, lastBackfill>>
  BY DEF ReceiveCandle
<1>4. buffer \in Seq(Raws) /\ Sorted(buffer) /\ ItemsOK(buffer)
  BY DEF Shape
<1>5. raw \in Raws /\ raw.day = x.day /\ raw.v = x.v
  BY <1>1, ParsedRaw DEF Arrives
<1>6. buffer' = Append(buffer, raw)
  OBVIOUS
<1> HIDE DEF raw, x
<1>7. Grown(Raws, buffer, buffer', raw)
  BY <1>4, <1>5, <1>6, AppendPlaces
<1>8. /\ \A d : Has(buffer', d) <=> Has(buffer, d) \/ x.day = d
      /\ \A d, v : Carries(buffer', d, v) <=> Carries(buffer, d, v) \/ (x.day = d /\ x.v = v)
  <2>1. /\ \A d : Has(Append(buffer, raw), d) <=> Has(buffer, d) \/ raw.day = d
        /\ \A d, v : Carries(Append(buffer, raw), d, v) <=> Carries(buffer, d, v) \/ (raw.day = d /\ raw.v = v)
    BY <1>4, <1>5, AppendItems
  <2>. QED
    BY <1>5, <1>6, <2>1
<1>9. /\ \A i \in DOMAIN buffer' : \/ i \in DOMAIN buffer /\ buffer'[i] = buffer[i]
                                   \/ i = Len(buffer) + 1 /\ buffer'[i] = raw
      /\ \A i, j \in DOMAIN buffer' : i <= j /\ i = Len(buffer) + 1 => j = Len(buffer) + 1
      /\ buffer' \in Seq(Raws) /\ Len(buffer') = Len(buffer) + 1 /\ Len(buffer) \in Nat
  BY <1>7 DEF Grown
<1>10. TypeOK'
  <2>1. \A s \in {buffer', queue', snapshot'} : \A i \in DOMAIN s : s[i] \in Raws
    BY <1>2, <1>3, <1>5, <1>9, ZenonT(30) DEF TypeOK
  <2>2. Len(buffer') <= BufferSize
    BY <1>9, FeedConstants
  <2>3. \A i \in DOMAIN net' : net'[i] = Ack \/ net'[i] \in [day : Days, v : Nat]
    BY <1>1, <1>2 DEF Arrives, TypeOK
  <2>. QED
    BY <1>2, <1>3, <2>1, <2>2, <2>3 DEF TypeOK
<1>11. Shape'
  <2>1. ItemsOK(buffer)'
    BY <1>1, <1>3, <1>4, <1>5, <1>9 DEF ItemsOK, Arrives
  <2>2. Sorted(buffer)'
    <3>1. SUFFICES ASSUME NEW i \in DOMAIN buffer', NEW j \in DOMAIN buffer', i <= j
                   PROVE  buffer'[i].day <= buffer'[j].day
      BY DEF Sorted
    <3>2. x.day <= x.day
      <4>1. x.day \in Int
        BY <1>1, <1>2 DEF Arrives
      <4>. QED
        BY <4>1
    <3>3. i = Len(buffer) + 1 => j = Len(buffer) + 1
      BY <1>9, <3>1
    <3>. QED
      BY <1>1, <1>4, <1>5, <1>9, <3>1, <3>2, <3>3 DEF Sorted, Arrives
  <2>3. \A i \in DOMAIN buffer', j \in DOMAIN net' : net'[j] # Ack => buffer'[i].day <= net'[j].day
    <3>1. ASSUME NEW i \in DOMAIN buffer', NEW j \in DOMAIN net', net'[j] # Ack
          PROVE  buffer'[i].day <= net'[j].day
      <4>1. CASE i = Len(buffer) + 1 /\ buffer'[i] = raw
        BY <1>1, <1>5, <4>1 DEF Arrives
      <4>2. CASE i \in DOMAIN buffer /\ buffer'[i] = buffer[i]
        <5>1. j + 1 \in DOMAIN net /\ net'[j] = net[j + 1]
          BY <1>1 DEF Arrives
        <5>. QED
          BY <3>1, <4>2, <5>1 DEF Shape
      <4>. QED
        BY <1>9, <4>1, <4>2
    <3>. QED
      BY <3>1
  <2>4. RepoOK(repo)' /\ clock' >= clock
    BY <1>2, <1>3 DEF Shape
  <2>5. \A d \in Days : repo'.offered[d] <= market[d] /\ (repo'.offered[d] # -1 => Opened(d, clock'))
    BY <1>3 DEF Shape
  <2>. QED
    BY <1>2, <1>3, <1>9, <1>10, <2>1, <2>2, <2>3, <2>4, <2>5, FewerShape
<1>12. \A d \in Days : (Known(d)' <=> Known(d)) /\ (KnownNewest(d)' <=> KnownNewest(d))
  BY <1>3, SameKnown
<1>13. pc \in Calling
  BY DEF Places
<1>14. Places'
  <2>1. RepoAsOf(repo, evalTime)'
    BY <1>3, SameAsOf DEF Places
  <2>2. \A i \in DOMAIN net' : net'[i] # Ack
    BY <1>1 DEF Arrives
  <2>. QED
    BY <1>1, <1>3, <1>12, <1>13, <2>1, <2>2 DEF Places
<1>15. Weekly' /\ Reached'
  BY <1>3, SameWeekly, SameReached
<1>16. Updates'
  <2>1. Sound' <=> Sound
    BY <1>3 DEF Sound
  <2>2. NewIsLast'
    BY <1>1, <1>3, <1>12 DEF Updates, NewIsLast, Arrives
  <2>3. Followed'
    BY <1>3, <1>13 DEF Followed, Calling, Dialling, Greeting, Fetching, Ingesting
  <2>4. EarlierFinal => EarlierFinal'
    BY <1>12 DEF EarlierFinal
  <2>5. \A d \in Days : /\ Has(net', d) \/ Has(buffer', d) <=> Has(net, d) \/ Has(buffer, d)
                        /\ Carries(net', d, market[d]) \/ Carries(buffer', d, market[d])
                              <=> Carries(net, d, market[d]) \/ Carries(buffer, d, market[d])
    BY <1>1, <1>8 DEF Arrives
  <2>6. LateIsKnown => LateIsKnown'
    BY <1>3, <1>12, <2>5 DEF LateIsKnown
  <2>7. AheadFollowed => AheadFollowed'
    BY <1>3, <2>5 DEF AheadFollowed
  <2>8. ASSUME NEW d \in Days
        PROVE  /\ Gathered(d)' <=> Gathered(d) \/ x.day = d
               /\ GatheredNewest(d)' <=> GatheredNewest(d) \/ (x.day = d /\ x.v = market[d])
    BY <1>3, <1>8, <1>12, NextVocabulary DEF Gathered, GatheredNewest
  <2>9. ASSUME pc \in Ingesting, NEW e \in Days, x.day < e, Gathered(e)
        PROVE  Gathered(x.day)
    <3>1. x.day \in Days /\ Has(net, x.day)
      BY <1>1 DEF Arrives
    <3>2. \A k \in Days : Known(k) => k <= x.day
      <4>1. PICK j \in DOMAIN net : net[j].day = x.day /\ net[j] # Ack
        BY <1>1, <3>1 DEF Arrives, Has
      <4>. QED
        BY <2>9, <4>1 DEF Updates, NewIsLast
    <3>3. \A k \in Days : Has(buffer, k) => k <= x.day
      BY <1>1 DEF Arrives, Has
    <3>4. Has(snapshot, e)
      <4>1. ~Known(e) /\ ~Has(buffer, e)
        <5>1. x.day \in Int /\ e \in Int
          BY <1>2, <3>1
        <5>2. ~(e <= x.day)
          BY <2>9, <5>1
        <5>. QED
          BY <3>2, <3>3, <5>2
      <4>. QED
        BY <2>9, <4>1 DEF Gathered
    <3>5. Opened(x.day, evalTime)
      <4>1. Opened(e, evalTime)
        BY <3>4 DEF Reached, Has
      <4>2. x.day \in Int /\ e \in Int
        BY <1>2, <2>9, <3>1
      <4>. QED
        BY <1>2, <2>9, <4>1, <4>2 DEF Opened
    <3>6. \A m \in Stored(repo) : m <= x.day
      BY <3>2, StoredKnown
    <3>. QED
      BY <2>9, <3>1, <3>5, <3>6 DEF Reached, Gathered
  <2>10. ASSUME GatheredFinal, pc \in Ingesting, NEW d \in Days, NEW e \in Days, d < e, Gathered(d)', Gathered(e)'
         PROVE  GatheredNewest(d)'
    <3>1. Gathered(d)
      <4>1. CASE x.day = d
        <5>1. Gathered(e)
          BY <1>2, <2>8, <2>10, <4>1
        <5>. QED
          BY <2>9, <2>10, <4>1, <5>1
      <4>. QED
        BY <2>8, <2>10, <4>1
    <3>2. CASE Gathered(e)
      BY <2>8, <2>10, <3>1, <3>2 DEF GatheredFinal
    <3>3. CASE x.day = e
      <4>1. ~Carries(net, d, market[d])
        BY <1>1, <1>2, <2>10, <3>3 DEF Arrives, Carries
      <4>. QED
        BY <1>1, <2>8, <2>10, <3>1, <4>1 DEF GatheredFinal
    <3>. QED
      BY <2>8, <2>10, <3>2, <3>3
  <2>11. ASSUME GatheredFinal, pc \in Ingesting, NEW d \in Days, Gathered(d)' \/ Has(net', d)
         PROVE  GatheredNewest(d)' \/ Carries(net', d, market[d])
    <3>1. Gathered(d) \/ Has(net, d)
      BY <1>1, <2>8, <2>11 DEF Arrives
    <3>2. GatheredNewest(d) \/ Carries(net, d, market[d])
      BY <1>1, <2>11, <3>1 DEF GatheredFinal
    <3>. QED
      BY <1>1, <2>8, <3>2 DEF Arrives
  <2>12. GatheredFinal => GatheredFinal'
    BY <1>3, <2>10, <2>11 DEF GatheredFinal
  <2>13. ASSUME AheadFollowed, AheadFinal, pc \in Fetching, NEW d \in Days, NEW e \in Days, d < e,
                ~Opened(d, evalTime), Has(buffer', d), Has(buffer', e)
         PROVE  Carries(buffer', d, market[d])
    <3>1. x.day \in Int /\ d \in Int /\ e \in Int
      BY <1>1, <1>2 DEF Arrives
    <3>2. Has(buffer, d)
      <4>1. CASE x.day = d
        <5>1. Has(buffer, e)
          BY <1>8, <2>13, <3>1, <4>1
        <5>2. e <= x.day
          BY <1>1, <5>1 DEF Arrives, Has
        <5>. QED
          BY <2>13, <3>1, <4>1, <5>2
      <4>. QED
        BY <1>8, <2>13, <4>1
    <3>3. CASE Has(buffer, e)
      BY <1>8, <2>13, <3>2, <3>3 DEF AheadFinal
    <3>4. CASE x.day = e
      <4>1. ~Carries(net, d, market[d])
        BY <1>1, <2>13, <3>1, <3>4 DEF Arrives, Carries
      <4>. QED
        BY <1>1, <1>8, <2>13, <3>2, <4>1 DEF AheadFollowed
    <3>. QED
      BY <1>8, <2>13, <3>3, <3>4
  <2>14. AheadFollowed /\ AheadFinal => AheadFinal'
    BY <1>1, <1>3, <2>13 DEF AheadFinal
  <2>. QED
    BY <2>1, <2>2, <2>3, <2>4, <2>6, <2>7, <2>12, <2>14 DEF Updates
<1>. QED
  BY <1>11, <1>14, <1>15, <1>16

\* _handle_candle finds the buffer full: the update is lost and the reader ends.
LEMMA ReceiveOverflowKeeps ==
    ASSUME FeedInv, ReceiveCandle, wsStatus' = "RECONNECTING", bgError' = TRUE, reader' = FALSE,
           UNCHANGED <<buffer, queue>>
    PROVE  FeedInv'
<1> USE DEF FeedInv
<1> DEFINE x == Head(net)
<1>1. Arrives(x) /\ pc \notin Greeting /\ pc \notin {"down", "start_dial"}
  BY ReceiveFacts
<1>2. TypeOK /\ clock \in Nat /\ net # <<>> /\ net' = Tail(net)
  BY Types DEF Shape, ReceiveCandle
<1>3. UNCHANGED <<market, clock, link, repo, queue, snapshot, evalTime, pc, flags, outrun, acked, buffering, buffer,
                  lastError, lastBackfill>>
  BY DEF ReceiveCandle
<1> HIDE DEF x
<1>4. TypeOK'
  <2>1. \A i \in DOMAIN net' : net'[i] = Ack \/ net'[i] \in [day : Days, v : Nat]
    BY <1>1, <1>2 DEF Arrives, TypeOK
  <2>. QED
    BY <1>2, <1>3, <2>1 DEF TypeOK
<1>5. Shape'
  BY <1>2, <1>3, <1>4, SameShape
<1>6. \A d : /\ (Known(d)' <=> Known(d)) /\ (KnownNewest(d)' <=> KnownNewest(d))
             /\ (Gathered(d)' <=> Gathered(d)) /\ (GatheredNewest(d)' <=> GatheredNewest(d))
  BY <1>3, SameKnown, SameGathered
<1>7. \A d : Has(net', d) => Has(net, d)
  BY <1>1 DEF Arrives
<1>8. Places'
  <2>1. RepoAsOf(repo, evalTime)'
    BY <1>3, SameAsOf DEF Places
  <2>2. \A i \in DOMAIN net' : net'[i] # Ack
    BY <1>1 DEF Arrives
  <2>3. net # <<>> => link
    BY DEF Places
  <2>. QED
    BY <1>1, <1>2, <1>3, <1>6, <2>1, <2>2, <2>3 DEF Places
<1>9. Weekly' /\ Reached'
  BY <1>3, SameWeekly, SameReached
<1>10. Updates'
  <2>1. Sound' <=> Sound
    BY <1>3 DEF Sound
  <2>2. NewIsLast'
    BY <1>1, <1>3, <1>6 DEF Updates, NewIsLast, Arrives
  <2>3. Followed' /\ AheadFollowed'
    BY DEF Followed, AheadFollowed
  <2>4. EarlierFinal => EarlierFinal'
    BY <1>6 DEF EarlierFinal
  <2>5. LateIsKnown => LateIsKnown'
    <3>1. \A d : Has(buffer', d) <=> Has(buffer, d)
      BY <1>3
    <3>. QED
      BY <1>3, <1>6, <1>7, <3>1 DEF LateIsKnown
  <2>6. GatheredFinal => GatheredFinal'
    BY <1>3, <1>6 DEF GatheredFinal
  <2>7. AheadFinal => AheadFinal'
    BY <1>3 DEF AheadFinal
  <2>. QED
    BY <2>1, <2>2, <2>3, <2>4, <2>5, <2>6, <2>7 DEF Updates
<1>. QED
  BY <1>5, <1>8, <1>9, <1>10

\* _handle_candle puts it into the queue, between calls.
LEMMA ReceiveQueuedKeeps ==
    ASSUME FeedInv, ReceiveCandle, ~buffering,
           queue' = (IF acked THEN Append(queue, ParseCandle(Head(net).day, Head(net).v, clock)) ELSE queue),
           UNCHANGED <<buffer, wsStatus, bgError, reader>>
    PROVE  FeedInv'
<1> USE DEF FeedInv
<1> DEFINE x == Head(net)
           raw == ParseCandle(x.day, x.v, clock)
<1>1. Arrives(x) /\ link /\ reader /\ pc \notin Greeting /\ pc \notin {"down", "start_dial"}
  BY ReceiveFacts
<1>2. /\ TypeOK /\ clock \in Nat /\ Days \subseteq Int /\ evalTime \in Nat
      /\ net # <<>> /\ net' = Tail(net) /\ pc \in PCs
  BY Types DEF Shape, ReceiveCandle
<1>3. UNCHANGED <<market, clock, link, repo, snapshot, evalTime, pc, flags, outrun, acked, reader, buffering, buffer,
                  bgError, wsStatus, lastError, lastBackfill>>
  BY DEF ReceiveCandle
<1>4. pc = "idle" /\ acked
  <2>1. pc \notin Calling
    BY DEF Places
  <2>2. pc = "idle"
    BY <1>1, <1>2, <2>1 DEF PCs, Calling, Dialling, Greeting, Fetching, Ingesting
  <2>. QED
    BY <1>1, <2>2 DEF Places
<1>5. raw \in Raws /\ raw.day = x.day /\ raw.v = x.v
  BY <1>1, ParsedRaw DEF Arrives
<1>6. queue' = Append(queue, raw) /\ queue \in Seq(Raws) /\ ItemsOK(queue)
  BY <1>4 DEF Shape
<1> HIDE DEF raw, x
<1>7. Grown(Raws, queue, queue', raw)
  BY <1>5, <1>6, AppendPlaces
<1>8. /\ \A d : Has(queue', d) <=> Has(queue, d) \/ x.day = d
      /\ \A d, v : Carries(queue', d, v) <=> Carries(queue, d, v) \/ (x.day = d /\ x.v = v)
  <2>1. /\ \A d : Has(Append(queue, raw), d) <=> Has(queue, d) \/ raw.day = d
        /\ \A d, v : Carries(Append(queue, raw), d, v) <=> Carries(queue, d, v) \/ (raw.day = d /\ raw.v = v)
    BY <1>5, <1>6, AppendItems
  <2>. QED
    BY <1>5, <1>6, <2>1
<1>9. /\ \A i \in DOMAIN queue' : \/ i \in DOMAIN queue /\ queue'[i] = queue[i]
                                  \/ queue'[i] = raw
      /\ queue' \in Seq(Raws)
  BY <1>7 DEF Grown
<1>10. TypeOK'
  <2>1. \A s \in {buffer', queue', snapshot'} : \A i \in DOMAIN s : s[i] \in Raws
    BY <1>2, <1>3, <1>5, <1>9, ZenonT(30) DEF TypeOK
  <2>2. \A i \in DOMAIN net' : net'[i] = Ack \/ net'[i] \in [day : Days, v : Nat]
    BY <1>1, <1>2 DEF Arrives, TypeOK
  <2>. QED
    BY <1>2, <1>3, <2>1, <2>2 DEF TypeOK
<1>11. Shape'
  <2>1. ItemsOK(queue)'
    BY <1>1, <1>3, <1>5, <1>6, <1>9 DEF ItemsOK, Arrives
  <2>2. RepoOK(repo)' /\ clock' >= clock
    BY <1>2, <1>3 DEF Shape
  <2>3. \A d \in Days : repo'.offered[d] <= market[d] /\ (repo'.offered[d] # -1 => Opened(d, clock'))
    BY <1>3 DEF Shape
  <2>. QED
    BY <1>2, <1>3, <1>9, <1>10, <2>1, <2>2, <2>3, FewerShape
<1>12. pc \notin Calling /\ pc \notin Greeting /\ pc \notin Fetching /\ pc \notin Ingesting /\ pc \notin {"down"} \cup Starting
  BY <1>4 DEF Calling, Dialling, Greeting, Fetching, Ingesting, Starting
<1>13. Places'
  <2>1. RepoAsOf(repo, evalTime)'
    BY <1>3, SameAsOf DEF Places
  <2>2. \A i \in DOMAIN net' : net'[i] # Ack
    BY <1>1 DEF Arrives
  <2>. QED
    BY <1>1, <1>3, <1>12, <2>1, <2>2 DEF Places
<1>14. Weekly' /\ Reached'
  BY <1>3, SameWeekly, SameReached
<1>15. Updates'
  <2>1. Sound' <=> Sound
    BY <1>3 DEF Sound
  <2>2. NewIsLast' /\ AheadFollowed' /\ AheadFinal' /\ GatheredFinal'
    BY <1>3, <1>12 DEF NewIsLast, AheadFollowed, AheadFinal, GatheredFinal
  <2>3. ASSUME NEW d \in Days
        PROVE  /\ Known(d)' <=> Known(d) \/ x.day = d
               /\ KnownNewest(d)' <=> KnownNewest(d) \/ (x.day = d /\ x.v = market[d])
    BY <1>3, <1>8, NextVocabulary DEF Known, KnownNewest
  <2>4. x.day \in Days /\ Has(net, x.day)
    BY <1>1 DEF Arrives
  <2>5. \A d \in Days : d < x.day => ~Has(net, d) /\ ~Has(net', d) /\ ~Carries(net, d, market[d])
    <3>1. ASSUME NEW d \in Days, d < x.day, NEW j \in DOMAIN net PROVE net[j].day # d
      <4>1. x.day <= net[j].day /\ d \in Int /\ x.day \in Int
        BY <1>1, <1>2, <2>4 DEF Arrives
      <4>. QED
        BY <3>1, <4>1
    <3>2. \A d \in Days : d < x.day => ~Has(net, d) /\ ~Carries(net, d, market[d])
      BY <3>1 DEF Has, Carries
    <3>. QED
      BY <1>1, <3>2 DEF Arrives
  <2>6. ASSUME EarlierFinal, Followed, LateIsKnown PROVE EarlierFinal'
    <3>1. SUFFICES ASSUME NEW d \in Days, NEW e \in Days, d < e, Known(d)', Known(e)'
                   PROVE  KnownNewest(d)'
      BY DEF EarlierFinal
    <3>2. Known(d)
      <4>1. CASE x.day = d
        <5>1. Known(e)
          BY <1>2, <2>3, <3>1, <4>1
        <5>. QED
          BY <1>12, <2>4, <2>6, <3>1, <4>1, <5>1 DEF LateIsKnown
      <4>. QED
        BY <2>3, <3>1, <4>1
    <3>3. CASE Known(e)
      BY <2>3, <2>6, <3>1, <3>2, <3>3 DEF EarlierFinal
    <3>4. CASE x.day = e
      <4>1. ~Carries(net, d, market[d])
        BY <2>5, <3>1, <3>4
      <4>. QED
        BY <1>1, <1>4, <2>3, <2>6, <3>2, <4>1 DEF Followed
    <3>. QED
      BY <2>3, <3>1, <3>3, <3>4
  <2>7. Followed => Followed'
    <3>1. ASSUME Followed, NEW d \in Days, Known(d)' \/ Has(net', d)
          PROVE  KnownNewest(d)' \/ Carries(net', d, market[d])
      <4>1. Known(d) \/ Has(net, d)
        BY <1>1, <2>3, <3>1 DEF Arrives
      <4>2. KnownNewest(d) \/ Carries(net, d, market[d])
        BY <1>1, <1>4, <3>1, <4>1 DEF Followed
      <4>. QED
        BY <1>1, <2>3, <4>2 DEF Arrives
    <3>. QED
      BY <1>3, <3>1 DEF Followed
  <2>8. LateIsKnown => LateIsKnown'
    <3>1. ASSUME LateIsKnown, NEW d \in Days, NEW e \in Days, d < e, Known(e)', Has(net', d) \/ Has(buffer, d)
          PROVE  Known(d)'
      <4>1. Has(net, d)
        <5>1. buffer = <<>>
          BY <1>12 DEF Places
        <5>2. ~Has(buffer, d)
          BY <5>1, EmptyItems
        <5>. QED
          BY <1>1, <3>1, <5>2 DEF Arrives
      <4>2. x.day # e
        BY <2>5, <3>1, <4>1
      <4>. QED
        BY <1>12, <2>3, <3>1, <4>1, <4>2 DEF LateIsKnown
    <3>. QED
      BY <1>3, <3>1 DEF LateIsKnown
  <2>. QED
    BY <2>1, <2>2, <2>6, <2>7, <2>8 DEF Updates
<1>. QED
  BY <1>11, <1>13, <1>14, <1>15

\* _read_once of a candle message.
LEMMA ReceiveCandleKeeps ==
    ASSUME FeedInv, ReceiveCandle
    PROVE  FeedInv'
<1>1. CASE /\ buffering /\ Len(buffer) < BufferSize
           /\ buffer' = Append(buffer, ParseCandle(Head(net).day, Head(net).v, clock))
           /\ UNCHANGED <<queue, wsStatus, bgError, reader>>
  BY <1>1, ReceiveBufferedKeeps
<1>2. CASE /\ wsStatus' = "RECONNECTING" /\ bgError' = TRUE /\ reader' = FALSE
           /\ UNCHANGED <<buffer, queue>>
  BY <1>2, ReceiveOverflowKeeps
<1>3. CASE /\ ~buffering
           /\ queue' = (IF acked THEN Append(queue, ParseCandle(Head(net).day, Head(net).v, clock)) ELSE queue)
           /\ UNCHANGED <<buffer, wsStatus, bgError, reader>>
  BY <1>3, ReceiveQueuedKeeps
<1>. QED
  BY <1>1, <1>2, <1>3 DEF ReceiveCandle, HandleCandle


-----------------------------------------------------------------------------
(* A trade.                                                                *)

\* The day that trades is the last one that has opened; its candle is one version on, and
\* the update is the last on the wire if there is one.
Traded(d0) ==
    /\ d0 \in Days /\ Opened(d0, clock)
    /\ \A e \in Days : Opened(e, clock) => e <= d0
    /\ market' \in [Days -> Nat]
    /\ market'[d0] = market[d0] + 1
    /\ \A d \in Days : d # d0 => market'[d] = market[d]
    /\ net' \in Seq({Ack} \cup [day : Days, v : Nat])
    /\ \A i \in DOMAIN net' : \/ i \in DOMAIN net /\ net'[i] = net[i]
                              \/ link /\ net'[i] = [day |-> d0, v |-> market'[d0]]
    /\ \A i, j \in DOMAIN net' : i <= j /\ j \in DOMAIN net => i \in DOMAIN net /\ net'[i] = net[i] /\ net'[j] = net[j]
    /\ \A i \in DOMAIN net' : i \notin DOMAIN net => net'[i] = [day |-> d0, v |-> market'[d0]]
    /\ \A i \in DOMAIN net' : i \in DOMAIN net => net'[i] = net[i]
    /\ \A d : Has(net', d) <=> Has(net, d) \/ (link /\ d = d0)
    /\ \A d, v : Carries(net', d, v) <=> Carries(net, d, v) \/ (link /\ d = d0 /\ v = market'[d0])
    /\ net # <<>> => net' # <<>> /\ net'[1] = net[1]
    /\ ~link => net' = net

\* What a trade changes.
LEMMA TradeFacts ==
    ASSUME FeedInv, Trade
    PROVE  \E d0 \in Days : Traded(d0)
<1> USE DEF FeedInv
<1> DEFINE Wire == {Ack} \cup [day : Days, v : Nat]
<1>1. PICK d0 \in Days :
          /\ Opened(d0, clock) /\ ~ProviderClosed(d0, clock)
          /\ market' = [market EXCEPT ![d0] = @ + 1]
          /\ net' = IF link THEN Append(net, [day |-> d0, v |-> market'[d0]]) ELSE net
  BY DEF Trade
<1> DEFINE x == [day |-> d0, v |-> market'[d0]]
<1>2. TypeOK /\ clock \in Nat /\ Days \subseteq Int /\ market \in [Days -> Nat] /\ link \in BOOLEAN /\ net \in Seq(Wire)
  BY Types DEF Shape
<1>3. \A e \in Days : Opened(e, clock) => e <= d0
  BY <1>1, <1>2 DEF Opened, ProviderClosed
<1>4. /\ market' \in [Days -> Nat] /\ market'[d0] = market[d0] + 1
      /\ \A d \in Days : d # d0 => market'[d] = market[d]
  BY <1>1, <1>2
<1>5. x \in Wire /\ x.day = d0 /\ x.v = market'[d0]
  BY <1>4
<1> HIDE DEF x, Wire
<1>6. CASE link
  <2>1. net' = Append(net, x)
    BY <1>1, <1>6 DEF x
  <2>2. Grown(Wire, net, net', x)
    BY <1>2, <1>5, <2>1, AppendPlaces
  <2>3. /\ \A d : Has(net', d) <=> Has(net, d) \/ x.day = d
        /\ \A d, v : Carries(net', d, v) <=> Carries(net, d, v) \/ (x.day = d /\ x.v = v)
    BY <1>2, <1>5, <2>1, AppendItems
  <2>4. /\ \A d : Has(net', d) <=> Has(net, d) \/ (link /\ d = d0)
        /\ \A d, v : Carries(net', d, v) <=> Carries(net, d, v) \/ (link /\ d = d0 /\ v = market'[d0])
    BY <1>5, <1>6, <2>3
  <2>5. /\ DOMAIN net = 1..Len(net) /\ DOMAIN net' = 1..(Len(net) + 1) /\ Len(net) \in Nat
        /\ \A i \in 1..Len(net) : net'[i] = net[i]
        /\ net'[Len(net) + 1] = x
    BY <1>2, <1>5, <2>1
  <2>6. \A i, j \in DOMAIN net' : i <= j /\ j \in DOMAIN net => i \in DOMAIN net /\ net'[i] = net[i] /\ net'[j] = net[j]
    BY <2>5
  <2>7. \A i \in DOMAIN net' : /\ i \notin DOMAIN net => net'[i] = x
                               /\ i \in DOMAIN net => net'[i] = net[i]
    <3>1. \A i \in 1..(Len(net) + 1) : i \in 1..Len(net) \/ i = Len(net) + 1
      BY <2>5
    <3>. QED
      BY <2>5, <3>1
  <2>8. net' \in Seq(Wire) /\ (net # <<>> => net' # <<>> /\ net'[1] = net[1])
    BY <2>2 DEF Grown
  <2>. QED
    BY <1>1, <1>3, <1>4, <1>6, <2>4, <2>6, <2>7, <2>8, ZenonT(30) DEF Traded, x, Wire
<1>7. CASE ~link
  <2>1. net' = net
    BY <1>1, <1>7
  <2>. QED
    BY <1>1, <1>2, <1>3, <1>4, <1>7, <2>1 DEF Traded, Wire
<1>. QED
  BY <1>2, <1>6, <1>7

\* A trade leaves what the program holds, and what is in flight stays in order.
LEMMA TradeKeeps ==
    ASSUME FeedInv, Trade
    PROVE  FeedInv'
<1> USE DEF FeedInv
<1>1. PICK d0 \in Days : Traded(d0)
  BY TradeFacts
<1>2. TypeOK /\ clock \in Nat /\ Days \subseteq Int /\ evalTime \in Nat /\ market \in [Days -> Nat] /\ d0 \in Int /\ d0 # 0
  BY Types DEF Shape, Days
<1>3. UNCHANGED <<clock, link, repo, snapshot, evalTime, pc, flags, outrun, acked, reader, buffering, buffer, queue,
                  bgError, wsStatus, lastError, lastBackfill>>
  BY DEF Trade, feedVars
<1> DEFINE x == [day |-> d0, v |-> market'[d0]]
<1>4. x.day = d0 /\ x.v = market'[d0] /\ x # Ack /\ x \in [day : Days, v : Nat]
  <2>1. x.day = d0 /\ x.v = market'[d0] /\ x \in [day : Days, v : Nat]
    BY <1>1 DEF Traded
  <2>2. Ack.day = 0
    BY DEF Ack
  <2>. QED
    BY <1>2, <2>1, <2>2
<1> HIDE DEF x
<1>5. \A i \in DOMAIN net' : /\ i \notin DOMAIN net => net'[i] = x
                             /\ i \in DOMAIN net => net'[i] = net[i]
  BY <1>1 DEF Traded, x
<1>6. \A d \in Days : market[d] <= market'[d]
  BY <1>1, <1>2 DEF Traded
<1>7. TypeOK'
  <2>1. \A i \in DOMAIN net' : net'[i] = Ack \/ net'[i] \in [day : Days, v : Nat]
    BY <1>2, <1>4, <1>5 DEF TypeOK
  <2>2. market' \in [Days -> Nat]
    BY <1>1 DEF Traded
  <2>. QED
    BY <1>2, <1>3, <2>1, <2>2 DEF TypeOK
<1>8. Shape'
  <2>1. RepoOK(repo)'
    BY <1>3 DEF Shape, RepoOK
  <2>2. ASSUME NEW s \in Seq(Raws), \A i \in DOMAIN s : s[i].v <= market[s[i].day] /\ Opened(s[i].day, clock),
               NEW i \in DOMAIN s
        PROVE  s[i].v <= market'[s[i].day] /\ Opened(s[i].day, clock) /\ s[i].day <= d0
    <3>1. s[i] \in Raws /\ s[i].day \in Days /\ s[i].v \in Nat
      <4>1. s[i] \in Raws
        OBVIOUS
      <4>. QED
        BY <4>1 DEF Raws
    <3>2. market[s[i].day] \in Nat /\ market'[s[i].day] \in Nat /\ market[s[i].day] <= market'[s[i].day]
      BY <1>1, <1>2, <1>6, <3>1 DEF Traded
    <3>3. s[i].v <= market[s[i].day] /\ Opened(s[i].day, clock)
      BY <2>2
    <3>4. s[i].day <= d0
      BY <1>1, <3>1, <3>3 DEF Traded
    <3>. QED
      BY <3>1, <3>2, <3>3, <3>4
  <2>3. buffer \in Seq(Raws) /\ queue \in Seq(Raws) /\ snapshot \in Seq(Raws)
    BY DEF Shape
  <2>4. ItemsOK(buffer)' /\ ItemsOK(queue)' /\ ItemsOK(snapshot)'
    BY <1>3, <2>2, <2>3 DEF Shape, ItemsOK
  <2>5. \A i \in DOMAIN buffer : buffer[i].day <= d0
    BY <2>2, <2>3 DEF Shape, ItemsOK
  <2>6. ASSUME NEW d \in Days
        PROVE  repo'.offered[d] <= market'[d] /\ (repo'.offered[d] # -1 => Opened(d, clock'))
    <3>1. repo.offered[d] \in Nat \cup {-1} /\ market[d] \in Nat /\ market'[d] \in Nat
      BY <1>1, <1>2 DEF Shape, RepoOK, Traded
    <3>2. repo.offered[d] <= market[d] /\ (repo.offered[d] # -1 => Opened(d, clock)) /\ market[d] <= market'[d]
      BY <1>6 DEF Shape
    <3>. QED
      BY <1>3, <3>1, <3>2
  <2>7. ASSUME NEW i \in DOMAIN net', net'[i] # Ack
        PROVE  net'[i].v <= market'[net'[i].day] /\ Opened(net'[i].day, clock')
    <3>1. CASE i \notin DOMAIN net
      BY <1>1, <1>3, <1>4, <1>5, <3>1 DEF Traded
    <3>2. CASE i \in DOMAIN net
      <4>1. net'[i] = net[i] /\ net[i] # Ack
        BY <1>5, <2>7, <3>2
      <4>2. net[i] \in [day : Days, v : Nat] /\ net[i].v <= market[net[i].day] /\ Opened(net[i].day, clock)
        BY <3>2, <4>1 DEF Shape, TypeOK
      <4>3. net[i].day \in Days /\ net[i].v \in Nat
        BY <4>2
      <4>4. market[net[i].day] \in Nat /\ market'[net[i].day] \in Nat /\ market[net[i].day] <= market'[net[i].day]
        BY <1>1, <1>2, <1>6, <4>3 DEF Traded
      <4>. QED
        BY <1>3, <4>1, <4>2, <4>3, <4>4
    <3>. QED
      BY <3>1, <3>2
  <2>8. \A i \in DOMAIN net' : net'[i].day <= d0
    <3>1. ASSUME NEW i \in DOMAIN net' PROVE net'[i].day <= d0
      <4>1. CASE net'[i] = Ack
        <5>1. net'[i].day = 0 /\ 1 <= d0
          BY <1>2, <4>1 DEF Ack, Days
        <5>. QED
          BY <1>2, <5>1
      <4>2. CASE net'[i] # Ack
        <5>1. Opened(net'[i].day, clock) /\ net'[i] \in [day : Days, v : Nat]
          BY <1>3, <1>7, <2>7, <4>2 DEF TypeOK
        <5>. QED
          BY <1>1, <5>1 DEF Traded
      <4>. QED
        BY <4>1, <4>2
    <3>. QED
      BY <3>1
  <2>9. Sorted(net)'
    <3>1. ASSUME NEW i \in DOMAIN net', NEW j \in DOMAIN net', i <= j PROVE net'[i].day <= net'[j].day
      <4>1. CASE j \in DOMAIN net
        BY <1>1, <3>1, <4>1 DEF Traded, Shape, Sorted
      <4>2. CASE j \notin DOMAIN net
        BY <1>4, <1>5, <2>8, <4>2
      <4>. QED
        BY <4>1, <4>2
    <3>. QED
      BY <3>1 DEF Sorted
  <2>10. Sorted(buffer)'
    BY <1>3 DEF Shape, Sorted
  <2>11. ASSUME NEW i \in DOMAIN buffer, NEW j \in DOMAIN net', net'[j] # Ack
         PROVE  buffer[i].day <= net'[j].day
    <3>1. CASE j \in DOMAIN net
      BY <1>5, <2>11, <3>1 DEF Shape
    <3>2. CASE j \notin DOMAIN net
      BY <1>4, <1>5, <2>5, <3>2
    <3>. QED
      BY <3>1, <3>2
  <2>12. net' \in Seq({Ack} \cup [day : Days, v : Nat])
    BY <1>1 DEF Traded
  <2>. QED
    BY <1>3, <1>7, <2>1, <2>3, <2>4, <2>6, <2>7, <2>9, <2>10, <2>11, <2>12 DEF Shape
<1>9. \A d : (Known(d)' <=> Known(d)) /\ (Gathered(d)' <=> Gathered(d))
  BY <1>3, SameKnown, SameGathered
<1>10. ASSUME NEW d \in Days, d # d0
       PROVE  (KnownNewest(d)' <=> KnownNewest(d)) /\ (GatheredNewest(d)' <=> GatheredNewest(d))
  <2>1. market'[d] = market[d]
    BY <1>1, <1>10 DEF Traded
  <2>2. KnownNewest(d)' <=> KnownNewest(d)
    BY <1>3, <2>1, NextVocabulary DEF KnownNewest
  <2>. QED
    BY <1>3, <2>1, <2>2, NextVocabulary DEF GatheredNewest
<1>11. Places'
  <2>1. RepoAsOf(repo, evalTime)'
    BY <1>3, SameAsOf DEF Places
  <2>2. \A i \in DOMAIN net' : net'[i] = Ack => i = 1 /\ pc \in Greeting
    BY <1>4, <1>5 DEF Places
  <2>3. (net # <<>> => net' # <<>> /\ net'[1] = net[1]) /\ (~link => net' = net)
    BY <1>1 DEF Traded
  <2>. QED
    BY <1>3, <1>9, <2>1, <2>2, <2>3 DEF Places
<1>12. Weekly' /\ Reached'
  BY <1>3, SameWeekly, SameReached
<1>13. ASSUME NEW d \in Days, NEW e \in Days, d < e, Gathered(e) PROVE d # d0
  <2>1. Opened(e, clock)
    <3>1. Known(e) => Opened(e, clock)
      BY KnownOpened
    <3>2. Has(buffer, e) \/ Has(snapshot, e) => Opened(e, clock)
      BY DEF Has, Shape, ItemsOK
    <3>. QED
      BY <1>13, <3>1, <3>2 DEF Gathered
  <2>2. e <= d0
    BY <1>1, <2>1 DEF Traded
  <2>. QED
    BY <1>2, <1>13, <2>2
<1>14. \A d, e \in Days : d < e /\ Known(e) => d # d0
  BY <1>13 DEF Gathered
<1>15. /\ \A d : Has(net', d) <=> Has(net, d) \/ (link /\ d = d0)
       /\ link => Carries(net', d0, market'[d0])
       /\ \A d, v : Carries(net, d, v) => Carries(net', d, v)
  BY <1>1 DEF Traded
<1>16. \A d \in Days : d # d0 => market'[d] = market[d]
  BY <1>1 DEF Traded
<1>17. Updates'
  <2>1. Sound' <=> Sound
    BY <1>3 DEF Sound
  <2>2. NewIsLast'
    <3>1. ASSUME pc \in Greeting \cup Fetching \cup Ingesting, NEW i \in DOMAIN net', net'[i] # Ack,
                 NEW e \in Days, Known(e)
          PROVE  e <= net'[i].day
      <4>1. CASE i \in DOMAIN net
        BY <1>5, <3>1, <4>1 DEF Updates, NewIsLast
      <4>2. CASE i \notin DOMAIN net
        <5>1. Opened(e, clock)
          BY <3>1, KnownOpened
        <5>. QED
          BY <1>1, <1>4, <1>5, <4>2, <5>1 DEF Traded
      <4>. QED
        BY <4>1, <4>2
    <3>. QED
      BY <1>3, <1>9, <3>1 DEF NewIsLast
  <2>3. EarlierFinal => EarlierFinal'
    BY <1>9, <1>14, <1>10 DEF EarlierFinal
  <2>4. Followed => Followed'
    <3>1. ASSUME Followed, pc = "idle", link, reader, NEW d \in Days, Known(d) \/ Has(net', d)
          PROVE  KnownNewest(d)' \/ Carries(net', d, market'[d])
      <4>1. CASE d = d0
        BY <1>15, <3>1, <4>1
      <4>2. CASE d # d0
        <5>1. Known(d) \/ Has(net, d)
          BY <1>15, <3>1, <4>2
        <5>2. KnownNewest(d) \/ Carries(net, d, market[d])
          BY <3>1, <5>1 DEF Followed
        <5>. QED
          BY <1>15, <1>16, <1>10, <4>2, <5>2
      <4>. QED
        BY <4>1, <4>2
    <3>. QED
      BY <1>3, <1>9, <3>1 DEF Followed
  <2>5. LateIsKnown => LateIsKnown'
    <3>1. \A d : Has(buffer', d) <=> Has(buffer, d)
      BY <1>3
    <3>2. \A d, e \in Days : d < e /\ Known(e) /\ Has(net', d) => Has(net, d)
      BY <1>14, <1>15
    <3>. QED
      BY <1>3, <1>9, <3>1, <3>2 DEF LateIsKnown
  <2>6. AheadFollowed => AheadFollowed'
    <3>1. ASSUME AheadFollowed, pc \in Greeting \cup Fetching, link, reader,
                 NEW d \in Days, ~Opened(d, evalTime), Has(buffer, d) \/ Has(net', d)
          PROVE  Carries(buffer, d, market'[d]) \/ Carries(net', d, market'[d])
      <4>1. CASE d = d0
        BY <1>15, <3>1, <4>1
      <4>2. CASE d # d0
        <5>1. Has(buffer, d) \/ Has(net, d)
          BY <1>15, <3>1, <4>2
        <5>2. Carries(buffer, d, market[d]) \/ Carries(net, d, market[d])
          BY <3>1, <5>1 DEF AheadFollowed
        <5>. QED
          BY <1>15, <1>16, <4>2, <5>2
      <4>. QED
        BY <4>1, <4>2
    <3>. QED
      BY <1>3, <3>1 DEF AheadFollowed
  <2>7. GatheredFinal => GatheredFinal'
    <3>1. ASSUME GatheredFinal, pc \in Ingesting, link, reader, NEW d \in Days, Gathered(d) \/ Has(net', d)
          PROVE  GatheredNewest(d)' \/ Carries(net', d, market'[d])
      <4>1. CASE d = d0
        BY <1>15, <3>1, <4>1
      <4>2. CASE d # d0
        <5>1. Gathered(d) \/ Has(net, d)
          BY <1>15, <3>1, <4>2
        <5>2. GatheredNewest(d) \/ Carries(net, d, market[d])
          BY <3>1, <5>1 DEF GatheredFinal
        <5>. QED
          BY <1>15, <1>16, <1>10, <4>2, <5>2
      <4>. QED
        BY <4>1, <4>2
    <3>2. ASSUME GatheredFinal, pc \in Ingesting, NEW d \in Days, NEW e \in Days, d < e, Gathered(d), Gathered(e)
          PROVE  GatheredNewest(d)'
      <4>1. GatheredNewest(d)
        BY <3>2 DEF GatheredFinal
      <4>. QED
        BY <1>13, <1>10, <3>2, <4>1
    <3>. QED
      BY <1>3, <1>9, <3>1, <3>2 DEF GatheredFinal
  <2>8. AheadFinal => AheadFinal'
    <3>1. ASSUME AheadFinal, pc \in Greeting \cup Fetching, NEW d \in Days, NEW e \in Days, d < e,
                 ~Opened(d, evalTime), Has(buffer, d), Has(buffer, e)
          PROVE  Carries(buffer, d, market'[d])
      <4>1. d # d0
        BY <1>13, <3>1 DEF Gathered
      <4>. QED
        BY <1>16, <3>1, <4>1 DEF AheadFinal
    <3>. QED
      BY <1>3, <3>1 DEF AheadFinal
  <2>. QED
    BY <2>1, <2>2, <2>3, <2>4, <2>5, <2>6, <2>7, <2>8 DEF Updates
<1>. QED
  BY <1>8, <1>11, <1>12, <1>17

-----------------------------------------------------------------------------
(* The invariant.                                                          *)

\* A step of nobody.
LEMMA StutterKeeps ==
    ASSUME FeedInv, UNCHANGED vars
    PROVE  FeedInv'
<1> USE DEF FeedInv
<1>1. UNCHANGED <<clock, market, link, net, wsStatus, acked, reader, bgError, buffering, buffer, queue, repo,
                  lastBackfill, flags, lastError, pc, evalTime, snapshot, outrun, faults>>
  BY DEF vars, feedVars
<1>2. TypeOK /\ clock \in Nat
  BY Types DEF Shape
<1>3. TypeOK'
  BY <1>1, <1>2 DEF TypeOK
<1>4. Shape'
  BY <1>1, <1>2, <1>3, SameShape
<1>5. Places'
  <2>1. \A d : Known(d)' <=> Known(d)
    BY <1>1, SameKnown
  <2>2. RepoAsOf(repo, evalTime)'
    BY <1>1, SameAsOf DEF Places
  <2>. QED
    BY <1>1, <2>1, <2>2 DEF Places
<1>6. Weekly' /\ Reached' /\ Updates'
  BY <1>1, SameWeekly, SameReached, SameUpdates
<1>. QED
  BY <1>4, <1>5, <1>6

\* start() and reconnect() go through the same steps.
LEMMA CallSteps ==
    /\ "start_dial" \in Dialling /\ "dial" \in Dialling
    /\ "start_acks" \in Greeting /\ "acks" \in Greeting
    /\ "start_fetch" \in Fetching /\ "fetch" \in Fetching
    /\ "start_ingest" \in Ingesting /\ "ingest" \in Ingesting
    /\ "dial" # "start_dial" /\ "acks" # "start_acks" /\ "fetch" # "start_fetch" /\ "ingest" # "start_ingest"
BY DEF Dialling, Greeting, Fetching, Ingesting

\* Every step keeps the invariant.
LEMMA NextKeeps ==
    ASSUME FeedInv, [Next]_vars
    PROVE  FeedInv'
<1>1. CASE Tick
  BY <1>1, TickKeeps
<1>2. CASE Trade
  BY <1>2, TradeKeeps
<1>3. CASE Cut
  BY <1>3, CutKeeps
<1>4. CASE ReaderFails
  BY <1>4, ReaderFailsKeeps
<1>5. CASE PongTimeout
  BY <1>5, PongTimeoutKeeps
<1>6. CASE ReceiveCandle
  BY <1>6, ReceiveCandleKeeps
<1>7. CASE Start
  BY <1>7, StartKeeps
<1>8. CASE Dial("start_dial", "start_acks") \/ Dial("dial", "acks")
  BY <1>8, CallSteps, DialKeeps
<1>9. CASE Acknowledged("start_acks", "start_fetch") \/ Acknowledged("acks", "fetch")
  BY <1>9, CallSteps, AcknowledgedKeeps
<1>10. CASE FetchCandles("start_fetch", "start_ingest") \/ FetchCandles("fetch", "ingest")
  BY <1>10, CallSteps, FetchKeeps
<1>11. CASE StartDone
  BY <1>11, StartDoneKeeps
<1>12. CASE Restart
  BY <1>12, RestartKeeps
<1>13. CASE Poll
  BY <1>13, PollKeeps
<1>14. CASE PollReconnects
  BY <1>14, PollReconnectsKeeps
<1>15. CASE ReconnectDone
  BY <1>15, ReconnectDoneKeeps
<1>16. CASE HandshakeFails
  BY <1>16, HandshakeFailsKeeps
<1>17. CASE BackfillFails \/ ReconnectTimesOut
  BY <1>17, ReconnectFailsKeeps
<1>18. CASE UNCHANGED vars
  BY <1>18, StutterKeeps
<1>. QED
  BY <1>1, <1>2, <1>3, <1>4, <1>5, <1>6, <1>7, <1>8, <1>9, <1>10, <1>11, <1>12, <1>13, <1>14, <1>15, <1>16, <1>17,
     <1>18 DEF Next

\* The inductive invariant of the runtime: in every reachable state, whatever the clock, the
\* exchange, the network and the faults do, the days known are known in their newest version
\* or that version is on its way over a connection that is read.
THEOREM FeedInvariant == Spec => []FeedInv
<1>1. Init => FeedInv
  BY InitHolds
<1>2. FeedInv /\ [Next]_vars => FeedInv'
  BY NextKeeps
<1>. QED
  BY <1>1, <1>2, PTL DEF Spec

-----------------------------------------------------------------------------
(* What readiness promises.                                                *)

\* The smallest of a set of numbers that has a lower bound in it.
LEMMA MinIs ==
    ASSUME NEW S, NEW m \in S, S \subseteq Int, \A x \in S : m <= x
    PROVE  Min(S) = m
<1>1. \E x \in S : \A y \in S : x <= y
  OBVIOUS
<1>2. Min(S) \in S /\ \A y \in S : Min(S) <= y
  BY <1>1 DEF Min
<1>3. Min(S) \in Int /\ m \in Int /\ Min(S) <= m /\ m <= Min(S)
  BY <1>2
<1>. QED
  BY <1>3

\* The first day is stored from the first backfill on, so a hole in the closed days is a gap.
LEMMA NoHole ==
    ASSUME FeedInv, flags.initial, DailyValid(repo, clock), NEW d \in Days, IsCandleClosed(d, clock)
    PROVE  d \in Stored(repo)
<1>1. clock \in Nat /\ Days \subseteq Int /\ 1 \in Stored(repo) /\ Stored(repo) \subseteq Days
  BY Types DEF FeedInv, Shape, Reached, Stored
<1> DEFINE closed == GetClosedBefore(repo, clock)
           due == {c \in Days : IsCandleClosed(c, clock)}
<1>2. 1 \in closed /\ closed \subseteq Days
  <2>1. 1 <= d /\ d \in Int
    BY DEF Days
  <2>2. IsCandleClosed(1, clock)
    BY <1>1, <2>1 DEF IsCandleClosed
  <2>. QED
    BY <1>1, <2>2 DEF GetClosedBefore
<1>3. closed \subseteq Int /\ \A x \in closed : 1 <= x
  BY <1>1, <1>2 DEF Days
<1> HIDE DEF closed
<1>4. Min(closed) = 1
  BY <1>2, <1>3, MinIs
<1>5. DetectGaps(due, closed) = {}
  BY DEF DailyValid, ValidateSeries, closed
<1>6. d \in {c \in due : c >= Min(closed)}
  BY <1>4 DEF Days
<1>7. d \in closed
  BY <1>5, <1>6 DEF DetectGaps
<1>. QED
  BY <1>7 DEF closed, GetClosedBefore

\* A day the last backfill reached is known when the runtime says it is ready.
LEMMA ReadyKnows ==
    ASSUME FeedInv, Readiness, NEW d \in Days, Opened(d, lastBackfill)
    PROVE  repo.offered[d] # -1
<1>1. /\ clock \in Nat /\ lastBackfill \in Nat /\ lastBackfill <= clock /\ Days \subseteq Int
      /\ flags.initial /\ DailyValid(repo, clock)
  BY Types DEF FeedInv, Shape, Readiness
<1>2. d \in Stored(repo)
  <2>1. CASE IsCandleClosed(d, clock)
    BY <1>1, <2>1, NoHole
  <2>2. CASE ~IsCandleClosed(d, clock)
    <3>1. PICK m \in Stored(repo) : m >= d
      BY <1>1 DEF FeedInv, Reached
    <3>2. m \in Days /\ repo.offered[m] # -1
      BY <3>1 DEF Stored, FeedInv, Shape, RepoOK
    <3>3. Opened(m, clock)
      BY <3>2 DEF FeedInv, Shape
    <3>4. m = d
      BY <1>1, <2>2, <3>1, <3>2, <3>3 DEF Opened, IsCandleClosed
    <3>. QED
      BY <3>1, <3>4
  <2>. QED
    BY <2>1, <2>2
<1>. QED
  BY <1>2 DEF Stored, FeedInv, Shape, RepoOK

\* The invariant gives the property.
LEMMA InvGivesReady ==
    ASSUME FeedInv
    PROVE  ReadyIsTrue
<1>1. TypeOK
  BY DEF FeedInv, Shape
<1>2. ReadyMeansWeeklyAgrees
  BY DEF FeedInv, Weekly, WeeksAgree, ReadyMeansWeeklyAgrees, Readiness
<1>3. ReadyMeansNothingMissed
  <2>1. SUFFICES ASSUME Settled, Readiness, ~outrun, NEW d \in Days, Opened(d, lastBackfill)
                 PROVE  repo.offered[d] = market[d]
    BY DEF ReadyMeansNothingMissed, NothingMissed
  <2>2. pc = "idle" /\ link /\ net = <<>> /\ queue = <<>> /\ flags.initial /\ ~bgError
    BY <2>1 DEF Settled, Readiness
  <2>3. reader
    BY <2>2 DEF FeedInv, Places
  <2>4. Followed
    BY <2>1, <2>2 DEF FeedInv, Updates, Sound
  <2>5. Known(d)
    BY <2>1, ReadyKnows DEF Known
  <2>6. KnownNewest(d) \/ Carries(net, d, market[d])
    BY <2>2, <2>3, <2>4, <2>5 DEF Followed
  <2>7. ~Carries(net, d, market[d]) /\ ~Carries(queue, d, market[d])
    BY <2>2, EmptyItems
  <2>. QED
    BY <2>6, <2>7 DEF KnownNewest
<1>. QED
  BY <1>1, <1>2, <1>3 DEF ReadyIsTrue

\* Readiness tells the truth (MarketDataRuntime.readiness), for every number of days and of
\* days in a week, every buffer and wire and every number of trades and faults: while it is
\* reported over a live connection with nothing in flight, no update of a day the last
\* backfill reached was missed, and the weekly candles are those of the daily ones.
THEOREM ReadinessIsTrue == Spec => []ReadyIsTrue
<1>1. FeedInv => ReadyIsTrue
  BY InvGivesReady
<1>. QED
  BY <1>1, FeedInvariant, PTL

-----------------------------------------------------------------------------
(* Closed candles stay.                                                    *)

\* The calls that write to the repository absorb updates.
LEMMA WritesAbsorb ==
    ASSUME FeedInv, Poll \/ StartDone \/ ReconnectDone \/ BackfillFails \/ ReconnectTimesOut
    PROVE  \E U : Absorbed(repo, repo', U)
<1> USE DEF FeedInv
<1>1. /\ clock \in Int /\ evalTime \in Int /\ evalTime <= clock
      /\ RepoOK(repo) /\ snapshot \in Seq(Raws) /\ buffer \in Seq(Raws) /\ queue \in Seq(Raws) /\ Sorted(buffer)
      /\ RepoAsOf(repo, evalTime)
  BY Types DEF Shape, Places
<1>2. CASE Poll
  <2>1. RepoAsOf(repo, clock)
    BY <1>1, AsOfLater
  <2>2. repo' = Drain(repo, clock)
    BY <1>2 DEF Poll
  <2>. QED
    BY <1>1, <2>1, <2>2, DrainAbsorbs
<1>3. CASE StartDone
  <2>1. repo' = AfterBackfill(repo)
    BY <1>3 DEF StartDone
  <2>. QED
    BY <1>1, <2>1, BackfillAbsorbs
<1>4. CASE ReconnectDone
  <2> DEFINE r == AfterBackfill(repo)
             V == Items(snapshot) \cup Items(buffer)
  <2>1. repo' = Drain(r, evalTime)
    BY <1>4 DEF ReconnectDone
  <2>2. Absorbed(repo, r, V) /\ RepoAsOf(r, evalTime)
    BY <1>1, BackfillAbsorbs
  <2>3. \A u \in V : u.v \in Int
    BY <1>1, RawItems
  <2> HIDE DEF r, V
  <2>4. RepoOK(r)
    BY <2>2 DEF Absorbed
  <2>5. Absorbed(r, repo', Items(queue))
    BY <1>1, <2>1, <2>2, <2>4, DrainAbsorbs
  <2>. QED
    BY <1>1, <2>2, <2>3, <2>5, AbsorbedTwice
<1>5. CASE BackfillFails \/ ReconnectTimesOut
  <2>1. repo' = IngestLiveRaw(repo, snapshot, evalTime)
    BY <1>5 DEF BackfillFails, ReconnectTimesOut, ReconnectFails
  <2>. QED
    BY <1>1, <2>1, IngestAbsorbs
<1>. QED
  BY <1>2, <1>3, <1>4, <1>5

\* Every step of a process keeps its closed candles.
LEMMA ClosedStepStays ==
    ASSUME FeedInv, [Next]_vars, pc' # "down", NEW d \in Days, repo.daily[d].closed
    PROVE  repo'.daily[d] = repo.daily[d]
<1>1. CASE Poll \/ StartDone \/ ReconnectDone \/ BackfillFails \/ ReconnectTimesOut
  BY <1>1, WritesAbsorb DEF Absorbed
<1>2. CASE Restart
  BY <1>2 DEF Restart, Fresh
<1>3. CASE \/ Tick \/ Trade \/ Cut \/ ReaderFails \/ PongTimeout \/ ReceiveCandle \/ Start \/ PollReconnects
           \/ HandshakeFails \/ UNCHANGED vars
  <2>1. repo' = repo
    BY <1>3 DEF Tick, Trade, Cut, ReaderFails, PongTimeout, ReceiveCandle, Start, PollReconnects, HandshakeFails,
                vars
  <2>. QED
    BY <2>1
<1>4. CASE \/ Dial("start_dial", "start_acks") \/ Dial("dial", "acks")
           \/ Acknowledged("start_acks", "start_fetch") \/ Acknowledged("acks", "fetch")
           \/ FetchCandles("start_fetch", "start_ingest") \/ FetchCandles("fetch", "ingest")
  <2>1. repo' = repo
    BY <1>4 DEF Dial, Acknowledged, FetchCandles
  <2>. QED
    BY <2>1
<1>. QED
  BY <1>1, <1>2, <1>3, <1>4 DEF Next

\* A candle stored as closed is never rewritten in the life of a process (InMemoryCandleRepository.
\* upsert_live): not by the replay of the reconnect buffer, not by a backfill that uses the
\* evaluation time of its beginning, not by a late update, in whatever order they come.
THEOREM ClosedCandlesStay == Spec => ClosedNeverRewritten
<1>1. FeedInv /\ [Next]_vars =>
          [pc' # "down" => \A d \in Days : repo.daily[d].closed => repo'.daily[d] = repo.daily[d]]_vars
  BY ClosedStepStays
<1>. QED
  BY <1>1, FeedInvariant, PTL DEF Spec, ClosedNeverRewritten

================================================================================
