------------------------ MODULE MarketEventBridgeProofs ------------------------
(***************************************************************************)
(* Proofs about MarketEventBridge, for every number of symbols, days, lows, *)
(* faults and recovery attempts, except where a theorem says "one symbol".  *)
(*                                                                          *)
(* The properties speak of the committed rows and of the detector's memory. *)
(* None is inductive: a poll works in its transaction, so the same must be  *)
(* known of the uncommitted rows (RowsOK of both), of the events the poll   *)
(* still has to process, acknowledge or fail (PollOK), and of the           *)
(* recoveries an operator started (PendingOK).                              *)
(***************************************************************************)
EXTENDS MarketEventBridge, FiniteSetTheorems, WellFoundedInduction, TLAPS

-----------------------------------------------------------------------------
(* The inductive invariant.                                                *)

Attempts == {Attempt(e, g) : e \in Originals, g \in Generations}

\* The jobs of the scheduler whose handlers see no low: all but the intraday stop.
DayNames == InnerNames \ {"INTRADAY_STOP"}

OpenEvents == {e \in Event : e.kind = "OPEN"}
ClosedEvents == {e \in Event : e.kind = "CLOSED"}

\* Only recovery attempts may be RUNNING.
OnlyAttemptsRun(t) == \A j \in Jobs : t.runs[j] = "RUNNING" => j \in Attempts

\* A handler that ran has its job completed, which is what stops a second run ...
HandledOK(t) ==
    \A n \in InnerNames, s \in Symbols, d \in Days, l \in Lows :
       /\ t.handled[<<n, s, d, l>>] \in {0, 1}
       /\ t.handled[<<n, s, d, l>>] = 1 => Succeeded(t, InnerJob(n, d))

\* ... and a completed job of a day was handled for some symbol, not for every one.
DayJobsOK(t) ==
    \A n \in DayNames, d \in Days :
       Succeeded(t, InnerJob(n, d)) => \E s \in Symbols : t.handled[<<n, s, d, 0>>] = 1

\* The order of the phases of an open, and what a completed close stands for.
PhasesOK(t) ==
    \A s \in Symbols, d \in Days :
       /\ Succeeded(t, SubJob("gap", s, d)) => Succeeded(t, InnerJob("STOP_TRIGGER", d))
       /\ Succeeded(t, SubJob("fill", s, d)) => Succeeded(t, InnerJob("NEXT_OPEN_FILL", d))
       /\ Succeeded(t, InnerJob("NEXT_OPEN_FILL", d)) =>
             Succeeded(t, InnerJob("STOP_TRIGGER", d))
       /\ Succeeded(t, OuterJob(EventOf("CLOSED", s, d, 0))) =>
             /\ Succeeded(t, InnerJob("DAILY_SIGNAL_EVALUATION", d))
             /\ Succeeded(t, InnerJob("DAILY_STOP_UPDATE", d))

\* An open with an active attempt is still PERMANENT; a resolved one had an attempt.
AttemptsOK(t) ==
    \A e \in OpenEvents :
       /\ ActiveAttempts(t, e) # {} => t.runs[OuterJob(e)] = "PERMANENT"
       /\ e \in t.resolved => \E g \in Generations : t.runs[Attempt(e, g)] # "ABSENT"

RowsOK(t) ==
    /\ t \in Tables
    /\ OnlyAttemptsRun(t) /\ HandledOK(t) /\ DayJobsOK(t) /\ PhasesOK(t) /\ AttemptsOK(t)

MemoryTyped ==
    /\ det \in [Symbols -> [openAck : Days \cup {None}, openFailed : Days \cup {None},
                            low : Lows \cup {None}, closedAck : Days \cup {None},
                            closedFailed : Days \cup {None}]]
    /\ valid \in [Symbols -> BOOLEAN]
    /\ feed \in [Symbols -> [day : Days \cup {None}, closed : BOOLEAN, low : Lows]]
    /\ clock \in 0 .. 2 * (LastDay + 1) + 1
    /\ faults \in 0 .. MaxFaults

\* A recovery in memory has its attempt in the rows, committed or not.
PendingOK ==
    /\ pending \in [Originals -> Generations \cup {None}]
    /\ \A e \in OpenEvents :
          pending[e] # None =>
             /\ db.runs[OuterJob(e)] = "PERMANENT" /\ tx.runs[OuterJob(e)] = "PERMANENT"
             /\ db.runs[Attempt(e, pending[e])] # "ABSENT"
             /\ tx.runs[Attempt(e, pending[e])] # "ABSENT"

\* What the detector remembers of an event is what the rows t say of it.
Durable(t) ==
    \A e \in Event :
       /\ e.kind = "OPEN" /\ det[e.symbol].openAck = e.day =>
             Succeeded(t, OuterJob(e)) \/ e \in t.resolved
       /\ e.kind = "CLOSED" /\ det[e.symbol].closedAck = e.day => Succeeded(t, OuterJob(e))
       /\ e.kind = "OPEN" /\ det[e.symbol].openFailed = e.day =>
             t.runs[OuterJob(e)] = "PERMANENT"
       /\ e.kind = "CLOSED" /\ det[e.symbol].closedFailed = e.day =>
             t.runs[OuterJob(e)] = "PERMANENT"

\* The events of a poll are candidates, each is still to do or done, and the rows of the
\* transaction already say of the done ones what their acknowledgement will.
PollOK ==
    /\ pollState \in {"idle", "open", "committed"}
    /\ pollState = "idle" => db = tx /\ todo = {} /\ toAck = {} /\ toFail = {}
    /\ pollState = "committed" => db = tx /\ todo = {}
    /\ todo \cup toAck \cup toFail \subseteq Candidates
    /\ todo \cap (toAck \cup toFail) = {}
    /\ \A e \in toAck :
          /\ e.kind = "OPEN" => Succeeded(tx, OuterJob(e)) \/ e \in tx.resolved
          /\ e.kind = "CLOSED" => Succeeded(tx, OuterJob(e))
    /\ \A e \in toFail : e.kind # "LIVE" => tx.runs[OuterJob(e)] = "PERMANENT"

\* A permanently failed open that no operator has recovered.
Blocked(t, e) ==
    /\ t.runs[OuterJob(e)] = "PERMANENT"
    /\ \A g \in Generations : t.runs[Attempt(e, g)] = "ABSENT"

FillMark(e) == <<"NEXT_OPEN_FILL", e.symbol, e.day, 0>>

\* The transaction leaves the fill of a blocked open alone.
BlockedStays ==
    \A e \in OpenEvents :
       Blocked(db, e) =>
          Blocked(tx, e) /\ tx.handled[FillMark(e)] = db.handled[FillMark(e)]

BridgeInv ==
    /\ RowsOK(db) /\ RowsOK(tx)
    /\ MemoryTyped /\ PendingOK /\ PollOK
    /\ Durable(db) /\ Durable(tx)
    /\ BlockedStays

--------------------------------------------------------------------------------
(* Keys and marks.                                                            *)

\* scheduler_runs keys of different families differ, and within a family they name
\* their event or job.
LEMMA FamiliesDiffer ==
    /\ \A a, b, c, d, x, y : <<a, b, c, d>> # <<x, y>>
    /\ \A a, b, c, d, x, y, z : <<a, b, c, d>> # <<x, y, z>>
    /\ \A a, b, c, d, v, w, x, y, z : <<a, b, c, d>> # <<v, w, x, y, z>>
    /\ \A a, b, c, x, y : <<a, b, c>> # <<x, y>>
    /\ \A a, b, c, v, w, x, y, z : <<a, b, c>> # <<v, w, x, y, z>>
    /\ \A a, b, v, w, x, y, z : <<a, b>> # <<v, w, x, y, z>>
OBVIOUS

\* The fields of an event.
LEMMA EventFields ==
    ASSUME NEW e \in Event
    PROVE  /\ e.kind \in {"OPEN", "CLOSED", "LIVE"}
           /\ e.symbol \in Symbols /\ e.day \in Days /\ e.low \in Lows
           /\ e.kind # "LIVE" => e.low = 0 /\ e \in Originals
           /\ e = EventOf(e.kind, e.symbol, e.day, e.low)
BY BridgeConstants DEF Event, Originals, Lows, EventOf

\* Every symbol and day has its open and its close.
LEMMA EventsExist ==
    ASSUME NEW s \in Symbols, NEW d \in Days, NEW k \in {"OPEN", "CLOSED"}
    PROVE  EventOf(k, s, d, 0) \in Event /\ EventOf(k, s, d, 0) \in Originals
BY DEF Event, Originals, EventOf

\* The originals are opens and closes.
LEMMA OriginalsAreEvents == \A e \in Originals : e \in Event /\ e.kind \in {"OPEN", "CLOSED"}
BY DEF Originals

\* Every job of an event is a job.
LEMMA JobsTyped ==
    /\ \A e \in Event : OuterJob(e) \in Jobs
    /\ \A n \in {"gap", "fill"}, s \in Symbols, d \in Days : SubJob(n, s, d) \in Jobs
    /\ \A n \in InnerNames, d \in Days : InnerJob(n, d) \in Jobs
    /\ \A e \in Originals, g \in Generations : Attempt(e, g) \in Jobs
BY DEF Jobs

\* The outer job of an event is that of no other event, and no other kind of job.
LEMMA OuterJobs ==
    ASSUME NEW e \in Event
    PROVE  /\ \A f \in Event : OuterJob(f) = OuterJob(e) => f = e
           /\ \A n, s, d : OuterJob(e) # SubJob(n, s, d)
           /\ \A n, d : OuterJob(e) # InnerJob(n, d)
           /\ \A f, g : OuterJob(e) # Attempt(f, g)
<1>1. \A f \in Event : OuterJob(f) = OuterJob(e) => f = e
  <2>1. SUFFICES ASSUME NEW f \in Event, OuterJob(f) = OuterJob(e) PROVE f = e
    OBVIOUS
  <2>2. /\ f.kind = e.kind /\ f.symbol = e.symbol /\ f.day = e.day /\ f.low = e.low
    BY <2>1 DEF OuterJob
  <2>. QED
    BY <2>1, <2>2, EventFields DEF EventOf
<1>. QED
  BY <1>1, FamiliesDiffer DEF OuterJob, SubJob, InnerJob, Attempt

\* A subjob names its phase, symbol and day, and is neither a scheduler job nor an attempt.
LEMMA SubJobs ==
    /\ \A n, s, d, m, p, c : SubJob(n, s, d) = SubJob(m, p, c) => n = m /\ s = p /\ d = c
    /\ \A n, s, d, m, c : SubJob(n, s, d) # InnerJob(m, c)
    /\ \A n, s, d, f, g : SubJob(n, s, d) # Attempt(f, g)
BY FamiliesDiffer DEF SubJob, InnerJob, Attempt

\* A scheduler job names its work and its day, not the symbol, and is no attempt.
LEMMA InnerJobs ==
    /\ \A n, d, m, c : InnerJob(n, d) = InnerJob(m, c) => n = m /\ d = c
    /\ \A n, d, f, g : InnerJob(n, d) # Attempt(f, g)
BY FamiliesDiffer DEF InnerJob, Attempt

\* A recovery attempt names its event and its generation.
LEMMA AttemptJobs ==
    ASSUME NEW e \in Originals, NEW f \in Originals, NEW g, NEW h,
           Attempt(e, g) = Attempt(f, h)
    PROVE  e = f /\ g = h
<1>1. e.kind = f.kind /\ e.symbol = f.symbol /\ e.day = f.day /\ g = h
  BY DEF Attempt
<1>2. e.low = 0 /\ f.low = 0 /\ e \in Event /\ f \in Event
  BY OriginalsAreEvents, EventFields
<1>. QED
  BY <1>1, <1>2, EventFields DEF EventOf

\* A mark names the work, the symbol, the day and the low.
LEMMA Marks ==
    /\ \A n \in InnerNames, s \in Symbols, d \in Days, l \in Lows : <<n, s, d, l>> \in Work
    /\ \A w \in Work : \E n \in InnerNames, s \in Symbols, d \in Days, l \in Lows :
                          w = <<n, s, d, l>>
    /\ \A n, s, d, l, m, p, c, k :
          <<n, s, d, l>> = <<m, p, c, k>> => n = m /\ s = p /\ d = c /\ l = k
BY DEF Work

\* The work that is keyed by the day alone, and the work that has a low.
LEMMA Names ==
    /\ "STOP_TRIGGER" \in DayNames /\ "NEXT_OPEN_FILL" \in DayNames
    /\ "DAILY_SIGNAL_EVALUATION" \in DayNames /\ "DAILY_STOP_UPDATE" \in DayNames
    /\ "INTRADAY_STOP" \in InnerNames
    /\ \A n \in DayNames : n \in InnerNames
    /\ 0 \in Lows
BY BridgeConstants DEF DayNames, InnerNames, Lows

\* get_active_recovery_attempt finds the newest active generation when there is one.
LEMMA NewestAttempt ==
    ASSUME NEW A, A \subseteq Generations, A # {}
    PROVE  (CHOOSE g \in A : \A h \in A : h <= g) \in A
<1> DEFINE D == {m \in Nat : \E i \in A : m = MaxGeneration - i}
<1>1. MaxGeneration \in Nat /\ A \subseteq 1 .. MaxGeneration
  BY BridgeConstants DEF Generations
<1>2. D \subseteq Nat /\ D # {}
  <2>1. PICK i \in A : TRUE
    OBVIOUS
  <2>2. MaxGeneration - i \in Nat
    BY <1>1
  <2>3. MaxGeneration - i \in D
    BY <2>2
  <2>. QED
    BY <2>3
<1>3. PICK d \in D : \A e \in D : ~ (<<e, d>> \in OpToRel(<, Nat))
  BY <1>2, WFMin, NatLessThanWellFounded, Zenon
<1>4. \A e \in D : ~ (e < d)
  BY <1>2, <1>3 DEF OpToRel
<1>5. \E g \in A : \A h \in A : h <= g
  <2>1. PICK g \in A : d = MaxGeneration - g
    OBVIOUS
  <2>2. ASSUME NEW h \in A PROVE h <= g
    <3>1. MaxGeneration - h \in D
      BY <1>1
    <3> HIDE DEF D
    <3>2. ~ (MaxGeneration - h < MaxGeneration - g)
      BY <1>4, <3>1, <2>1
    <3>. QED
      BY <3>2, <2>1, <1>1
  <2>. QED
    BY <2>2
<1>. QED
  BY <1>5

--------------------------------------------------------------------------------
(* What the operations on scheduler_runs do to the rows.                      *)

\* The statuses of a run.
LEMMA Statuses ==
    /\ "ABSENT" \in RunStatus /\ "RUNNING" \in RunStatus /\ "COMPLETED" \in RunStatus
    /\ "FAILED" \in RunStatus /\ "PERMANENT" \in RunStatus /\ "SKIPPED" \in RunStatus
BY DEF RunStatus

\* What set_run writes.
LEMMA SetRunIs ==
    ASSUME NEW t \in Tables, NEW j \in Jobs, NEW st \in RunStatus
    PROVE  /\ SetRun(t, j, st) \in Tables
           /\ SetRun(t, j, st).runs[j] = st
           /\ \A k \in Jobs : k # j => SetRun(t, j, st).runs[k] = t.runs[k]
           /\ SetRun(t, j, st).resolved = t.resolved
           /\ SetRun(t, j, st).handled = t.handled
           /\ SetRun(t, j, st).backoff = t.backoff
BY DEF SetRun, Tables

\* Nothing but the runs, the marks and the resolutions matters.
LEMMA SameRows ==
    ASSUME NEW t, NEW u \in Tables, RowsOK(t),
           u.runs = t.runs, u.resolved = t.resolved, u.handled = t.handled
    PROVE  RowsOK(u)
BY DEF RowsOK, OnlyAttemptsRun, HandledOK, DayJobsOK, PhasesOK, AttemptsOK, Succeeded,
       ActiveAttempts

\* The marks agree with the scheduler's jobs as long as both stay.
LEMMA MarksKept ==
    ASSUME NEW t, RowsOK(t), NEW u, u.handled = t.handled,
           \A n \in InnerNames, d \in Days : u.runs[InnerJob(n, d)] = t.runs[InnerJob(n, d)]
    PROVE  HandledOK(u) /\ DayJobsOK(u)
<1>1. HandledOK(t) /\ DayJobsOK(t)
  BY DEF RowsOK
<1>2. \A n \in InnerNames, d \in Days : Succeeded(t, InnerJob(n, d)) =>
                                         Succeeded(u, InnerJob(n, d))
  BY DEF Succeeded
<1>3. HandledOK(u)
  BY <1>1, <1>2 DEF HandledOK
<1>4. DayJobsOK(u)
  BY <1>1, Names DEF DayJobsOK, Succeeded
<1>. QED
  BY <1>3, <1>4

\* A run of an event changes hands between the events' own outcomes.
LEMMA OuterSet ==
    ASSUME NEW t, RowsOK(t), NEW e \in Event, NEW st \in RunStatus \ {"RUNNING"},
           e.kind = "OPEN" /\ st # "PERMANENT" => ActiveAttempts(t, e) = {},
           e.kind = "CLOSED" /\ st = "COMPLETED" =>
              /\ Succeeded(t, InnerJob("DAILY_SIGNAL_EVALUATION", e.day))
              /\ Succeeded(t, InnerJob("DAILY_STOP_UPDATE", e.day))
    PROVE  RowsOK(SetRun(t, OuterJob(e), st))
<1>1. PICK u : u = SetRun(t, OuterJob(e), st)
  OBVIOUS
<1>2. t \in Tables /\ OuterJob(e) \in Jobs
  BY JobsTyped DEF RowsOK
<1>3. /\ u \in Tables /\ u.runs[OuterJob(e)] = st
      /\ \A k \in Jobs : k # OuterJob(e) => u.runs[k] = t.runs[k]
      /\ u.resolved = t.resolved /\ u.handled = t.handled
  BY <1>1, <1>2, SetRunIs
<1>4. /\ \A f \in Event : f # e => u.runs[OuterJob(f)] = t.runs[OuterJob(f)]
      /\ \A n \in {"gap", "fill"}, s \in Symbols, d \in Days :
            u.runs[SubJob(n, s, d)] = t.runs[SubJob(n, s, d)]
      /\ \A n \in InnerNames, d \in Days : u.runs[InnerJob(n, d)] = t.runs[InnerJob(n, d)]
      /\ \A f \in Originals, g \in Generations :
            u.runs[Attempt(f, g)] = t.runs[Attempt(f, g)]
  BY <1>3, JobsTyped, OuterJobs
<1>5. OnlyAttemptsRun(u)
  BY <1>3 DEF RowsOK, OnlyAttemptsRun
<1>6. HandledOK(u) /\ DayJobsOK(u)
  BY <1>3, <1>4, MarksKept
<1>7. PhasesOK(u)
  <2>1. SUFFICES ASSUME NEW s \in Symbols, NEW d \in Days,
                        Succeeded(u, OuterJob(EventOf("CLOSED", s, d, 0)))
                 PROVE  /\ Succeeded(u, InnerJob("DAILY_SIGNAL_EVALUATION", d))
                        /\ Succeeded(u, InnerJob("DAILY_STOP_UPDATE", d))
    BY <1>4, Names DEF RowsOK, PhasesOK, Succeeded
  <2>2. CASE EventOf("CLOSED", s, d, 0) = e
    <3>1. e.kind = "CLOSED" /\ e.day = d
      BY <2>2 DEF EventOf
    <3>. QED
      BY <3>1, <2>1, <2>2, <1>3, <1>4, Names DEF Succeeded
  <2>3. CASE EventOf("CLOSED", s, d, 0) # e
    BY <2>1, <2>3, <1>4, Names, EventsExist DEF RowsOK, PhasesOK, Succeeded
  <2>. QED
    BY <2>2, <2>3
<1>8. AttemptsOK(u)
  <2>1. SUFFICES ASSUME NEW f \in OpenEvents
                 PROVE  /\ ActiveAttempts(u, f) # {} => u.runs[OuterJob(f)] = "PERMANENT"
                        /\ f \in u.resolved =>
                              \E g \in Generations : u.runs[Attempt(f, g)] # "ABSENT"
    BY DEF AttemptsOK
  <2>2. f \in Event /\ f \in Originals /\ f.kind = "OPEN"
    BY EventFields DEF OpenEvents
  <2>3. ActiveAttempts(u, f) = ActiveAttempts(t, f)
    BY <2>2, <1>4 DEF ActiveAttempts
  <2>4. f \in u.resolved => \E g \in Generations : u.runs[Attempt(f, g)] # "ABSENT"
    BY <2>2, <1>3, <1>4 DEF RowsOK, AttemptsOK
  <2>5. ActiveAttempts(u, f) # {} => u.runs[OuterJob(f)] = "PERMANENT"
    BY <2>2, <2>3, <1>3, <1>4 DEF RowsOK, AttemptsOK
  <2>. QED
    BY <2>4, <2>5
<1>. QED
  BY <1>1, <1>3, <1>5, <1>6, <1>7, <1>8 DEF RowsOK

\* A recovery attempt of an open exists only while the open is PERMANENT.
LEMMA AttemptSet ==
    ASSUME NEW t, RowsOK(t), NEW e \in Originals, NEW g \in Generations,
           NEW st \in RunStatus \ {"ABSENT"},
           e.kind = "OPEN" => t.runs[OuterJob(e)] = "PERMANENT"
    PROVE  RowsOK(SetRun(t, Attempt(e, g), st))
<1>1. PICK u : u = SetRun(t, Attempt(e, g), st)
  OBVIOUS
<1>2. t \in Tables /\ Attempt(e, g) \in Jobs /\ Attempt(e, g) \in Attempts
  BY JobsTyped DEF RowsOK, Attempts
<1>3. /\ u \in Tables /\ u.runs[Attempt(e, g)] = st
      /\ \A k \in Jobs : k # Attempt(e, g) => u.runs[k] = t.runs[k]
      /\ u.resolved = t.resolved /\ u.handled = t.handled
  BY <1>1, <1>2, SetRunIs
<1>4. /\ \A f \in Event : u.runs[OuterJob(f)] = t.runs[OuterJob(f)]
      /\ \A n \in {"gap", "fill"}, s \in Symbols, d \in Days :
            u.runs[SubJob(n, s, d)] = t.runs[SubJob(n, s, d)]
      /\ \A n \in InnerNames, d \in Days : u.runs[InnerJob(n, d)] = t.runs[InnerJob(n, d)]
  BY <1>3, JobsTyped, OuterJobs, SubJobs, InnerJobs
<1>5. OnlyAttemptsRun(u)
  BY <1>2, <1>3 DEF RowsOK, OnlyAttemptsRun
<1>6. HandledOK(u) /\ DayJobsOK(u)
  BY <1>3, <1>4, MarksKept
<1>7. PhasesOK(u)
  BY <1>4, Names, EventsExist DEF RowsOK, PhasesOK, Succeeded
<1>8. AttemptsOK(u)
  <2>1. SUFFICES ASSUME NEW f \in OpenEvents
                 PROVE  /\ ActiveAttempts(u, f) # {} => u.runs[OuterJob(f)] = "PERMANENT"
                        /\ f \in u.resolved =>
                              \E h \in Generations : u.runs[Attempt(f, h)] # "ABSENT"
    BY DEF AttemptsOK
  <2>2. f \in Event /\ f \in Originals /\ f.kind = "OPEN"
    BY EventFields DEF OpenEvents
  <2>3. \A h \in Generations : \/ u.runs[Attempt(f, h)] = t.runs[Attempt(f, h)]
                               \/ f = e /\ u.runs[Attempt(f, h)] # "ABSENT"
    BY <1>3, <2>2, AttemptJobs, JobsTyped
  <2>4. f \in u.resolved => \E h \in Generations : u.runs[Attempt(f, h)] # "ABSENT"
    BY <2>3, <1>3 DEF RowsOK, AttemptsOK
  <2>5. ActiveAttempts(u, f) # {} => u.runs[OuterJob(f)] = "PERMANENT"
    BY <2>2, <2>3, <1>4 DEF RowsOK, AttemptsOK, ActiveAttempts
  <2>. QED
    BY <2>4, <2>5
<1>. QED
  BY <1>1, <1>3, <1>5, <1>6, <1>7, <1>8 DEF RowsOK

\* Resolving an open that has an attempt.
LEMMA ResolvedSet ==
    ASSUME NEW t, RowsOK(t), NEW e \in Originals,
           e.kind = "OPEN" => \E g \in Generations : t.runs[Attempt(e, g)] # "ABSENT"
    PROVE  RowsOK([t EXCEPT !.resolved = @ \cup {e}])
<1>1. PICK u : u = [t EXCEPT !.resolved = @ \cup {e}]
  OBVIOUS
<1>2. u \in Tables /\ u.runs = t.runs /\ u.handled = t.handled
      /\ u.resolved = t.resolved \cup {e}
  BY <1>1 DEF RowsOK, Tables
<1>. QED
  BY <1>1, <1>2 DEF RowsOK, OnlyAttemptsRun, HandledOK, DayJobsOK, PhasesOK, AttemptsOK,
     Succeeded, ActiveAttempts, OpenEvents

Phases == {<<"gap", "STOP_TRIGGER">>, <<"fill", "NEXT_OPEN_FILL">>}

\* A subjob of an open completes only around its scheduler job.
LEMMA SubSet ==
    ASSUME NEW t, RowsOK(t), NEW sub, NEW name, <<sub, name>> \in Phases,
           NEW s \in Symbols, NEW d \in Days, NEW st \in {"COMPLETED", "FAILED"},
           st = "COMPLETED" => Succeeded(t, InnerJob(name, d))
    PROVE  RowsOK(SetRun(t, SubJob(sub, s, d), st))
<1>1. PICK u : u = SetRun(t, SubJob(sub, s, d), st)
  OBVIOUS
<1>2. t \in Tables /\ SubJob(sub, s, d) \in Jobs /\ st \in RunStatus
  BY JobsTyped DEF RowsOK, Phases, RunStatus
<1>3. /\ u \in Tables /\ u.runs[SubJob(sub, s, d)] = st
      /\ \A k \in Jobs : k # SubJob(sub, s, d) => u.runs[k] = t.runs[k]
      /\ u.resolved = t.resolved /\ u.handled = t.handled
  BY <1>1, <1>2, SetRunIs
<1>4. /\ \A f \in Event : u.runs[OuterJob(f)] = t.runs[OuterJob(f)]
      /\ \A n \in InnerNames, c \in Days : u.runs[InnerJob(n, c)] = t.runs[InnerJob(n, c)]
      /\ \A f \in Originals, g \in Generations :
            u.runs[Attempt(f, g)] = t.runs[Attempt(f, g)]
      /\ \A n \in {"gap", "fill"}, p \in Symbols, c \in Days :
            \/ u.runs[SubJob(n, p, c)] = t.runs[SubJob(n, p, c)]
            \/ n = sub /\ c = d /\ u.runs[SubJob(n, p, c)] = st
  BY <1>3, JobsTyped, OuterJobs, SubJobs, InnerJobs
<1>5. OnlyAttemptsRun(u)
  BY <1>2, <1>3 DEF RowsOK, OnlyAttemptsRun
<1>6. HandledOK(u) /\ DayJobsOK(u)
  BY <1>3, <1>4, MarksKept
<1>7. PhasesOK(u)
  <2>1. \A m \in InnerNames, c \in Days :
           Succeeded(u, InnerJob(m, c)) <=> Succeeded(t, InnerJob(m, c))
    BY <1>4 DEF Succeeded
  <2>2. \A c \in Days : Succeeded(u, OuterJob(EventOf("CLOSED", s, c, 0)))
                           <=> Succeeded(t, OuterJob(EventOf("CLOSED", s, c, 0)))
    BY <1>4, EventsExist DEF Succeeded
  <2>3. (sub = "gap" /\ name = "STOP_TRIGGER") \/ (sub = "fill" /\ name = "NEXT_OPEN_FILL")
    BY DEF Phases
  <2>4. \A p \in Symbols, c \in Days :
           /\ Succeeded(u, SubJob("gap", p, c)) => Succeeded(u, InnerJob("STOP_TRIGGER", c))
           /\ Succeeded(u, SubJob("fill", p, c)) => Succeeded(u, InnerJob("NEXT_OPEN_FILL", c))
    BY <1>4, <2>1, <2>3, Names DEF RowsOK, PhasesOK, Succeeded
  <2>. QED
    BY <1>4, <2>1, <2>4, Names, EventsExist DEF RowsOK, PhasesOK, Succeeded
<1>8. AttemptsOK(u)
  BY <1>3, <1>4, EventFields DEF RowsOK, AttemptsOK, ActiveAttempts, OpenEvents
<1>. QED
  BY <1>1, <1>3, <1>5, <1>6, <1>7, <1>8 DEF RowsOK

\* run_job: a completed job stays so, its handler runs for one symbol and one low.
LEMMA RunJobRows ==
    ASSUME NEW t, RowsOK(t), NEW name \in InnerNames, NEW e \in Event, NEW ok \in BOOLEAN,
           name \in DayNames => e.low = 0,
           name = "NEXT_OPEN_FILL" => Succeeded(t, InnerJob("STOP_TRIGGER", e.day))
    PROVE  /\ RowsOK(RunJob(t, name, e, ok))
           /\ \A k \in Jobs : k # InnerJob(name, e.day) =>
                                 RunJob(t, name, e, ok).runs[k] = t.runs[k]
           /\ \A k \in Jobs : Succeeded(t, k) => Succeeded(RunJob(t, name, e, ok), k)
           /\ ok => Succeeded(RunJob(t, name, e, ok), InnerJob(name, e.day))
           /\ RunJob(t, name, e, ok).resolved = t.resolved
           /\ \A w \in Work : w # <<name, e.symbol, e.day, e.low>> =>
                                 RunJob(t, name, e, ok).handled[w] = t.handled[w]
<1>1. PICK j : j = InnerJob(name, e.day)
  OBVIOUS
<1>2. PICK u : u = RunJob(t, name, e, ok)
  OBVIOUS
<1>3. PICK w : w = <<name, e.symbol, e.day, e.low>>
  OBVIOUS
<1>4. /\ t \in Tables /\ j \in Jobs /\ w \in Work
      /\ e.symbol \in Symbols /\ e.day \in Days /\ e.low \in Lows
  BY <1>1, <1>3, EventFields, JobsTyped, Marks DEF RowsOK
<1>5. CASE Succeeded(t, j)
  <2>1. u = t
    BY <1>1, <1>2, <1>5 DEF RunJob
  <2>. QED
    BY <2>1, <1>1, <1>2, <1>3, <1>5
<1>6. CASE ~Succeeded(t, j) /\ ~ok
  <2>1. u = SetRun(t, j, "FAILED")
    BY <1>1, <1>2, <1>6 DEF RunJob
  <2>2. /\ u \in Tables /\ u.runs[j] = "FAILED"
        /\ \A k \in Jobs : k # j => u.runs[k] = t.runs[k]
        /\ u.resolved = t.resolved /\ u.handled = t.handled
    <3>1. PICK st \in RunStatus : st = "FAILED"
      BY Statuses
    <3>2. u = SetRun(t, j, st)
      BY <3>1, <2>1
    <3>. QED
      BY <3>1, <3>2, <1>4, SetRunIs
  <2>3. \A k \in Jobs : Succeeded(t, k) <=> Succeeded(u, k)
    BY <2>2, <1>6 DEF Succeeded
  <2>4. /\ \A f \in Event : u.runs[OuterJob(f)] = t.runs[OuterJob(f)]
        /\ \A f \in Originals, g \in Generations :
              u.runs[Attempt(f, g)] = t.runs[Attempt(f, g)]
    BY <1>1, <2>2, JobsTyped, OuterJobs, InnerJobs
  <2>5. OnlyAttemptsRun(u)
    BY <2>2 DEF RowsOK, OnlyAttemptsRun
  <2>6. HandledOK(u)
    BY <2>2, <2>3, JobsTyped DEF RowsOK, HandledOK
  <2>7. DayJobsOK(u)
    BY <2>2, <2>3, JobsTyped, Names DEF RowsOK, DayJobsOK
  <2>8. PhasesOK(u)
    <3>1. PhasesOK(t)
      BY DEF RowsOK
    <3>. QED
      BY <3>1, <2>3, JobsTyped, Names, EventsExist DEF PhasesOK
  <2>9. AttemptsOK(u)
    BY <2>2, <2>4, EventFields DEF RowsOK, AttemptsOK, ActiveAttempts, OpenEvents
  <2>10. RowsOK(u)
    BY <2>2, <2>5, <2>6, <2>7, <2>8, <2>9 DEF RowsOK
  <2>. QED
    BY <2>2, <2>3, <2>10, <1>1, <1>2, <1>6
<1>7. CASE ~Succeeded(t, j) /\ ok
  <2>1. t.handled[w] = 0
    BY <1>1, <1>3, <1>4, <1>7 DEF RowsOK, HandledOK
  <2>2. u = [SetRun(t, j, "COMPLETED") EXCEPT !.handled[w] = IF @ < 2 THEN @ + 1 ELSE @]
    BY <1>1, <1>2, <1>3, <1>7 DEF RunJob
  <2>3. /\ u \in Tables /\ u.runs[j] = "COMPLETED"
        /\ \A k \in Jobs : k # j => u.runs[k] = t.runs[k]
        /\ u.resolved = t.resolved
        /\ u.handled[w] = 1 /\ \A v \in Work : v # w => u.handled[v] = t.handled[v]
    <3>1. PICK v : v = SetRun(t, j, "COMPLETED")
      OBVIOUS
    <3>2. /\ v \in Tables /\ v.runs[j] = "COMPLETED"
          /\ \A k \in Jobs : k # j => v.runs[k] = t.runs[k]
          /\ v.resolved = t.resolved /\ v.handled = t.handled
      <4>1. PICK st \in RunStatus : st = "COMPLETED"
        BY Statuses
      <4>2. v = SetRun(t, j, st)
        BY <4>1, <3>1
      <4>. QED
        BY <4>1, <4>2, <1>4, SetRunIs
    <3>3. u = [v EXCEPT !.handled[w] = IF @ < 2 THEN @ + 1 ELSE @]
      BY <2>2, <3>1
    <3>4. /\ u.runs = v.runs /\ u.resolved = v.resolved /\ u.backoff = v.backoff
          /\ u.handled = [v.handled EXCEPT ![w] = 1]
      BY <3>2, <3>3, <2>1, <1>4 DEF Tables
    <3>5. u \in Tables
      BY <3>2, <3>3, <2>1, <1>4 DEF Tables
    <3>. QED
      BY <3>2, <3>4, <3>5, <1>4 DEF Tables
  <2>4. \A k \in Jobs : /\ Succeeded(t, k) => Succeeded(u, k)
                        /\ Succeeded(u, k) => Succeeded(t, k) \/ k = j
    BY <2>3 DEF Succeeded
  <2>5. /\ \A f \in Event : u.runs[OuterJob(f)] = t.runs[OuterJob(f)]
        /\ \A f \in Originals, g \in Generations :
              u.runs[Attempt(f, g)] = t.runs[Attempt(f, g)]
        /\ \A n \in {"gap", "fill"}, s \in Symbols, d \in Days :
              u.runs[SubJob(n, s, d)] = t.runs[SubJob(n, s, d)]
    BY <1>1, <2>3, JobsTyped, OuterJobs, InnerJobs, SubJobs
  <2>6. OnlyAttemptsRun(u)
    BY <2>3 DEF RowsOK, OnlyAttemptsRun
  <2>7. HandledOK(u)
    <3>1. SUFFICES ASSUME NEW n \in InnerNames, NEW s \in Symbols, NEW d \in Days,
                          NEW l \in Lows
                   PROVE  /\ u.handled[<<n, s, d, l>>] \in {0, 1}
                          /\ u.handled[<<n, s, d, l>>] = 1 => Succeeded(u, InnerJob(n, d))
      BY DEF HandledOK
    <3>2. CASE <<n, s, d, l>> = w
      <4>1. n = name /\ d = e.day
        BY <3>2, <1>3
      <4>. QED
        BY <4>1, <3>2, <2>3, <1>1 DEF Succeeded
    <3>3. CASE <<n, s, d, l>> # w
      <4>1. u.handled[<<n, s, d, l>>] = t.handled[<<n, s, d, l>>]
        BY <3>3, <2>3, Marks
      <4>2. HandledOK(t) /\ InnerJob(n, d) \in Jobs
        BY JobsTyped DEF RowsOK
      <4>. QED
        BY <4>1, <4>2, <2>4 DEF HandledOK
    <3>. QED
      BY <3>2, <3>3
  <2>8. DayJobsOK(u)
    <3>1. SUFFICES ASSUME NEW n \in DayNames, NEW d \in Days, Succeeded(u, InnerJob(n, d))
                   PROVE  \E s \in Symbols : u.handled[<<n, s, d, 0>>] = 1
      BY DEF DayJobsOK
    <3>2. InnerJob(n, d) \in Jobs /\ n \in InnerNames
      BY JobsTyped, Names
    <3>3. CASE InnerJob(n, d) = j
      <4>1. n = name /\ d = e.day /\ e.low = 0
        BY <3>3, <1>1, InnerJobs
      <4>2. u.handled[<<n, e.symbol, d, 0>>] = 1
        BY <4>1, <2>3, <1>3
      <4>. QED
        BY <4>2, <1>4
    <3>4. CASE InnerJob(n, d) # j
      <4>1. Succeeded(t, InnerJob(n, d))
        BY <3>1, <3>2, <3>4, <2>4
      <4>2. PICK s \in Symbols : t.handled[<<n, s, d, 0>>] = 1
        BY <4>1 DEF RowsOK, DayJobsOK
      <4>3. <<n, s, d, 0>> # w
        BY <4>2, <2>1
      <4>. QED
        BY <4>2, <4>3, <3>2, <2>3, Marks, Names
    <3>. QED
      BY <3>3, <3>4
  <2>9. PhasesOK(u)
    <3>1. PhasesOK(t)
      BY DEF RowsOK
    <3>2. SUFFICES ASSUME NEW s \in Symbols, NEW d \in Days
          PROVE /\ Succeeded(u, SubJob("gap", s, d)) => Succeeded(u, InnerJob("STOP_TRIGGER", d))
                /\ Succeeded(u, SubJob("fill", s, d)) =>
                      Succeeded(u, InnerJob("NEXT_OPEN_FILL", d))
                /\ Succeeded(u, InnerJob("NEXT_OPEN_FILL", d)) =>
                      Succeeded(u, InnerJob("STOP_TRIGGER", d))
                /\ Succeeded(u, OuterJob(EventOf("CLOSED", s, d, 0))) =>
                      /\ Succeeded(u, InnerJob("DAILY_SIGNAL_EVALUATION", d))
                      /\ Succeeded(u, InnerJob("DAILY_STOP_UPDATE", d))
      BY DEF PhasesOK
    <3>3. /\ Succeeded(u, SubJob("gap", s, d)) => Succeeded(t, SubJob("gap", s, d))
          /\ Succeeded(u, SubJob("fill", s, d)) => Succeeded(t, SubJob("fill", s, d))
          /\ Succeeded(u, OuterJob(EventOf("CLOSED", s, d, 0))) =>
                Succeeded(t, OuterJob(EventOf("CLOSED", s, d, 0)))
      BY <2>5, EventsExist DEF Succeeded
    <3>4. \A n \in InnerNames : Succeeded(t, InnerJob(n, d)) => Succeeded(u, InnerJob(n, d))
      BY <2>4, JobsTyped
    <3>5. Succeeded(u, InnerJob("NEXT_OPEN_FILL", d)) =>
             \/ Succeeded(t, InnerJob("NEXT_OPEN_FILL", d))
             \/ name = "NEXT_OPEN_FILL" /\ d = e.day
      BY <2>4, <1>1, JobsTyped, InnerJobs, Names
    <3>. QED
      BY <3>1, <3>3, <3>4, <3>5, Names DEF PhasesOK
  <2>10. AttemptsOK(u)
    BY <2>3, <2>5, EventFields DEF RowsOK, AttemptsOK, ActiveAttempts, OpenEvents
  <2>11. RowsOK(u)
    BY <2>3, <2>6, <2>7, <2>8, <2>9, <2>10 DEF RowsOK
  <2>. QED
    BY <2>3, <2>4, <2>11, <1>1, <1>2, <1>3 DEF Succeeded
<1>. QED
  BY <1>5, <1>6, <1>7

\* One phase of an open: only its own subjob and job may change.
LEMMA PhaseRows ==
    ASSUME NEW t, RowsOK(t), NEW sub, NEW name, <<sub, name>> \in Phases,
           NEW e \in OpenEvents,
           name = "NEXT_OPEN_FILL" => Succeeded(t, InnerJob("STOP_TRIGGER", e.day))
    PROVE  LET u == RunOpenSubjob(t, sub, name, e)
           IN  /\ RowsOK(u)
               /\ \A f \in Event : u.runs[OuterJob(f)] = t.runs[OuterJob(f)]
               /\ \A f \in Originals, g \in Generations :
                     u.runs[Attempt(f, g)] = t.runs[Attempt(f, g)]
               /\ u.resolved = t.resolved
               /\ \A w \in Work : w # <<name, e.symbol, e.day, 0>> =>
                                     u.handled[w] = t.handled[w]
               /\ Succeeded(u, SubJob(sub, e.symbol, e.day))
               /\ Succeeded(u, InnerJob(name, e.day))
<1>1. PICK j : j = SubJob(sub, e.symbol, e.day)
  OBVIOUS
<1>2. PICK u : u = RunOpenSubjob(t, sub, name, e)
  OBVIOUS
<1>3. PICK v : v = RunJob(t, name, e, TRUE)
  OBVIOUS
<1>4. /\ e \in Event /\ e.symbol \in Symbols /\ e.day \in Days /\ e.low = 0
      /\ name \in InnerNames /\ sub \in {"gap", "fill"}
  BY EventFields, Names DEF OpenEvents, Phases
<1>5. CASE Succeeded(t, j)
  <2>1. u = t
    BY <1>1, <1>2, <1>5 DEF RunOpenSubjob
  <2>2. Succeeded(t, InnerJob(name, e.day))
    BY <1>1, <1>4, <1>5 DEF RowsOK, PhasesOK, Phases
  <2>. QED
    BY <2>1, <2>2, <1>1, <1>2, <1>5
<1>6. CASE ~Succeeded(t, j)
  <2>1. u = SetRun(v, j, "COMPLETED")
    BY <1>1, <1>2, <1>3, <1>6 DEF RunOpenSubjob
  <2>2. /\ RowsOK(v)
        /\ \A k \in Jobs : k # InnerJob(name, e.day) => v.runs[k] = t.runs[k]
        /\ Succeeded(v, InnerJob(name, e.day))
        /\ v.resolved = t.resolved
        /\ \A w \in Work : w # <<name, e.symbol, e.day, 0>> => v.handled[w] = t.handled[w]
    <3>1. TRUE \in BOOLEAN
      OBVIOUS
    <3>2. /\ RowsOK(RunJob(t, name, e, TRUE))
          /\ \A k \in Jobs : k # InnerJob(name, e.day) =>
                                RunJob(t, name, e, TRUE).runs[k] = t.runs[k]
          /\ Succeeded(RunJob(t, name, e, TRUE), InnerJob(name, e.day))
          /\ RunJob(t, name, e, TRUE).resolved = t.resolved
          /\ \A w \in Work : w # <<name, e.symbol, e.day, e.low>> =>
                                RunJob(t, name, e, TRUE).handled[w] = t.handled[w]
      BY <3>1, <1>4, RunJobRows, Zenon
    <3>. QED
      BY <3>2, <1>3, <1>4
  <2>3. RowsOK(u)
    BY <2>1, <2>2, <1>1, <1>4, SubSet
  <2>4. /\ u.runs[j] = "COMPLETED"
        /\ \A k \in Jobs : k # j => u.runs[k] = v.runs[k]
        /\ u.resolved = v.resolved /\ u.handled = v.handled
    <3>1. v \in Tables /\ j \in Jobs
      BY <2>2, <1>1, <1>4, JobsTyped DEF RowsOK
    <3>. QED
      <4>1. PICK st \in RunStatus : st = "COMPLETED"
        BY Statuses
      <4>2. u = SetRun(v, j, st)
        BY <4>1, <2>1
      <4>. QED
        BY <4>1, <4>2, <3>1, SetRunIs
  <2>5. /\ \A f \in Event : u.runs[OuterJob(f)] = t.runs[OuterJob(f)]
        /\ \A f \in Originals, g \in Generations :
              u.runs[Attempt(f, g)] = t.runs[Attempt(f, g)]
    BY <1>1, <2>2, <2>4, JobsTyped, OuterJobs, SubJobs, InnerJobs
  <2>6. Succeeded(u, j) /\ Succeeded(u, InnerJob(name, e.day))
    BY <1>1, <1>4, <2>2, <2>4, JobsTyped, SubJobs DEF Succeeded
  <2>. QED
    BY <2>2, <2>3, <2>4, <2>5, <2>6, <1>1, <1>2
<1>. QED
  BY <1>5, <1>6

--------------------------------------------------------------------------------
(* Processing one event of a poll.                                            *)

\* The rows u differ from the transaction's only in what is the event's own.
RowsStep(e, u) ==
    /\ RowsOK(u)
    /\ \A f \in Event : f # e => u.runs[OuterJob(f)] = tx.runs[OuterJob(f)]
    /\ \A f \in Originals, g \in Generations :
          f # e => u.runs[Attempt(f, g)] = tx.runs[Attempt(f, g)]
    /\ tx.resolved \subseteq u.resolved
    /\ \A f \in OpenEvents : f # e => u.handled[FillMark(f)] = tx.handled[FillMark(f)]
    /\ e \in OpenEvents /\ Blocked(tx, e) =>
          Blocked(u, e) /\ u.handled[FillMark(e)] = tx.handled[FillMark(e)]

\* A recovery leaves the memory, or stays with its attempt in the rows.
PendingStep(e, u) ==
    /\ pending' \in [Originals -> Generations \cup {None}]
    /\ \A f \in Originals : f # e => pending'[f] = pending[f]
    /\ e \in OpenEvents /\ pending'[e] # None =>
          /\ pending'[e] = pending[e]
          /\ u.runs[OuterJob(e)] = tx.runs[OuterJob(e)]
          /\ u.runs[Attempt(e, pending[e])] # "ABSENT"

AckOK(e, u) ==
    /\ e.kind = "OPEN" => Succeeded(u, OuterJob(e)) \/ e \in u.resolved
    /\ e.kind = "CLOSED" => Succeeded(u, OuterJob(e))

Outcome(e, u) ==
    \/ Acked(e, u) /\ AckOK(e, u)
    \/ Deferred(e, u)
    \/ Failed(e, u)
    \/ TerminalFailed(e, u) /\ (e.kind # "LIVE" => u.runs[OuterJob(e)] = "PERMANENT")

\* What the detector remembers survives any change to the rows of events it would
\* detect: it has not acknowledged those.
LEMMA DurableKept ==
    ASSUME NEW t, NEW u, NEW e \in Candidates, Durable(t),
           \A f \in Event : f # e => u.runs[OuterJob(f)] = t.runs[OuterJob(f)],
           t.resolved \subseteq u.resolved
    PROVE  Durable(u)
<1>1. SUFFICES ASSUME NEW f \in Event
               PROVE  /\ f.kind = "OPEN" /\ det[f.symbol].openAck = f.day =>
                            Succeeded(u, OuterJob(f)) \/ f \in u.resolved
                      /\ f.kind = "CLOSED" /\ det[f.symbol].closedAck = f.day =>
                            Succeeded(u, OuterJob(f))
                      /\ f.kind = "OPEN" /\ det[f.symbol].openFailed = f.day =>
                            u.runs[OuterJob(f)] = "PERMANENT"
                      /\ f.kind = "CLOSED" /\ det[f.symbol].closedFailed = f.day =>
                            u.runs[OuterJob(f)] = "PERMANENT"
  BY DEF Durable
<1>2. CASE f = e
  <2>1. Detects(f.kind, f.symbol) /\ f.day = feed[f.symbol].day
    BY <1>2 DEF Candidates
  <2>2. f.kind = "OPEN" => /\ det[f.symbol].openAck # f.day
                           /\ det[f.symbol].openFailed # f.day
    BY <2>1 DEF Detects
  <2>3. f.kind = "CLOSED" => /\ det[f.symbol].closedAck # f.day
                             /\ det[f.symbol].closedFailed # f.day
    BY <2>1 DEF Detects
  <2>. QED
    BY <2>2, <2>3
<1>3. CASE f # e
  <2>1. u.runs[OuterJob(f)] = t.runs[OuterJob(f)]
    BY <1>3
  <2>. QED
    BY <2>1 DEF Durable, Succeeded
<1>. QED
  BY <1>2, <1>3

\* The poll's loop: whatever the outcome of an event, the invariant survives it.
LEMMA OutcomeKeeps ==
    ASSUME BridgeInv, NEW e \in Event, Selected(e), NEW u,
           RowsStep(e, u), PendingStep(e, u), Outcome(e, u), faults' \in 0 .. MaxFaults
    PROVE  BridgeInv'
<1>1. /\ tx' \in Tables /\ tx'.runs = u.runs /\ tx'.resolved = u.resolved
      /\ tx'.handled = u.handled
  <2>1. u \in Tables
    BY DEF RowsStep, RowsOK
  <2>2. Group(e) \in {"OPEN", "LIVE", "CLOSED"} \X Days
    BY EventFields DEF Group
  <2>3. \/ tx' = [u EXCEPT !.backoff = @ \ {Group(e)}]
        \/ tx' = [u EXCEPT !.backoff = @ \cup {Group(e)}]
    BY DEF Outcome, Acked, Deferred, Failed, TerminalFailed, ClearGroup
  <2>. QED
    BY <2>1, <2>2, <2>3 DEF Tables
<1>2. /\ db' = db /\ pollState' = pollState /\ det' = det /\ valid' = valid
      /\ feed' = feed /\ clock' = clock
  BY DEF Outcome, Acked, Deferred, Failed, TerminalFailed
<1>3. pollState = "open" /\ e \in todo
  BY DEF Selected
<1>4. RowsOK(tx') /\ RowsOK(db')
  <2>1. RowsOK(u)
    BY DEF RowsStep
  <2>. QED
    BY <1>1, <1>2, <2>1, SameRows DEF BridgeInv
<1>5. MemoryTyped'
  BY <1>2 DEF BridgeInv, MemoryTyped
<1>6. PendingOK'
  <2>1. SUFFICES ASSUME NEW f \in OpenEvents, pending'[f] # None
                 PROVE  /\ db.runs[OuterJob(f)] = "PERMANENT"
                        /\ u.runs[OuterJob(f)] = "PERMANENT"
                        /\ db.runs[Attempt(f, pending'[f])] # "ABSENT"
                        /\ u.runs[Attempt(f, pending'[f])] # "ABSENT"
    BY <1>1, <1>2 DEF PendingOK, PendingStep
  <2>2. f \in Event /\ f \in Originals /\ f.kind = "OPEN"
    BY EventFields DEF OpenEvents
  <2>3. pending'[f] = pending[f]
    BY <2>1, <2>2 DEF PendingStep
  <2>4. /\ db.runs[OuterJob(f)] = "PERMANENT" /\ tx.runs[OuterJob(f)] = "PERMANENT"
        /\ db.runs[Attempt(f, pending[f])] # "ABSENT"
        /\ tx.runs[Attempt(f, pending[f])] # "ABSENT"
        /\ pending[f] \in Generations
    BY <2>1, <2>2, <2>3 DEF BridgeInv, PendingOK
  <2>5. CASE f = e
    BY <2>1, <2>3, <2>4, <2>5 DEF PendingStep
  <2>6. CASE f # e
    BY <2>2, <2>3, <2>4, <2>6 DEF RowsStep
  <2>. QED
    BY <2>5, <2>6
<1>7. Candidates' = Candidates
  BY <1>2 DEF Candidates, Detects, EvaluationDue
<1>8. PollOK'
  <2>1. PollOK
    BY DEF BridgeInv
  <2>2. /\ todo' \subseteq todo \ {e} /\ toAck \subseteq toAck' /\ toFail \subseteq toFail'
        /\ toAck' \subseteq toAck \cup {e} /\ toFail' \subseteq toFail \cup {e}
    BY DEF Outcome, Acked, Deferred, Failed, TerminalFailed
  <2>3. /\ e \in toAck' => AckOK(e, u)
        /\ e \in toFail' /\ e.kind # "LIVE" => u.runs[OuterJob(e)] = "PERMANENT"
    BY <1>3, <2>1 DEF Outcome, Acked, Deferred, Failed, TerminalFailed, PollOK
  <2>4. todo \cup toAck \cup toFail \subseteq Event
    BY <2>1 DEF PollOK, Candidates
  <2>5. ASSUME NEW f \in toAck'
        PROVE  /\ f.kind = "OPEN" => Succeeded(tx', OuterJob(f)) \/ f \in tx'.resolved
               /\ f.kind = "CLOSED" => Succeeded(tx', OuterJob(f))
    <3>1. CASE f = e
      BY <3>1, <2>3, <1>1 DEF AckOK, Succeeded
    <3>2. CASE f # e
      <4>1. f \in toAck /\ f \in Event
        BY <2>2, <2>4, <2>5, <3>2
      <4>2. u.runs[OuterJob(f)] = tx.runs[OuterJob(f)] /\ tx.resolved \subseteq u.resolved
        BY <4>1, <3>2 DEF RowsStep
      <4>. QED
        BY <4>1, <4>2, <2>1, <1>1 DEF PollOK, Succeeded
    <3>. QED
      BY <3>1, <3>2
  <2>6. ASSUME NEW f \in toFail', f.kind # "LIVE"
        PROVE  tx'.runs[OuterJob(f)] = "PERMANENT"
    <3>1. CASE f = e
      BY <3>1, <2>3, <2>6, <1>1
    <3>2. CASE f # e
      <4>1. f \in toFail /\ f \in Event
        BY <2>2, <2>4, <2>6, <3>2
      <4>2. u.runs[OuterJob(f)] = tx.runs[OuterJob(f)]
        BY <4>1, <3>2 DEF RowsStep
      <4>. QED
        BY <4>1, <4>2, <2>1, <2>6, <1>1 DEF PollOK
    <3>. QED
      BY <3>1, <3>2
  <2>7. /\ pollState' \in {"idle", "open", "committed"}
        /\ pollState' # "idle" /\ pollState' # "committed"
    BY <1>2, <1>3
  <2>8. todo' \cup toAck' \cup toFail' \subseteq Candidates'
    BY <1>3, <1>7, <2>1, <2>2 DEF PollOK
  <2>9. todo' \cap (toAck' \cup toFail') = {}
    BY <1>3, <2>1, <2>2 DEF PollOK
  <2>. QED
    BY <2>5, <2>6, <2>7, <2>8, <2>9 DEF PollOK
<1>9. Durable(db)' /\ Durable(tx)'
  <2>1. e \in Candidates
    BY <1>3 DEF BridgeInv, PollOK
  <2>2. Durable(u)
    BY <2>1, DurableKept DEF BridgeInv, RowsStep
  <2>. QED
    BY <2>2, <1>1, <1>2 DEF BridgeInv, Durable, Succeeded
<1>10. BlockedStays'
  <2>1. SUFFICES ASSUME NEW f \in OpenEvents, Blocked(db, f)
                 PROVE  Blocked(u, f) /\ u.handled[FillMark(f)] = db.handled[FillMark(f)]
    BY <1>1, <1>2 DEF BlockedStays, Blocked
  <2>2. Blocked(tx, f) /\ tx.handled[FillMark(f)] = db.handled[FillMark(f)]
    BY <2>1 DEF BridgeInv, BlockedStays
  <2>3. f \in Event /\ f \in Originals
    BY EventFields DEF OpenEvents
  <2>4. CASE f = e
    BY <2>2, <2>4 DEF RowsStep
  <2>5. CASE f # e
    BY <2>2, <2>3, <2>5 DEF RowsStep, Blocked
  <2>. QED
    BY <2>4, <2>5
<1>. QED
  BY <1>4, <1>5, <1>6, <1>8, <1>9, <1>10 DEF BridgeInv

--------------------------------------------------------------------------------
(* The open: phases, umbrella run and recovery attempts.                      *)

\* The rows v have the runs of events and attempts that the transaction has.
Frame(e, v) ==
    /\ RowsOK(v)
    /\ \A f \in Event : v.runs[OuterJob(f)] = tx.runs[OuterJob(f)]
    /\ \A f \in Originals, g \in Generations :
          v.runs[Attempt(f, g)] = tx.runs[Attempt(f, g)]
    /\ v.resolved = tx.resolved
    /\ \A f \in OpenEvents : f # e => v.handled[FillMark(f)] = tx.handled[FillMark(f)]

\* The fields of an open, and its mark.
LEMMA OpenFields ==
    ASSUME NEW e \in OpenEvents
    PROVE  /\ e \in Event /\ e \in Originals /\ e.kind = "OPEN" /\ e.low = 0
           /\ e.symbol \in Symbols /\ e.day \in Days /\ FillMark(e) \in Work
BY EventFields, Marks, Names DEF OpenEvents, FillMark

\* Different opens have different fill marks.
LEMMA FillMarksDiffer ==
    ASSUME NEW e \in OpenEvents, NEW f \in OpenEvents, f # e
    PROVE  FillMark(f) # FillMark(e)
<1>1. ~(e.symbol = f.symbol /\ e.day = f.day)
  BY OpenFields, EventFields DEF EventOf
<1>. QED
  BY <1>1, Marks DEF FillMark

\* The rows of the transaction are within the frame of every event.
LEMMA TxFrame ==
    ASSUME BridgeInv, NEW e
    PROVE  Frame(e, tx)
BY DEF BridgeInv, Frame

\* The gap phase stays within the frame of its open, and its scheduler job has succeeded.
LEMMA GapFrame ==
    ASSUME NEW e \in OpenEvents, NEW v, Frame(e, v)
    PROVE  /\ Frame(e, GapPhase(v, e))
           /\ Succeeded(GapPhase(v, e), InnerJob("STOP_TRIGGER", e.day))
<1>1. PICK u : u = RunOpenSubjob(v, "gap", "STOP_TRIGGER", e)
  OBVIOUS
<1>2. RowsOK(v) /\ <<"gap", "STOP_TRIGGER">> \in Phases /\ "STOP_TRIGGER" # "NEXT_OPEN_FILL"
  BY DEF Frame, Phases
<1>3. /\ RowsOK(u)
      /\ \A f \in Event : u.runs[OuterJob(f)] = v.runs[OuterJob(f)]
      /\ \A f \in Originals, g \in Generations :
            u.runs[Attempt(f, g)] = v.runs[Attempt(f, g)]
      /\ u.resolved = v.resolved
      /\ \A w \in Work : w # <<"STOP_TRIGGER", e.symbol, e.day, 0>> =>
                            u.handled[w] = v.handled[w]
      /\ Succeeded(u, InnerJob("STOP_TRIGGER", e.day))
  BY <1>1, <1>2, PhaseRows
<1>4. \A f \in OpenEvents : u.handled[FillMark(f)] = v.handled[FillMark(f)]
  BY <1>3, OpenFields, Marks DEF FillMark
<1>. QED
  BY <1>1, <1>3, <1>4 DEF Frame, GapPhase

\* The fill phase stays within the frame of its open.
LEMMA FillFrame ==
    ASSUME NEW e \in OpenEvents, NEW v, Frame(e, v),
           Succeeded(v, InnerJob("STOP_TRIGGER", e.day))
    PROVE  Frame(e, FillPhase(v, e))
<1>1. PICK u : u = RunOpenSubjob(v, "fill", "NEXT_OPEN_FILL", e)
  OBVIOUS
<1>2. RowsOK(v) /\ <<"fill", "NEXT_OPEN_FILL">> \in Phases
  BY DEF Frame, Phases
<1>3. /\ RowsOK(u)
      /\ \A f \in Event : u.runs[OuterJob(f)] = v.runs[OuterJob(f)]
      /\ \A f \in Originals, g \in Generations :
            u.runs[Attempt(f, g)] = v.runs[Attempt(f, g)]
      /\ u.resolved = v.resolved
      /\ \A w \in Work : w # <<"NEXT_OPEN_FILL", e.symbol, e.day, 0>> =>
                            u.handled[w] = v.handled[w]
  BY <1>1, <1>2, PhaseRows
<1>4. \A f \in OpenEvents : f # e => u.handled[FillMark(f)] = v.handled[FillMark(f)]
  <2>1. FillMark(e) = <<"NEXT_OPEN_FILL", e.symbol, e.day, 0>>
    BY DEF FillMark
  <2>. QED
    BY <2>1, <1>3, OpenFields, FillMarksDiffer
<1>. QED
  BY <1>1, <1>3, <1>4 DEF Frame, FillPhase

\* The generation that is recovered, of an open that is still PERMANENT.
LEMMA RecoveryIs ==
    ASSUME BridgeInv, NEW e \in OpenEvents, Recovering(tx, e)
    PROVE  /\ RecoveryOf(tx, e) \in Generations
           /\ pending[e] # None => RecoveryOf(tx, e) = pending[e]
           /\ tx.runs[OuterJob(e)] = "PERMANENT"
           /\ tx.runs[Attempt(e, RecoveryOf(tx, e))] # "ABSENT"
<1>1. e \in Originals
  BY OpenFields
<1>2. CASE pending[e] # None
  <2>1. RecoveryOf(tx, e) = pending[e]
    BY <1>1, <1>2 DEF RecoveryOf
  <2>2. pending[e] \in Generations
    BY <1>1, <1>2 DEF BridgeInv, PendingOK
  <2>. QED
    BY <1>2, <2>1, <2>2 DEF BridgeInv, PendingOK
<1>3. CASE pending[e] = None
  <2>1. PICK A : A = ActiveAttempts(tx, e)
    OBVIOUS
  <2>2. A # {} /\ A \subseteq Generations
    BY <1>1, <1>3, <2>1 DEF Recovering, RecoveryOf, ActiveAttempts
  <2>3. RecoveryOf(tx, e) = CHOOSE g \in A : \A h \in A : h <= g
    BY <1>1, <1>3, <2>1, <2>2 DEF RecoveryOf
  <2>4. RecoveryOf(tx, e) \in A
    BY <2>2, <2>3, NewestAttempt
  <2>5. tx.runs[OuterJob(e)] = "PERMANENT"
    BY <2>1, <2>2 DEF BridgeInv, RowsOK, AttemptsOK
  <2>. QED
    BY <1>3, <2>1, <2>2, <2>4, <2>5 DEF ActiveAttempts
<1>. QED
  BY <1>2, <1>3

\* An open that is not recovered has no active attempt.
LEMMA NotRecovering ==
    ASSUME BridgeInv, NEW e \in OpenEvents, ~Recovering(tx, e)
    PROVE  pending[e] = None /\ ActiveAttempts(tx, e) = {}
<1>1. e \in Originals
  BY OpenFields
<1>2. pending[e] = None
  BY <1>1 DEF Recovering, RecoveryOf
<1>3. ASSUME ActiveAttempts(tx, e) # {} PROVE FALSE
  <2>1. PICK A : A = ActiveAttempts(tx, e)
    OBVIOUS
  <2>2. A # {} /\ A \subseteq Generations
    BY <1>3, <2>1 DEF ActiveAttempts
  <2>3. RecoveryOf(tx, e) = CHOOSE g \in A : \A h \in A : h <= g
    BY <1>1, <1>2, <1>3, <2>1 DEF RecoveryOf
  <2>4. RecoveryOf(tx, e) \in Generations
    BY <2>2, <2>3, NewestAttempt
  <2>. QED
    BY <2>4, BridgeConstants DEF Recovering, Generations, None
<1>. QED
  BY <1>2, <1>3

\* An open that passes the short circuit is not blocked.
LEMMA NotBlocked ==
    ASSUME BridgeInv, NEW e \in OpenEvents, ~ShortCircuits(tx, e)
    PROVE  ~Blocked(tx, e)
<1>1. SUFFICES ASSUME Blocked(tx, e) PROVE FALSE
  OBVIOUS
<1>2. CASE Recovering(tx, e)
  BY <1>1, <1>2, RecoveryIs DEF Blocked
<1>3. CASE e \in tx.resolved
  BY <1>1, <1>3 DEF Blocked, BridgeInv, RowsOK, AttemptsOK
<1>. QED
  BY <1>1, <1>2, <1>3 DEF ShortCircuits, Blocked

\* Rows within the frame of an event that is not blocked are a step of that event.
LEMMA FrameIsStep ==
    ASSUME NEW e \in Event, NEW v, Frame(e, v),
           e \in OpenEvents => ~Blocked(tx, e)
    PROVE  RowsStep(e, v)
BY DEF Frame, RowsStep

\* The outcome of an open is recorded in its umbrella run or in its attempt.
LEMMA UmbrellaSet ==
    ASSUME BridgeInv, NEW e \in OpenEvents, ~ShortCircuits(tx, e), NEW v, Frame(e, v),
           NEW st \in RunStatus \ {"RUNNING", "ABSENT"}
    PROVE  LET u == SetRun(v, Umbrella(e), st)
           IN  /\ RowsStep(e, u)
               /\ Recovering(tx, e) =>
                     /\ u.runs[OuterJob(e)] = "PERMANENT"
                     /\ u.runs[Attempt(e, RecoveryOf(tx, e))] = st
               /\ ~Recovering(tx, e) => u.runs[OuterJob(e)] = st
<1>1. PICK u : u = SetRun(v, Umbrella(e), st)
  OBVIOUS
<1>2. /\ e \in Event /\ e \in Originals /\ e.kind = "OPEN" /\ ~Blocked(tx, e)
      /\ v \in Tables /\ RowsOK(v)
  BY OpenFields, NotBlocked DEF Frame, RowsOK
<1>3. CASE Recovering(tx, e)
  <2>1. PICK g : g = RecoveryOf(tx, e)
    OBVIOUS
  <2>2. g \in Generations /\ tx.runs[OuterJob(e)] = "PERMANENT"
    BY <1>3, <2>1, RecoveryIs
  <2>3. u = SetRun(v, Attempt(e, g), st) /\ Attempt(e, g) \in Jobs
    BY <1>1, <1>2, <1>3, <2>1, <2>2, JobsTyped DEF Umbrella
  <2>4. v.runs[OuterJob(e)] = "PERMANENT"
    BY <1>2, <2>2 DEF Frame
  <2>5. RowsOK(u)
    BY <2>2, <2>3, <2>4, <1>2, AttemptSet
  <2>6. /\ u.runs[Attempt(e, g)] = st
        /\ \A k \in Jobs : k # Attempt(e, g) => u.runs[k] = v.runs[k]
        /\ u.resolved = v.resolved /\ u.handled = v.handled
    BY <2>3, <1>2, SetRunIs
  <2>7. /\ \A f \in Event : u.runs[OuterJob(f)] = v.runs[OuterJob(f)]
        /\ \A f \in Originals, h \in Generations :
              f # e => u.runs[Attempt(f, h)] = v.runs[Attempt(f, h)]
    BY <2>6, <1>2, JobsTyped, OuterJobs, AttemptJobs
  <2>8. RowsStep(e, u)
    BY <2>5, <2>6, <2>7, <1>2 DEF RowsStep, Frame
  <2>. QED
    BY <2>8, <2>1, <2>4, <2>6, <2>7, <1>1, <1>2, <1>3
<1>4. CASE ~Recovering(tx, e)
  <2>1. u = SetRun(v, OuterJob(e), st) /\ OuterJob(e) \in Jobs
    BY <1>1, <1>2, <1>4, JobsTyped DEF Umbrella
  <2>2. ActiveAttempts(v, e) = {}
    <3>1. ActiveAttempts(v, e) = ActiveAttempts(tx, e)
      BY <1>2 DEF Frame, ActiveAttempts
    <3>. QED
      BY <3>1, <1>4, NotRecovering
  <2>3. RowsOK(u)
    BY <2>1, <2>2, <1>2, OuterSet
  <2>4. /\ u.runs[OuterJob(e)] = st
        /\ \A k \in Jobs : k # OuterJob(e) => u.runs[k] = v.runs[k]
        /\ u.resolved = v.resolved /\ u.handled = v.handled
    BY <2>1, <1>2, SetRunIs
  <2>5. /\ \A f \in Event : f # e => u.runs[OuterJob(f)] = v.runs[OuterJob(f)]
        /\ \A f \in Originals, h \in Generations :
              u.runs[Attempt(f, h)] = v.runs[Attempt(f, h)]
    BY <2>4, <1>2, JobsTyped, OuterJobs
  <2>6. RowsStep(e, u)
    BY <2>3, <2>4, <2>5, <1>2 DEF RowsStep, Frame
  <2>. QED
    BY <2>6, <2>4, <1>1, <1>4
<1>. QED
  BY <1>3, <1>4

\* A run that was not RUNNING is withdrawn without a trace.
LEMMA Released ==
    ASSUME NEW t \in Tables, NEW j \in Jobs, t.runs[j] # "RUNNING"
    PROVE  LET u == ReleaseRun(EnsureRun(t, j), j)
           IN  /\ u \in Tables /\ u.runs = t.runs /\ u.resolved = t.resolved
               /\ u.handled = t.handled
<1>1. CASE t.runs[j] = "ABSENT"
  BY <1>1 DEF ReleaseRun, EnsureRun, SetRun, Tables, RunStatus
<1>2. CASE t.runs[j] # "ABSENT"
  BY <1>2 DEF ReleaseRun, EnsureRun
<1>. QED
  BY <1>1, <1>2

\* The outer job of an event is never left RUNNING.
LEMMA NotRunning ==
    ASSUME NEW t, RowsOK(t), NEW e \in Event
    PROVE  t.runs[OuterJob(e)] # "RUNNING"
BY JobsTyped, OuterJobs DEF RowsOK, OnlyAttemptsRun, Attempts

\* A deferred open keeps what its phases did and leaves no umbrella run behind.
LEMMA WithdrawnStep ==
    ASSUME BridgeInv, NEW e \in OpenEvents, ~ShortCircuits(tx, e), NEW v, Frame(e, v)
    PROVE  LET u == Withdrawn(EnsureRun(v, Umbrella(e)), e)
           IN  /\ RowsStep(e, u)
               /\ u.runs[OuterJob(e)] = tx.runs[OuterJob(e)]
               /\ pending[e] # None => u.runs[Attempt(e, pending[e])] # "ABSENT"
<1>1. PICK u : u = Withdrawn(EnsureRun(v, Umbrella(e)), e)
  OBVIOUS
<1>2. /\ e \in Event /\ e \in Originals /\ e.kind = "OPEN" /\ ~Blocked(tx, e)
      /\ v \in Tables /\ RowsOK(v)
  BY OpenFields, NotBlocked DEF Frame, RowsOK
<1>3. CASE Recovering(tx, e)
  <2>1. /\ RecoveryOf(tx, e) \in Generations
        /\ pending[e] # None => RecoveryOf(tx, e) = pending[e]
        /\ tx.runs[OuterJob(e)] = "PERMANENT"
        /\ tx.runs[Attempt(e, RecoveryOf(tx, e))] # "ABSENT"
    BY <1>3, RecoveryIs
  <2>2. Umbrella(e) = Attempt(e, RecoveryOf(tx, e))
    BY <1>3 DEF Umbrella
  <2>3. v.runs[Umbrella(e)] # "ABSENT"
    BY <2>1, <2>2, <1>2 DEF Frame
  <2>4. u = SetRun(v, Umbrella(e), "SKIPPED")
    BY <1>1, <1>3, <2>3 DEF Withdrawn, EnsureRun
  <2>5. PICK st \in RunStatus \ {"RUNNING", "ABSENT"} : st = "SKIPPED"
    BY Statuses
  <2>6. u = SetRun(v, Umbrella(e), st)
    BY <2>4, <2>5
  <2>7. /\ RowsStep(e, u) /\ u.runs[OuterJob(e)] = "PERMANENT"
        /\ u.runs[Attempt(e, RecoveryOf(tx, e))] = st
    BY <2>6, <1>3, UmbrellaSet
  <2>. QED
    BY <2>1, <2>5, <2>7, <1>1
<1>4. CASE ~Recovering(tx, e)
  <2>1. u = ReleaseRun(EnsureRun(v, OuterJob(e)), OuterJob(e))
    BY <1>1, <1>4 DEF Withdrawn, Umbrella
  <2>2. v.runs[OuterJob(e)] # "RUNNING" /\ OuterJob(e) \in Jobs
    BY <1>2, NotRunning, JobsTyped
  <2>3. u \in Tables /\ u.runs = v.runs /\ u.resolved = v.resolved /\ u.handled = v.handled
    BY <2>1, <2>2, <1>2, Released
  <2>4. Frame(e, u)
    <3>1. RowsOK(u)
      BY <2>3, <1>2, SameRows
    <3>. QED
      BY <3>1, <2>3 DEF Frame
  <2>5. RowsStep(e, u)
    BY <2>4, <1>2, FrameIsStep
  <2>. QED
    BY <2>4, <2>5, <1>1, <1>2, <1>4, NotRecovering DEF Frame
<1>. QED
  BY <1>3, <1>4

--------------------------------------------------------------------------------
(* The actions of the poll's loop.                                            *)

\* The event that the poll takes next is a candidate.
LEMMA SelectedEvent ==
    ASSUME BridgeInv, NEW e, Selected(e)
    PROVE  e \in Event /\ e \in Candidates
BY DEF BridgeInv, PollOK, Selected, Candidates

\* The bounded faults are counted.
LEMMA FaultCounted ==
    ASSUME BridgeInv, Fault \/ UNCHANGED faults
    PROVE  faults' \in 0 .. MaxFaults
BY BridgeConstants DEF BridgeInv, MemoryTyped, Fault

\* An open whose recovery is done is pending no more.
LEMMA DoneIsStep ==
    ASSUME BridgeInv, NEW e \in OpenEvents, RecoveryDone(e), NEW u
    PROVE  PendingStep(e, u)
BY OpenFields DEF BridgeInv, PendingOK, RecoveryDone, PendingStep

\* An event whose pending recovery stays keeps what it refers to.
LEMMA StillPending ==
    ASSUME BridgeInv, NEW e \in Event, UNCHANGED pending, NEW u,
           e \in OpenEvents /\ pending[e] # None =>
              /\ u.runs[OuterJob(e)] = tx.runs[OuterJob(e)]
              /\ u.runs[Attempt(e, pending[e])] # "ABSENT"
    PROVE  PendingStep(e, u)
BY DEF BridgeInv, PendingOK, PendingStep

\* ShortCircuit keeps the invariant.
LEMMA ShortCircuitKeeps ==
    ASSUME BridgeInv, NEW e, ShortCircuit(e)
    PROVE  BridgeInv'
<1>1. e \in Event /\ Selected(e) /\ faults' \in 0 .. MaxFaults
  BY SelectedEvent, FaultCounted DEF ShortCircuit
<1>2. RowsStep(e, tx)
  BY DEF BridgeInv, RowsStep
<1>3. PendingStep(e, tx)
  BY <1>1, StillPending DEF ShortCircuit, BridgeInv, PendingOK
<1>4. Outcome(e, tx)
  BY DEF ShortCircuit, ShortCircuits, Outcome
<1>. QED
  BY <1>1, <1>2, <1>3, <1>4, OutcomeKeeps

\* What is known of the open that the poll has taken.
LEMMA OpenIsOpen ==
    ASSUME BridgeInv, NEW e, OpenSelected(e)
    PROVE  /\ e \in OpenEvents /\ e \in Event /\ Selected(e) /\ e.kind = "OPEN"
           /\ ~ShortCircuits(tx, e)
BY SelectedEvent DEF OpenSelected, OpenEvents

\* OpenAlreadyComplete keeps the invariant.
LEMMA OpenAlreadyCompleteKeeps ==
    ASSUME BridgeInv, NEW e, OpenAlreadyComplete(e)
    PROVE  BridgeInv'
<1>1. /\ e \in OpenEvents /\ e \in Event /\ Selected(e) /\ e.kind = "OPEN"
      /\ ~ShortCircuits(tx, e) /\ ~Recovering(tx, e) /\ faults' \in 0 .. MaxFaults
  BY OpenIsOpen, FaultCounted DEF OpenAlreadyComplete
<1>2. PICK st \in RunStatus \ {"RUNNING", "ABSENT"} : st = "COMPLETED"
  BY Statuses
<1>3. PICK u : u = SetRun(tx, OuterJob(e), st)
  OBVIOUS
<1>4. u = SetRun(tx, Umbrella(e), st)
  BY <1>1, <1>3 DEF Umbrella
<1>5. RowsStep(e, u) /\ u.runs[OuterJob(e)] = st
  BY <1>1, <1>4, TxFrame, UmbrellaSet
<1>6. PendingStep(e, u)
  BY <1>1, NotRecovering, StillPending DEF OpenAlreadyComplete
<1>7. Outcome(e, u)
  BY <1>1, <1>2, <1>3, <1>5 DEF OpenAlreadyComplete, Outcome, AckOK, Succeeded
<1>. QED
  BY <1>1, <1>5, <1>6, <1>7, OutcomeKeeps

\* OpenNotReady keeps the invariant.
LEMMA OpenNotReadyKeeps ==
    ASSUME BridgeInv, NEW e, OpenNotReady(e)
    PROVE  BridgeInv'
<1>1. /\ e \in OpenEvents /\ e \in Event /\ Selected(e)
      /\ ~ShortCircuits(tx, e) /\ faults' \in 0 .. MaxFaults
  BY OpenIsOpen, FaultCounted DEF OpenNotReady, OpenProcessed
<1>2. PICK u : u = Withdrawn(EnsureRun(tx, Umbrella(e)), e)
  OBVIOUS
<1>3. /\ RowsStep(e, u) /\ u.runs[OuterJob(e)] = tx.runs[OuterJob(e)]
      /\ pending[e] # None => u.runs[Attempt(e, pending[e])] # "ABSENT"
  BY <1>1, <1>2, TxFrame, WithdrawnStep
<1>4. PendingStep(e, u)
  BY <1>1, <1>3, StillPending DEF OpenNotReady
<1>5. Outcome(e, u)
  BY <1>2 DEF OpenNotReady, Outcome
<1>. QED
  BY <1>1, <1>3, <1>4, <1>5, OutcomeKeeps

\* OpenFillNotDue keeps the invariant.
LEMMA OpenFillNotDueKeeps ==
    ASSUME BridgeInv, NEW e, OpenFillNotDue(e)
    PROVE  BridgeInv'
<1>1. /\ e \in OpenEvents /\ e \in Event /\ Selected(e)
      /\ ~ShortCircuits(tx, e) /\ faults' \in 0 .. MaxFaults
  BY OpenIsOpen, FaultCounted DEF OpenFillNotDue, OpenProcessed
<1>2. PICK v : v = GapPhase(tx, e)
  OBVIOUS
<1>3. PICK u : u = Withdrawn(EnsureRun(v, Umbrella(e)), e)
  OBVIOUS
<1>4. Frame(e, v)
  BY <1>1, <1>2, TxFrame, GapFrame
<1>5. /\ RowsStep(e, u) /\ u.runs[OuterJob(e)] = tx.runs[OuterJob(e)]
      /\ pending[e] # None => u.runs[Attempt(e, pending[e])] # "ABSENT"
  BY <1>1, <1>3, <1>4, WithdrawnStep
<1>6. PendingStep(e, u)
  BY <1>1, <1>5, StillPending DEF OpenFillNotDue
<1>7. Outcome(e, u)
  BY <1>2, <1>3 DEF OpenFillNotDue, Outcome
<1>. QED
  BY <1>1, <1>5, <1>6, <1>7, OutcomeKeeps

\* OpenPermanent keeps the invariant.
LEMMA OpenPermanentKeeps ==
    ASSUME BridgeInv, NEW e, OpenPermanent(e)
    PROVE  BridgeInv'
<1>1. /\ e \in OpenEvents /\ e \in Event /\ Selected(e)
      /\ ~ShortCircuits(tx, e) /\ faults' \in 0 .. MaxFaults
  BY OpenIsOpen, FaultCounted DEF OpenPermanent, OpenProcessed
<1>2. PICK st \in RunStatus \ {"RUNNING", "ABSENT"} :
         st = IF Recovering(tx, e) THEN "FAILED" ELSE "PERMANENT"
  BY Statuses
<1>3. PICK u : u = SetRun(tx, Umbrella(e), st)
  OBVIOUS
<1>4. /\ RowsStep(e, u)
      /\ Recovering(tx, e) => u.runs[OuterJob(e)] = "PERMANENT"
      /\ ~Recovering(tx, e) => u.runs[OuterJob(e)] = st
  BY <1>1, <1>3, TxFrame, UmbrellaSet
<1>5. PendingStep(e, u)
  BY <1>1, DoneIsStep DEF OpenPermanent
<1>6. TerminalFailed(e, u)
  BY <1>2, <1>3 DEF OpenPermanent
<1>7. u.runs[OuterJob(e)] = "PERMANENT"
  BY <1>2, <1>4
<1>8. Outcome(e, u)
  BY <1>6, <1>7 DEF Outcome
<1>. QED
  BY <1>1, <1>4, <1>5, <1>8, OutcomeKeeps

\* The failure of a phase, recorded after its savepoint was rolled back.
LEMMA AuditStep ==
    ASSUME BridgeInv, NEW e \in OpenEvents, ~ShortCircuits(tx, e), NEW v, Frame(e, v),
           NEW sub \in {"gap", "fill"}
    PROVE  RowsStep(e, OpenFailureAudit(v, e, sub))
<1>1. PICK st \in RunStatus \ {"RUNNING", "ABSENT"} : st = "FAILED"
  BY Statuses
<1>2. PICK w : w = SetRun(v, Umbrella(e), st)
  OBVIOUS
<1>3. RowsStep(e, w)
  BY <1>2, UmbrellaSet
<1>4. CASE Recovering(tx, e)
  BY <1>1, <1>2, <1>3, <1>4 DEF OpenFailureAudit
<1>5. CASE ~Recovering(tx, e)
  <2>1. PICK j : j = SubJob(sub, e.symbol, e.day)
    OBVIOUS
  <2>2. PICK u : u = SetRun(w, j, st)
    OBVIOUS
  <2>3. u = OpenFailureAudit(v, e, sub)
    BY <1>1, <1>2, <1>5, <2>1, <2>2 DEF OpenFailureAudit
  <2>4. PICK name : <<sub, name>> \in Phases
    BY DEF Phases
  <2>5. RowsOK(w) /\ w \in Tables /\ j \in Jobs /\ e.symbol \in Symbols /\ e.day \in Days
    BY <1>3, <2>1, OpenFields, JobsTyped DEF RowsStep, RowsOK
  <2>6. RowsOK(u)
    BY <1>1, <2>1, <2>2, <2>4, <2>5, SubSet
  <2>7. /\ \A k \in Jobs : k # j => u.runs[k] = w.runs[k]
        /\ u.resolved = w.resolved /\ u.handled = w.handled
    BY <2>2, <2>5, SetRunIs
  <2>8. /\ \A f \in Event : u.runs[OuterJob(f)] = w.runs[OuterJob(f)]
        /\ \A f \in Originals, g \in Generations :
              u.runs[Attempt(f, g)] = w.runs[Attempt(f, g)]
    BY <2>1, <2>7, JobsTyped, OuterJobs, SubJobs
  <2>9. e \in Event /\ ~Blocked(tx, e)
    BY OpenFields, NotBlocked
  <2>10. RowsStep(e, u)
    BY <1>3, <2>6, <2>7, <2>8, <2>9 DEF RowsStep
  <2>. QED
    BY <2>3, <2>10
<1>. QED
  BY <1>4, <1>5

\* OpenGapFails keeps the invariant.
LEMMA OpenGapFailsKeeps ==
    ASSUME BridgeInv, NEW e, OpenGapFails(e)
    PROVE  BridgeInv'
<1>1. /\ e \in OpenEvents /\ e \in Event /\ Selected(e)
      /\ ~ShortCircuits(tx, e) /\ faults' \in 0 .. MaxFaults
  BY OpenIsOpen, FaultCounted DEF OpenGapFails, OpenProcessed
<1>2. PICK u : u = OpenFailureAudit(tx, e, "gap")
  OBVIOUS
<1>3. RowsStep(e, u)
  BY <1>1, <1>2, TxFrame, AuditStep
<1>4. PendingStep(e, u) /\ Outcome(e, u)
  BY <1>1, <1>2, DoneIsStep DEF OpenGapFails, Outcome
<1>. QED
  BY <1>1, <1>3, <1>4, OutcomeKeeps

\* OpenFillFails keeps the invariant.
LEMMA OpenFillFailsKeeps ==
    ASSUME BridgeInv, NEW e, OpenFillFails(e)
    PROVE  BridgeInv'
<1>1. /\ e \in OpenEvents /\ e \in Event /\ Selected(e)
      /\ ~ShortCircuits(tx, e) /\ faults' \in 0 .. MaxFaults
  BY OpenIsOpen, FaultCounted DEF OpenFillFails, OpenProcessed
<1>2. PICK v : v = GapPhase(tx, e)
  OBVIOUS
<1>3. PICK u : u = OpenFailureAudit(v, e, "fill")
  OBVIOUS
<1>4. Frame(e, v)
  BY <1>1, <1>2, TxFrame, GapFrame
<1>5. RowsStep(e, u)
  BY <1>1, <1>3, <1>4, AuditStep
<1>6. PendingStep(e, u) /\ Outcome(e, u)
  BY <1>1, <1>2, <1>3, DoneIsStep DEF OpenFillFails, Outcome
<1>. QED
  BY <1>1, <1>5, <1>6, OutcomeKeeps

\* OpenCompletes keeps the invariant.
LEMMA OpenCompletesKeeps ==
    ASSUME BridgeInv, NEW e, OpenCompletes(e)
    PROVE  BridgeInv'
<1>1. /\ e \in OpenEvents /\ e \in Event /\ Selected(e)
      /\ ~ShortCircuits(tx, e) /\ faults' \in 0 .. MaxFaults
  BY OpenIsOpen, FaultCounted DEF OpenCompletes, OpenProcessed
<1>2. PICK v : v = FillPhase(GapPhase(tx, e), e)
  OBVIOUS
<1>3. Frame(e, v)
  <2>1. PICK g : g = GapPhase(tx, e)
    OBVIOUS
  <2>2. Frame(e, g) /\ Succeeded(g, InnerJob("STOP_TRIGGER", e.day))
    BY <2>1, <1>1, TxFrame, GapFrame
  <2>. QED
    BY <2>1, <2>2, <1>1, <1>2, FillFrame
<1>4. PICK st \in RunStatus \ {"RUNNING", "ABSENT"} : st = "COMPLETED"
  BY Statuses
<1>5. PICK w : w = SetRun(v, Umbrella(e), st)
  OBVIOUS
<1>6. /\ RowsStep(e, w)
      /\ Recovering(tx, e) => w.runs[Attempt(e, RecoveryOf(tx, e))] = st
      /\ ~Recovering(tx, e) => w.runs[OuterJob(e)] = st
  BY <1>1, <1>3, <1>5, UmbrellaSet
<1>7. PICK u : u = Resolved(w, e)
  OBVIOUS
<1>8. RowsStep(e, u) /\ (Succeeded(u, OuterJob(e)) \/ e \in u.resolved)
  <2>1. CASE Recovering(tx, e)
    <3>1. u = [w EXCEPT !.resolved = @ \cup {e}]
      BY <2>1, <1>7 DEF Resolved
    <3>2. RowsOK(w) /\ w \in Tables /\ e \in Originals
      BY <1>1, <1>6, OpenFields DEF RowsStep, RowsOK
    <3>3. \E g \in Generations : w.runs[Attempt(e, g)] # "ABSENT"
      BY <2>1, <1>1, <1>4, <1>6, RecoveryIs
    <3>4. RowsOK(u)
      BY <3>1, <3>2, <3>3, ResolvedSet
    <3>5. u.runs = w.runs /\ u.handled = w.handled /\ u.resolved = w.resolved \cup {e}
      BY <3>1, <3>2 DEF Tables
    <3>6. RowsStep(e, u)
      BY <3>4, <3>5, <1>6 DEF RowsStep, Blocked
    <3>. QED
      BY <3>5, <3>6
  <2>2. CASE ~Recovering(tx, e)
    BY <2>2, <1>4, <1>6, <1>7 DEF Resolved, Succeeded
  <2>. QED
    BY <2>1, <2>2
<1>9. PendingStep(e, u)
  BY <1>1, DoneIsStep DEF OpenCompletes
<1>10. Acked(e, u)
  BY <1>2, <1>4, <1>5, <1>7 DEF OpenCompletes
<1>11. Outcome(e, u)
  BY <1>1, <1>8, <1>10 DEF Outcome, AckOK, OpenEvents
<1>. QED
  BY <1>1, <1>8, <1>9, <1>11, OutcomeKeeps

--------------------------------------------------------------------------------
(* The live update and the close.                                             *)

\* What is known of any other event that the poll has taken.
LEMMA OtherIsOther ==
    ASSUME BridgeInv, NEW e, NEW kind \in {"LIVE", "CLOSED"}, OtherSelected(e, kind)
    PROVE  e \in Event /\ e \notin OpenEvents /\ Selected(e) /\ e.kind = kind
BY SelectedEvent DEF OtherSelected, OpenEvents

\* A job of the scheduler other than the fill touches no run of an event.
LEMMA JobFrame ==
    ASSUME NEW e \in Event, NEW v, Frame(e, v), NEW name \in InnerNames \ {"NEXT_OPEN_FILL"},
           name \in DayNames => e.low = 0, NEW ok \in BOOLEAN
    PROVE  Frame(e, RunJob(v, name, e, ok))
<1>1. PICK u : u = RunJob(v, name, e, ok)
  OBVIOUS
<1>2. RowsOK(v)
  BY DEF Frame
<1>3. /\ RowsOK(u)
      /\ \A k \in Jobs : k # InnerJob(name, e.day) => u.runs[k] = v.runs[k]
      /\ u.resolved = v.resolved
      /\ \A w \in Work : w # <<name, e.symbol, e.day, e.low>> => u.handled[w] = v.handled[w]
  BY <1>1, <1>2, RunJobRows
<1>4. /\ \A f \in Event : u.runs[OuterJob(f)] = v.runs[OuterJob(f)]
      /\ \A f \in Originals, g \in Generations :
            u.runs[Attempt(f, g)] = v.runs[Attempt(f, g)]
  BY <1>3, JobsTyped, OuterJobs, InnerJobs
<1>5. \A f \in OpenEvents : u.handled[FillMark(f)] = v.handled[FillMark(f)]
  BY <1>3, OpenFields, Marks DEF FillMark
<1>. QED
  BY <1>1, <1>3, <1>4, <1>5 DEF Frame

\* The outcome of the other kinds is recorded in the event's own run.
LEMMA OtherSet ==
    ASSUME NEW e \in Event, e \notin OpenEvents, NEW v, Frame(e, v),
           NEW st \in RunStatus \ {"RUNNING"},
           e.kind = "CLOSED" /\ st = "COMPLETED" =>
              /\ Succeeded(v, InnerJob("DAILY_SIGNAL_EVALUATION", e.day))
              /\ Succeeded(v, InnerJob("DAILY_STOP_UPDATE", e.day))
    PROVE  LET u == SetRun(v, OuterJob(e), st)
           IN  RowsStep(e, u) /\ u.runs[OuterJob(e)] = st
<1>1. PICK u : u = SetRun(v, OuterJob(e), st)
  OBVIOUS
<1>2. v \in Tables /\ RowsOK(v) /\ OuterJob(e) \in Jobs /\ e.kind # "OPEN"
  BY JobsTyped DEF Frame, RowsOK, OpenEvents
<1>3. RowsOK(u)
  BY <1>1, <1>2, OuterSet
<1>4. /\ u.runs[OuterJob(e)] = st
      /\ \A k \in Jobs : k # OuterJob(e) => u.runs[k] = v.runs[k]
      /\ u.resolved = v.resolved /\ u.handled = v.handled
  BY <1>1, <1>2, SetRunIs
<1>5. /\ \A f \in Event : f # e => u.runs[OuterJob(f)] = v.runs[OuterJob(f)]
      /\ \A f \in Originals, h \in Generations :
            u.runs[Attempt(f, h)] = v.runs[Attempt(f, h)]
  BY <1>4, <1>2, JobsTyped, OuterJobs
<1>6. RowsStep(e, u)
  BY <1>3, <1>4, <1>5, <1>2 DEF RowsStep, Frame
<1>. QED
  BY <1>1, <1>4, <1>6

\* AlreadyCompleted keeps the invariant.
LEMMA AlreadyCompletedKeeps ==
    ASSUME BridgeInv, NEW e, AlreadyCompleted(e)
    PROVE  BridgeInv'
<1>1. /\ e \in Event /\ e \notin OpenEvents /\ Selected(e) /\ e.kind # "OPEN"
      /\ faults' \in 0 .. MaxFaults
  BY OtherIsOther, FaultCounted DEF AlreadyCompleted, OpenEvents
<1>2. RowsStep(e, tx)
  BY <1>1, TxFrame, FrameIsStep
<1>3. PendingStep(e, tx)
  BY <1>1, StillPending DEF AlreadyCompleted
<1>4. Outcome(e, tx)
  BY <1>1 DEF AlreadyCompleted, Outcome, AckOK
<1>. QED
  BY <1>1, <1>2, <1>3, <1>4, OutcomeKeeps

\* OtherDeferred keeps the invariant.
LEMMA OtherDeferredKeeps ==
    ASSUME BridgeInv, NEW e, OtherDeferred(e)
    PROVE  BridgeInv'
<1>1. e \in Event /\ e \notin OpenEvents /\ Selected(e) /\ faults' \in 0 .. MaxFaults
  BY OtherIsOther, FaultCounted DEF OtherDeferred
<1>2. PICK u : u = ReleaseRun(EnsureRun(tx, OuterJob(e)), OuterJob(e))
  OBVIOUS
<1>3. RowsOK(tx) /\ tx \in Tables /\ OuterJob(e) \in Jobs
  BY <1>1, JobsTyped DEF BridgeInv, RowsOK
<1>4. u \in Tables /\ u.runs = tx.runs /\ u.resolved = tx.resolved /\ u.handled = tx.handled
  BY <1>1, <1>2, <1>3, NotRunning, Released
<1>5. RowsOK(u)
  BY <1>3, <1>4, SameRows
<1>6. Frame(e, u)
  BY <1>4, <1>5 DEF Frame
<1>7. RowsStep(e, u)
  BY <1>1, <1>6, FrameIsStep
<1>8. PendingStep(e, u) /\ Outcome(e, u)
  BY <1>1, <1>2, StillPending DEF OtherDeferred, Outcome
<1>. QED
  BY <1>1, <1>7, <1>8, OutcomeKeeps

\* OtherPermanent keeps the invariant.
LEMMA OtherPermanentKeeps ==
    ASSUME BridgeInv, NEW e, OtherPermanent(e)
    PROVE  BridgeInv'
<1>1. e \in Event /\ e \notin OpenEvents /\ Selected(e) /\ faults' \in 0 .. MaxFaults
  BY OtherIsOther, FaultCounted DEF OtherPermanent
<1>2. PICK st \in RunStatus \ {"RUNNING"} : st = "PERMANENT"
  BY Statuses
<1>3. PICK u : u = SetRun(tx, OuterJob(e), st)
  OBVIOUS
<1>4. RowsStep(e, u) /\ u.runs[OuterJob(e)] = st
  BY <1>1, <1>2, <1>3, TxFrame, OtherSet
<1>5. PendingStep(e, u)
  BY <1>1, StillPending DEF OtherPermanent
<1>6. Outcome(e, u)
  BY <1>2, <1>3, <1>4 DEF OtherPermanent, Outcome
<1>. QED
  BY <1>1, <1>4, <1>5, <1>6, OutcomeKeeps

\* LiveUpdate keeps the invariant.
LEMMA LiveUpdateKeeps ==
    ASSUME BridgeInv, NEW e, NEW ok \in BOOLEAN, LiveUpdate(e, ok)
    PROVE  BridgeInv'
<1>1. PICK v : v = RunJob(tx, "INTRADAY_STOP", e, ok)
  OBVIOUS
<1>2. PICK done \in BOOLEAN : done = Succeeded(v, InnerJob("INTRADAY_STOP", e.day))
  BY DEF Succeeded
<1>3. PICK st \in RunStatus \ {"RUNNING"} : st = IF done THEN "COMPLETED" ELSE "FAILED"
  BY Statuses
<1>4. PICK u : u = SetRun(v, OuterJob(e), st)
  OBVIOUS
<1>5. /\ OtherSelected(e, "LIVE") /\ UNCHANGED pending
      /\ done => Acked(e, u) /\ UNCHANGED faults
      /\ ~done => Failed(e, u) /\ Fault
  BY <1>1, <1>2, <1>3, <1>4 DEF LiveUpdate
<1>6. /\ e \in Event /\ e \notin OpenEvents /\ Selected(e) /\ e.kind = "LIVE"
      /\ faults' \in 0 .. MaxFaults
  BY <1>5, OtherIsOther, FaultCounted
<1>7. Frame(e, v)
  <2>1. PICK name \in InnerNames \ {"NEXT_OPEN_FILL"} :
           name = "INTRADAY_STOP" /\ name \notin DayNames
    BY Names DEF DayNames
  <2>. QED
    BY <2>1, <1>1, <1>6, TxFrame, JobFrame
<1>8. RowsStep(e, u)
  BY <1>4, <1>6, <1>7, OtherSet
<1>9. PendingStep(e, u)
  BY <1>5, <1>6, StillPending
<1>10. Outcome(e, u)
  BY <1>5, <1>6 DEF Outcome, AckOK
<1>. QED
  BY <1>6, <1>8, <1>9, <1>10, OutcomeKeeps

\* DailyClosed keeps the invariant.
LEMMA DailyClosedKeeps ==
    ASSUME BridgeInv, NEW e, NEW evalOk \in BOOLEAN, NEW stopOk \in BOOLEAN,
           DailyClosed(e, evalOk, stopOk)
    PROVE  BridgeInv'
<1>1. PICK w : w = RunJob(tx, "DAILY_SIGNAL_EVALUATION", e, evalOk)
  OBVIOUS
<1>2. PICK v : v = RunJob(w, "DAILY_STOP_UPDATE", e, stopOk)
  OBVIOUS
<1>3. PICK done \in BOOLEAN :
         done = (/\ Succeeded(v, InnerJob("DAILY_SIGNAL_EVALUATION", e.day))
                 /\ Succeeded(v, InnerJob("DAILY_STOP_UPDATE", e.day)))
  BY DEF Succeeded
<1>4. PICK st \in RunStatus \ {"RUNNING"} : st = IF done THEN "COMPLETED" ELSE "FAILED"
  BY Statuses
<1>5. PICK u : u = SetRun(v, OuterJob(e), st)
  OBVIOUS
<1>6. /\ OtherSelected(e, "CLOSED") /\ UNCHANGED pending
      /\ done => Acked(e, u) /\ UNCHANGED faults
      /\ ~done => Failed(e, u) /\ Fault
  BY <1>1, <1>2, <1>3, <1>4, <1>5 DEF DailyClosed
<1>7. /\ e \in Event /\ e \notin OpenEvents /\ Selected(e) /\ e.kind = "CLOSED"
      /\ e.low = 0 /\ faults' \in 0 .. MaxFaults
  BY <1>6, OtherIsOther, FaultCounted, EventFields
<1>8. Frame(e, w)
  <2>1. PICK name \in InnerNames \ {"NEXT_OPEN_FILL"} : name = "DAILY_SIGNAL_EVALUATION"
    BY Names
  <2>. QED
    BY <2>1, <1>1, <1>7, TxFrame, JobFrame
<1>9. Frame(e, v)
  <2>1. PICK name \in InnerNames \ {"NEXT_OPEN_FILL"} : name = "DAILY_STOP_UPDATE"
    BY Names
  <2>. QED
    BY <2>1, <1>2, <1>7, <1>8, JobFrame
<1>10. st = "COMPLETED" => /\ Succeeded(v, InnerJob("DAILY_SIGNAL_EVALUATION", e.day))
                           /\ Succeeded(v, InnerJob("DAILY_STOP_UPDATE", e.day))
  BY <1>3, <1>4
<1>11. RowsStep(e, u) /\ u.runs[OuterJob(e)] = st
  BY <1>5, <1>7, <1>9, <1>10, OtherSet
<1>12. PendingStep(e, u)
  BY <1>6, <1>7, StillPending
<1>13. Outcome(e, u)
  BY <1>4, <1>6, <1>7, <1>11 DEF Outcome, AckOK, Succeeded
<1>. QED
  BY <1>7, <1>11, <1>12, <1>13, OutcomeKeeps

\* Every way of processing the next event keeps the invariant.
LEMMA ProcessEventKeeps ==
    ASSUME BridgeInv, NEW e, ProcessEvent(e)
    PROVE  BridgeInv'
BY ShortCircuitKeeps, OpenAlreadyCompleteKeeps, OpenNotReadyKeeps, OpenPermanentKeeps,
   OpenGapFailsKeeps, OpenFillNotDueKeeps, OpenFillFailsKeeps, OpenCompletesKeeps,
   AlreadyCompletedKeeps, OtherDeferredKeeps, OtherPermanentKeeps, LiveUpdateKeeps,
   DailyClosedKeeps DEF ProcessEvent

--------------------------------------------------------------------------------
(* Between the events: polls, restarts, operators, the market and the clock.  *)

\* Outside a poll there is one set of rows and no event under way.
LEMMA IdleKeeps ==
    ASSUME pollState' = "idle", tx' = db', todo' = {}, toAck' = {}, toFail' = {},
           RowsOK(db'), MemoryTyped', PendingOK', Durable(db)'
    PROVE  BridgeInv'
<1>1. RowsOK(tx') /\ Durable(tx)' /\ BlockedStays'
  BY DEF Durable, BlockedStays
<1>2. PollOK'
  BY DEF PollOK
<1>. QED
  BY <1>1, <1>2 DEF BridgeInv

\* None is neither a day nor a generation.
LEMMA NoneIsNoDay == None \notin Days /\ None \notin Generations
BY BridgeConstants DEF None, Days, Generations

\* The empty runs satisfy the invariant.
LEMMA InitHolds == Init => BridgeInv
<1>1. SUFFICES ASSUME Init PROVE BridgeInv
  OBVIOUS
<1>2. /\ db \in Tables
      /\ \A j \in Jobs : db.runs[j] = "ABSENT"
      /\ db.resolved = {} /\ \A w \in Work : db.handled[w] = 0
  BY <1>1 DEF Init, Tables, RunStatus
<1>3. RowsOK(db)
  <2>1. OnlyAttemptsRun(db)
    BY <1>2 DEF OnlyAttemptsRun
  <2>2. HandledOK(db)
    <3>1. ASSUME NEW n \in InnerNames, NEW s \in Symbols, NEW d \in Days, NEW l \in Lows
          PROVE  /\ db.handled[<<n, s, d, l>>] \in {0, 1}
                 /\ db.handled[<<n, s, d, l>>] # 1
      <4>1. db.handled[<<n, s, d, l>>] = 0
        BY <1>2, Marks
      <4>. QED
        BY <4>1
    <3>. QED
      BY <3>1 DEF HandledOK
  <2>3. DayJobsOK(db)
    BY <1>2, JobsTyped, Names DEF DayJobsOK, Succeeded
  <2>4. PhasesOK(db)
    BY <1>2, JobsTyped, Names, EventsExist DEF PhasesOK, Succeeded
  <2>5. AttemptsOK(db)
    BY <1>2, JobsTyped, OpenFields DEF AttemptsOK, ActiveAttempts
  <2>. QED
    BY <1>2, <2>1, <2>2, <2>3, <2>4, <2>5 DEF RowsOK
<1>4. MemoryTyped
  BY <1>1, BridgeConstants, Names DEF Init, MemoryTyped, NoTracker
<1>5. PendingOK
  BY <1>1, OpenFields DEF Init, PendingOK
<1>6. Durable(db)
  BY <1>1, EventFields, NoneIsNoDay DEF Init, Durable, NoTracker
<1>7. Durable(tx) /\ BlockedStays /\ RowsOK(tx)
  BY <1>1, <1>3, <1>6 DEF Init, BlockedStays
<1>8. PollOK
  BY <1>1 DEF Init, PollOK
<1>. QED
  BY <1>3, <1>4, <1>5, <1>6, <1>7, <1>8 DEF BridgeInv

\* BeginPoll keeps the invariant.
LEMMA BeginPollKeeps ==
    ASSUME BridgeInv, BeginPoll
    PROVE  BridgeInv'
<1>1. /\ UNCHANGED <<db, tx, det, pending, valid, feed, clock, faults>>
      /\ toAck' = {} /\ toFail' = {} /\ pollState' = "open"
      /\ todo' \subseteq Candidates
  BY DEF BeginPoll, memory, BridgeInv, PollOK
<1>2. RowsOK(db') /\ RowsOK(tx')
  BY <1>1 DEF BridgeInv
<1>3. MemoryTyped' /\ PendingOK'
  BY <1>1 DEF BridgeInv, MemoryTyped, PendingOK
<1>4. Durable(db)' /\ Durable(tx)' /\ BlockedStays'
  BY <1>1 DEF BridgeInv, Durable, BlockedStays
<1>5. Candidates' = Candidates
  BY <1>1 DEF Candidates, Detects, EvaluationDue
<1>6. PollOK'
  BY <1>1, <1>5 DEF PollOK
<1>. QED
  BY <1>2, <1>3, <1>4, <1>6 DEF BridgeInv

\* CommitPoll keeps the invariant.
LEMMA CommitPollKeeps ==
    ASSUME BridgeInv, CommitPoll
    PROVE  BridgeInv'
<1>1. /\ UNCHANGED <<tx, todo, toAck, toFail, det, pending, valid, feed, clock, faults>>
      /\ db' = tx /\ pollState' = "committed" /\ todo = {}
  BY DEF CommitPoll, memory
<1>2. RowsOK(db') /\ RowsOK(tx')
  BY <1>1 DEF BridgeInv
<1>3. MemoryTyped' /\ PendingOK'
  BY <1>1 DEF BridgeInv, MemoryTyped, PendingOK
<1>4. Durable(db)' /\ Durable(tx)'
  BY <1>1 DEF BridgeInv, Durable
<1>5. BlockedStays'
  BY <1>1 DEF BlockedStays
<1>6. Candidates' = Candidates
  BY <1>1 DEF Candidates, Detects, EvaluationDue
<1>7. PollOK'
  BY <1>1, <1>6 DEF BridgeInv, PollOK
<1>. QED
  BY <1>2, <1>3, <1>4, <1>5, <1>7 DEF BridgeInv

\* The detector remembers an event as settled only because the poll settled it.
LEMMA TrackerIs ==
    ASSUME NEW s \in Symbols, NEW acked, NEW failed
    PROVE  LET t == AckedTracker(s, acked, failed)
               Has(E, kind) == \E e \in E : e.symbol = s /\ e.kind = kind
           IN  /\ t.openAck = det[s].openAck \/ (Has(acked, "OPEN") /\ t.openAck = feed[s].day)
               /\ t.closedAck = det[s].closedAck
                     \/ (Has(acked, "CLOSED") /\ t.closedAck = feed[s].day)
               /\ \/ t.openFailed = det[s].openFailed \/ t.openFailed = None
                  \/ Has(failed, "OPEN") /\ t.openFailed = feed[s].day
               /\ \/ t.closedFailed = det[s].closedFailed \/ t.closedFailed = None
                  \/ Has(failed, "CLOSED") /\ t.closedFailed = feed[s].day
               /\ t.low = det[s].low \/ t.low = feed[s].low
               /\ t = [openAck |-> t.openAck, openFailed |-> t.openFailed, low |-> t.low,
                       closedAck |-> t.closedAck, closedFailed |-> t.closedFailed]
BY DEF AckedTracker

\* AcknowledgePoll keeps the invariant.
LEMMA AcknowledgePollKeeps ==
    ASSUME BridgeInv, AcknowledgePoll
    PROVE  BridgeInv'
<1>1. /\ UNCHANGED <<db, tx, todo, pending, valid, feed, clock, faults>>
      /\ pollState' = "idle" /\ toAck' = {} /\ toFail' = {}
      /\ db = tx /\ todo = {}
  BY DEF AcknowledgePoll, BridgeInv, PollOK
<1>2. PICK failed \in SUBSET {e \in toFail : e.kind # "LIVE"} :
         det' = [s \in Symbols |-> AckedTracker(s, toAck, failed)]
  BY DEF AcknowledgePoll
<1>3. MemoryTyped'
  <2>1. ASSUME NEW s \in Symbols
        PROVE  AckedTracker(s, toAck, failed) \in
                  [openAck : Days \cup {None}, openFailed : Days \cup {None},
                   low : Lows \cup {None}, closedAck : Days \cup {None},
                   closedFailed : Days \cup {None}]
    <3>1. /\ det[s].openAck \in Days \cup {None} /\ det[s].openFailed \in Days \cup {None}
          /\ det[s].low \in Lows \cup {None} /\ det[s].closedAck \in Days \cup {None}
          /\ det[s].closedFailed \in Days \cup {None}
          /\ feed[s].day \in Days \cup {None} /\ feed[s].low \in Lows
      BY DEF BridgeInv, MemoryTyped
    <3>2. PICK t : t = AckedTracker(s, toAck, failed)
      OBVIOUS
    <3>3. /\ t.openAck \in Days \cup {None} /\ t.openFailed \in Days \cup {None}
          /\ t.low \in Lows \cup {None} /\ t.closedAck \in Days \cup {None}
          /\ t.closedFailed \in Days \cup {None}
          /\ t = [openAck |-> t.openAck, openFailed |-> t.openFailed, low |-> t.low,
                  closedAck |-> t.closedAck, closedFailed |-> t.closedFailed]
      BY <3>1, <3>2, TrackerIs
    <3>. QED
      BY <3>2, <3>3
  <2>. QED
    BY <2>1, <1>1, <1>2 DEF BridgeInv, MemoryTyped
<1>4. PendingOK'
  BY <1>1 DEF BridgeInv, PendingOK
<1>5. \A e \in toAck \cup toFail : e \in Event /\ e.day = feed[e.symbol].day
  BY DEF BridgeInv, PollOK, Candidates
<1>6. Durable(db)'
  <2>1. SUFFICES ASSUME NEW e \in Event
        PROVE /\ e.kind = "OPEN" /\ det'[e.symbol].openAck = e.day =>
                    Succeeded(db, OuterJob(e)) \/ e \in db.resolved
              /\ e.kind = "CLOSED" /\ det'[e.symbol].closedAck = e.day =>
                    Succeeded(db, OuterJob(e))
              /\ e.kind = "OPEN" /\ det'[e.symbol].openFailed = e.day =>
                    db.runs[OuterJob(e)] = "PERMANENT"
              /\ e.kind = "CLOSED" /\ det'[e.symbol].closedFailed = e.day =>
                    db.runs[OuterJob(e)] = "PERMANENT"
    BY <1>1 DEF Durable, Succeeded
  <2>2. PICK s \in Symbols : s = e.symbol
    BY EventFields
  <2>3. PICK t : t = AckedTracker(s, toAck, failed)
    OBVIOUS
  <2>4. det'[e.symbol] = t /\ e.day # None
    BY <1>2, <2>2, <2>3, EventFields, NoneIsNoDay
  <2>5. ASSUME NEW f \in toAck \cup toFail, f.symbol = s, f.kind = e.kind, f.kind # "LIVE",
               e.day = feed[s].day
        PROVE  f = e
    <3>1. f \in Event /\ f.day = e.day /\ f.symbol = e.symbol /\ f.low = 0 /\ e.low = 0
      BY <1>5, <2>2, <2>5, EventFields
    <3>. QED
      BY <3>1, <2>5, EventFields DEF EventOf
  <2>6. failed \subseteq toFail /\ \A f \in failed : f.kind # "LIVE"
    BY <1>2
  <2>7. ASSUME e.kind = "OPEN", t.openAck = e.day
        PROVE  Succeeded(db, OuterJob(e)) \/ e \in db.resolved
    <3>1. CASE t.openAck = det[s].openAck
      BY <3>1, <2>2, <2>7 DEF BridgeInv, Durable
    <3>2. CASE t.openAck = feed[s].day /\ \E f \in toAck : f.symbol = s /\ f.kind = "OPEN"
      <4>1. e \in toAck
        BY <3>2, <2>5, <2>7
      <4>. QED
        BY <4>1, <2>7, <1>1 DEF BridgeInv, PollOK
    <3>. QED
      BY <3>1, <3>2, <2>3, TrackerIs
  <2>8. ASSUME e.kind = "CLOSED", t.closedAck = e.day
        PROVE  Succeeded(db, OuterJob(e))
    <3>1. CASE t.closedAck = det[s].closedAck
      BY <3>1, <2>2, <2>8 DEF BridgeInv, Durable
    <3>2. CASE t.closedAck = feed[s].day /\ \E f \in toAck : f.symbol = s /\ f.kind = "CLOSED"
      <4>1. e \in toAck
        BY <3>2, <2>5, <2>8
      <4>. QED
        BY <4>1, <2>8, <1>1 DEF BridgeInv, PollOK
    <3>. QED
      BY <3>1, <3>2, <2>3, TrackerIs
  <2>9. ASSUME e.kind = "OPEN", t.openFailed = e.day
        PROVE  db.runs[OuterJob(e)] = "PERMANENT"
    <3>1. CASE t.openFailed = det[s].openFailed
      BY <3>1, <2>2, <2>9 DEF BridgeInv, Durable
    <3>2. CASE t.openFailed = feed[s].day /\ \E f \in failed : f.symbol = s /\ f.kind = "OPEN"
      <4>1. e \in toFail
        BY <3>2, <2>5, <2>6, <2>9
      <4>. QED
        BY <4>1, <2>9, <1>1 DEF BridgeInv, PollOK
    <3>. QED
      BY <3>1, <3>2, <2>3, <2>4, <2>9, TrackerIs
  <2>10. ASSUME e.kind = "CLOSED", t.closedFailed = e.day
         PROVE  db.runs[OuterJob(e)] = "PERMANENT"
    <3>1. CASE t.closedFailed = det[s].closedFailed
      BY <3>1, <2>2, <2>10 DEF BridgeInv, Durable
    <3>2. CASE t.closedFailed = feed[s].day
               /\ \E f \in failed : f.symbol = s /\ f.kind = "CLOSED"
      <4>1. e \in toFail
        BY <3>2, <2>5, <2>6, <2>10
      <4>. QED
        BY <4>1, <2>10, <1>1 DEF BridgeInv, PollOK
    <3>. QED
      BY <3>1, <3>2, <2>3, <2>4, <2>10, TrackerIs
  <2>. QED
    BY <2>4, <2>7, <2>8, <2>9, <2>10
<1>7. RowsOK(db')
  BY <1>1 DEF BridgeInv
<1>. QED
  BY <1>1, <1>3, <1>4, <1>6, <1>7, IdleKeeps

\* AbortPoll keeps the invariant.
LEMMA AbortPollKeeps ==
    ASSUME BridgeInv, AbortPoll
    PROVE  BridgeInv'
<1>1. /\ UNCHANGED <<db, det, pending, valid, feed, clock>>
      /\ tx' = db /\ pollState' = "idle" /\ todo' = {} /\ toAck' = {} /\ toFail' = {}
      /\ faults' \in 0 .. MaxFaults
  BY FaultCounted DEF AbortPoll, memory
<1>2. RowsOK(db') /\ MemoryTyped' /\ PendingOK' /\ Durable(db)'
  BY <1>1 DEF BridgeInv, MemoryTyped, PendingOK, Durable
<1>. QED
  BY <1>1, <1>2, IdleKeeps

\* Startup fails the orphaned runs, which can only be recovery attempts.
LEMMA CrashAndRestartKeeps ==
    ASSUME BridgeInv, CrashAndRestart
    PROVE  BridgeInv'
<1>1. /\ db' = [db EXCEPT !.runs =
                    [j \in Jobs |-> IF @[j] = "RUNNING" THEN "FAILED" ELSE @[j]]]
      /\ tx' = db' /\ pollState' = "idle" /\ todo' = {} /\ toAck' = {} /\ toFail' = {}
      /\ det' = [s \in Symbols |-> NoTracker]
      /\ pending' = [e \in Originals |-> None]
      /\ valid' \in [Symbols -> BOOLEAN]
      /\ UNCHANGED <<feed, clock>> /\ faults' \in 0 .. MaxFaults
  BY FaultCounted DEF CrashAndRestart
<1>2. PICK u : u = db'
  OBVIOUS
<1>3. RowsOK(db) /\ db \in Tables
  BY DEF BridgeInv, RowsOK
<1>4. /\ u \in Tables /\ u.resolved = db.resolved /\ u.handled = db.handled
      /\ \A j \in Jobs : u.runs[j] = IF db.runs[j] = "RUNNING" THEN "FAILED" ELSE db.runs[j]
  BY <1>1, <1>2, <1>3 DEF Tables, RunStatus
<1>5. RowsOK(u)
  <2>1. \A j \in Jobs : Succeeded(u, j) <=> Succeeded(db, j)
    BY <1>4 DEF Succeeded
  <2>2. OnlyAttemptsRun(u)
    BY <1>4 DEF OnlyAttemptsRun
  <2>3. HandledOK(u)
    <3>1. HandledOK(db) /\ \A n \in InnerNames, d \in Days : InnerJob(n, d) \in Jobs
      BY <1>3, JobsTyped DEF RowsOK
    <3>. QED
      BY <3>1, <1>4, <2>1 DEF HandledOK
  <2>4. DayJobsOK(u)
    BY <1>3, <1>4, <2>1, JobsTyped, Names DEF RowsOK, DayJobsOK
  <2>5. PhasesOK(u)
    <3>1. PhasesOK(db)
      BY <1>3 DEF RowsOK
    <3>. QED
      BY <3>1, <2>1, JobsTyped, Names, EventsExist DEF PhasesOK
  <2>6. AttemptsOK(u)
    <3>1. SUFFICES ASSUME NEW f \in OpenEvents
                   PROVE  /\ ActiveAttempts(u, f) # {} => u.runs[OuterJob(f)] = "PERMANENT"
                          /\ f \in u.resolved =>
                                \E h \in Generations : u.runs[Attempt(f, h)] # "ABSENT"
      BY DEF AttemptsOK
    <3>2. f \in Event /\ f \in Originals
      BY OpenFields
    <3>3. ActiveAttempts(u, f) \subseteq ActiveAttempts(db, f)
      BY <3>2, <1>4, JobsTyped DEF ActiveAttempts
    <3>4. \A h \in Generations : db.runs[Attempt(f, h)] # "ABSENT" =>
                                 u.runs[Attempt(f, h)] # "ABSENT"
      BY <3>2, <1>4, JobsTyped
    <3>5. db.runs[OuterJob(f)] = "PERMANENT" => u.runs[OuterJob(f)] = "PERMANENT"
      BY <3>2, <1>4, JobsTyped
    <3>. QED
      BY <3>3, <3>4, <3>5, <1>3, <1>4 DEF RowsOK, AttemptsOK
  <2>. QED
    BY <1>4, <2>2, <2>3, <2>4, <2>5, <2>6 DEF RowsOK
<1>6. MemoryTyped'
  BY <1>1 DEF BridgeInv, MemoryTyped, NoTracker
<1>7. PendingOK'
  BY <1>1, OpenFields DEF PendingOK
<1>8. Durable(db)'
  BY <1>1, EventFields, NoneIsNoDay DEF Durable, NoTracker
<1>. QED
  BY <1>1, <1>2, <1>5, <1>6, <1>7, <1>8, IdleKeeps

\* RecoverPermanent keeps the invariant.
LEMMA RecoverPermanentKeeps ==
    ASSUME BridgeInv, NEW e \in Originals, RecoverPermanent(e)
    PROVE  BridgeInv'
<1>1. PICK g : g = Cardinality({h \in Generations : db.runs[Attempt(e, h)] # "ABSENT"}) + 1
  OBVIOUS
<1>2. /\ pollState = "idle" /\ db.runs[OuterJob(e)] = "PERMANENT" /\ g <= MaxGeneration
      /\ db' = SetRun(db, Attempt(e, g), "RUNNING") /\ tx' = db'
      /\ pending' = [pending EXCEPT ![e] = g]
      /\ det' = [det EXCEPT ![e.symbol] =
                   IF e.kind = "OPEN" THEN [@ EXCEPT !.openFailed = None]
                                      ELSE [@ EXCEPT !.closedFailed = None]]
      /\ UNCHANGED <<todo, toAck, toFail, pollState, valid, feed, clock, faults>>
  BY <1>1 DEF RecoverPermanent
<1>3. /\ db = tx /\ todo = {} /\ toAck = {} /\ toFail = {}
      /\ RowsOK(db) /\ db \in Tables /\ e \in Event /\ e.symbol \in Symbols
  BY <1>2, OriginalsAreEvents, EventFields DEF BridgeInv, PollOK, RowsOK
<1>4. g \in Generations
  <2>1. PICK A : A = {h \in Generations : db.runs[Attempt(e, h)] # "ABSENT"}
    OBVIOUS
  <2>2. IsFiniteSet(Generations) /\ A \subseteq Generations
    BY <2>1, BridgeConstants, FS_Interval DEF Generations
  <2>3. Cardinality(A) \in Nat
    BY <2>2, FS_Subset, FS_CardinalityType
  <2>. QED
    BY <1>1, <1>2, <2>1, <2>3, BridgeConstants DEF Generations
<1>5. PICK st \in RunStatus \ {"ABSENT"} : st = "RUNNING"
  BY Statuses
<1>6. db' = SetRun(db, Attempt(e, g), st) /\ Attempt(e, g) \in Jobs
  BY <1>2, <1>4, <1>5, JobsTyped
<1>7. RowsOK(db')
  BY <1>2, <1>3, <1>4, <1>6, AttemptSet
<1>8. /\ db'.runs[Attempt(e, g)] = st
      /\ \A k \in Jobs : k # Attempt(e, g) => db'.runs[k] = db.runs[k]
      /\ db'.resolved = db.resolved
  BY <1>3, <1>6, SetRunIs
<1>9. /\ \A f \in Event : db'.runs[OuterJob(f)] = db.runs[OuterJob(f)]
      /\ \A f \in Originals, h \in Generations :
            db.runs[Attempt(f, h)] # "ABSENT" => db'.runs[Attempt(f, h)] # "ABSENT"
  BY <1>5, <1>8, JobsTyped, OuterJobs
<1>10. MemoryTyped'
  <2>1. PICK T : T = [openAck : Days \cup {None}, openFailed : Days \cup {None},
                      low : Lows \cup {None}, closedAck : Days \cup {None},
                      closedFailed : Days \cup {None}]
    OBVIOUS
  <2>2. det \in [Symbols -> T]
    BY <2>1 DEF BridgeInv, MemoryTyped
  <2>3. /\ [det[e.symbol] EXCEPT !.openFailed = None] \in T
        /\ [det[e.symbol] EXCEPT !.closedFailed = None] \in T
    BY <1>3, <2>1, <2>2
  <2>4. det' \in [Symbols -> T]
    BY <1>2, <1>3, <2>2, <2>3
  <2>. QED
    BY <1>2, <2>1, <2>4 DEF BridgeInv, MemoryTyped
<1>11. PendingOK'
  <2>1. pending' \in [Originals -> Generations \cup {None}]
    BY <1>2, <1>4 DEF BridgeInv, PendingOK
  <2>2. ASSUME NEW f \in OpenEvents, pending'[f] # None
        PROVE  /\ db'.runs[OuterJob(f)] = "PERMANENT"
               /\ db'.runs[Attempt(f, pending'[f])] # "ABSENT"
    <3>1. f \in Event /\ f \in Originals
      BY OpenFields
    <3>2. CASE f = e
      <4>1. pending'[f] = g
        BY <3>2, <1>2 DEF BridgeInv, PendingOK
      <4>. QED
        BY <4>1, <3>1, <3>2, <1>2, <1>5, <1>8, <1>9
    <3>3. CASE f # e
      <4>1. pending'[f] = pending[f] /\ pending[f] \in Generations
        BY <2>2, <3>1, <3>3, <1>2 DEF BridgeInv, PendingOK
      <4>. QED
        BY <4>1, <2>2, <3>1, <1>9 DEF BridgeInv, PendingOK
    <3>. QED
      BY <3>2, <3>3
  <2>. QED
    BY <2>1, <2>2, <1>2 DEF PendingOK
<1>12. Durable(db)'
  <2>1. ASSUME NEW s \in Symbols
        PROVE  /\ det'[s].openAck = det[s].openAck /\ det'[s].closedAck = det[s].closedAck
               /\ det'[s].openFailed \in {det[s].openFailed, None}
               /\ det'[s].closedFailed \in {det[s].closedFailed, None}
    BY <1>2 DEF BridgeInv, MemoryTyped
  <2>2. SUFFICES ASSUME NEW f \in Event
        PROVE /\ f.kind = "OPEN" /\ det'[f.symbol].openAck = f.day =>
                    Succeeded(db', OuterJob(f)) \/ f \in db'.resolved
              /\ f.kind = "CLOSED" /\ det'[f.symbol].closedAck = f.day =>
                    Succeeded(db', OuterJob(f))
              /\ f.kind = "OPEN" /\ det'[f.symbol].openFailed = f.day =>
                    db'.runs[OuterJob(f)] = "PERMANENT"
              /\ f.kind = "CLOSED" /\ det'[f.symbol].closedFailed = f.day =>
                    db'.runs[OuterJob(f)] = "PERMANENT"
    BY DEF Durable, Succeeded
  <2>3. f.symbol \in Symbols /\ f.day # None
    BY EventFields, NoneIsNoDay
  <2>4. Durable(db)
    BY DEF BridgeInv
  <2>. QED
    BY <2>1, <2>3, <2>4, <1>8, <1>9 DEF Durable, Succeeded
<1>. QED
  BY <1>2, <1>3, <1>7, <1>10, <1>11, <1>12, IdleKeeps

\* BackoffElapses keeps the invariant.
LEMMA BackoffElapsesKeeps ==
    ASSUME BridgeInv, NEW g, BackoffElapses(g)
    PROVE  BridgeInv'
<1>1. /\ pollState = "idle" /\ db' = [db EXCEPT !.backoff = @ \ {g}] /\ tx' = db'
      /\ UNCHANGED <<todo, toAck, toFail, pollState, det, pending, valid, feed, clock, faults>>
  BY DEF BackoffElapses, memory
<1>2. db = tx /\ todo = {} /\ toAck = {} /\ toFail = {} /\ RowsOK(db) /\ db \in Tables
  BY <1>1 DEF BridgeInv, PollOK, RowsOK
<1>3. /\ db' \in Tables /\ db'.runs = db.runs /\ db'.resolved = db.resolved
      /\ db'.handled = db.handled
  BY <1>1, <1>2 DEF Tables
<1>4. RowsOK(db')
  BY <1>2, <1>3, SameRows
<1>5. MemoryTyped'
  BY <1>1 DEF BridgeInv, MemoryTyped
<1>6. PendingOK' /\ Durable(db)'
  BY <1>1, <1>3 DEF BridgeInv, PendingOK, Durable, Succeeded
<1>. QED
  BY <1>1, <1>2, <1>4, <1>5, <1>6, IdleKeeps

\* A candle, a tick of the clock, or nothing at all, between two polls.
LEMMA MarketKeeps ==
    ASSUME BridgeInv, FeedChanges,
           feed' \in [Symbols -> [day : Days \cup {None}, closed : BOOLEAN, low : Lows]],
           clock' \in 0 .. 2 * (LastDay + 1) + 1
    PROVE  BridgeInv'
<1>1. /\ pollState = "idle"
      /\ UNCHANGED <<db, tx, todo, toAck, toFail, pollState, det, pending, valid, faults>>
  BY DEF FeedChanges, bridgeVars, memory
<1>2. db = tx /\ todo = {} /\ toAck = {} /\ toFail = {} /\ RowsOK(db)
  BY <1>1 DEF BridgeInv, PollOK
<1>3. MemoryTyped'
  BY <1>1 DEF BridgeInv, MemoryTyped
<1>4. PendingOK' /\ Durable(db)'
  BY <1>1 DEF BridgeInv, PendingOK, Durable
<1>. QED
  BY <1>1, <1>2, <1>3, <1>4, IdleKeeps

\* CandleArrives, LowFalls and CandleCloses keep the invariant.
LEMMA FeedKeeps ==
    ASSUME BridgeInv, NEW s \in Symbols, CandleArrives(s) \/ LowFalls(s) \/ CandleCloses(s)
    PROVE  BridgeInv'
<1>1. /\ feed \in [Symbols -> [day : Days \cup {None}, closed : BOOLEAN, low : Lows]]
      /\ clock \in 0 .. 2 * (LastDay + 1) + 1
  BY DEF BridgeInv, MemoryTyped
<1>2. FeedChanges /\ UNCHANGED clock
  BY DEF CandleArrives, LowFalls, CandleCloses
<1>3. CASE CandleArrives(s)
  <2>1. feed[s].day + 1 \in Days
    BY <1>1, <1>3, BridgeConstants DEF CandleArrives, Days, None
  <2>2. feed' \in [Symbols -> [day : Days \cup {None}, closed : BOOLEAN, low : Lows]]
    BY <1>1, <1>3, <2>1, Names DEF CandleArrives
  <2>. QED
    BY <1>1, <1>2, <2>2, MarketKeeps
<1>4. CASE LowFalls(s)
  <2>1. feed[s].low + 1 \in Lows
    BY <1>1, <1>4, BridgeConstants DEF LowFalls, Lows
  <2>2. feed' \in [Symbols -> [day : Days \cup {None}, closed : BOOLEAN, low : Lows]]
    BY <1>1, <1>4, <2>1 DEF LowFalls
  <2>. QED
    BY <1>1, <1>2, <2>2, MarketKeeps
<1>5. CASE CandleCloses(s)
  <2>1. feed' \in [Symbols -> [day : Days \cup {None}, closed : BOOLEAN, low : Lows]]
    BY <1>1, <1>5 DEF CandleCloses
  <2>. QED
    BY <1>1, <1>2, <2>1, MarketKeeps
<1>. QED
  BY <1>3, <1>4, <1>5

\* Tick keeps the invariant.
LEMMA TickKeeps ==
    ASSUME BridgeInv, Tick
    PROVE  BridgeInv'
<1>1. FeedChanges /\ UNCHANGED feed
  BY DEF Tick
<1>2. clock' \in 0 .. 2 * (LastDay + 1) + 1
  BY BridgeConstants DEF Tick, BridgeInv, MemoryTyped
<1>3. feed' \in [Symbols -> [day : Days \cup {None}, closed : BOOLEAN, low : Lows]]
  BY <1>1 DEF BridgeInv, MemoryTyped
<1>. QED
  BY <1>1, <1>2, <1>3, MarketKeeps

\* A step that leaves all but the gates as they are keeps the invariant.
LEMMA SameStateKeeps ==
    ASSUME BridgeInv,
           UNCHANGED <<db, tx, todo, toAck, toFail, pollState, det, pending, valid, feed>>,
           UNCHANGED <<clock, faults>>
    PROVE  BridgeInv'
<1>1. /\ UNCHANGED <<db, tx, todo, toAck, toFail, pollState, det, pending, valid, feed>>
      /\ UNCHANGED <<clock, faults>>
  OBVIOUS
<1>2. RowsOK(db)' /\ RowsOK(tx)' /\ MemoryTyped' /\ PendingOK'
  BY <1>1 DEF BridgeInv, MemoryTyped, PendingOK
<1>3. Candidates' = Candidates
  BY <1>1 DEF Candidates, Detects, EvaluationDue
<1>4. PollOK' /\ Durable(db)' /\ Durable(tx)' /\ BlockedStays'
  BY <1>1, <1>3 DEF BridgeInv, PollOK, Durable, BlockedStays
<1>. QED
  BY <1>2, <1>4 DEF BridgeInv

\* GatesChange keeps the invariant, which does not mention the gates.
LEMMA GatesChangeKeeps ==
    ASSUME BridgeInv, GatesChange
    PROVE  BridgeInv'
<1>1. /\ UNCHANGED <<db, tx, todo, toAck, toFail, pollState, det, pending, valid, feed>>
      /\ UNCHANGED <<clock, faults>>
  BY DEF GatesChange, bridgeVars, memory
<1>. QED
  BY <1>1, SameStateKeeps

\* A stuttering step keeps the invariant.
LEMMA StutterKeeps ==
    ASSUME BridgeInv, UNCHANGED vars
    PROVE  BridgeInv'
<1>1. /\ UNCHANGED <<db, tx, todo, toAck, toFail, pollState, det, pending, valid, feed>>
      /\ UNCHANGED <<clock, faults>>
  BY DEF vars, bridgeVars, memory
<1>. QED
  BY <1>1, SameStateKeeps

GateIsBoolean == gatesOpen \in BOOLEAN

\* The gates are open or closed: no step of a poll changes them, and those that do flip
\* or close them.
LEMMA GatesTyped == Spec => []GateIsBoolean
<1>1. Init => GateIsBoolean
  BY DEF Init, GateIsBoolean
<1>2. GateIsBoolean /\ [Next]_vars => GateIsBoolean'
  <2>. SUFFICES ASSUME gatesOpen \in BOOLEAN, [Next]_vars PROVE gatesOpen' \in BOOLEAN
    BY DEF GateIsBoolean
  <2>1. ASSUME NEW e \in todo, ProcessEvent(e) PROVE gatesOpen' = gatesOpen
    BY <2>1 DEF ProcessEvent, ShortCircuit, OpenAlreadyComplete, OpenNotReady, OpenPermanent,
       OpenGapFails, OpenFillNotDue, OpenFillFails, OpenCompletes, AlreadyCompleted,
       OtherDeferred, OtherPermanent, LiveUpdate, DailyClosed, Acked, Deferred, Failed,
       TerminalFailed
  <2>2. ASSUME \/ BeginPoll \/ CommitPoll \/ AcknowledgePoll \/ AbortPoll \/ Tick
               \/ UNCHANGED vars \/ \E e \in Originals : RecoverPermanent(e)
               \/ \E g \in db.backoff : BackoffElapses(g)
               \/ \E s \in Symbols : CandleArrives(s) \/ LowFalls(s) \/ CandleCloses(s)
        PROVE  gatesOpen' = gatesOpen
    BY <2>2 DEF BeginPoll, CommitPoll, AcknowledgePoll, AbortPoll, Tick, RecoverPermanent,
       BackoffElapses, CandleArrives, LowFalls, CandleCloses, FeedChanges, vars
  <2>3. ASSUME GatesChange \/ CrashAndRestart PROVE gatesOpen' \in BOOLEAN
    BY <2>3 DEF GatesChange, CrashAndRestart
  <2>. QED
    BY <2>1, <2>2, <2>3 DEF Next
<1>. QED
  BY <1>1, <1>2, PTL DEF Spec

--------------------------------------------------------------------------------
(* Theorems.                                                                  *)

\* Over every interleaving of polls, deferrals, failures, rollbacks, crashes, recoveries,
\* candles and ticks the inductive invariant holds: process_after_poll, the COMMIT of
\* its transaction and the acknowledgement after it keep rows and memory together.
THEOREM BridgeInvariant == Spec => []BridgeInv
<1>1. Init => BridgeInv
  BY InitHolds
<1>2. BridgeInv /\ [Next]_vars => BridgeInv'
  BY BeginPollKeeps, ProcessEventKeeps, CommitPollKeeps, AcknowledgePollKeeps,
     AbortPollKeeps, CrashAndRestartKeeps, RecoverPermanentKeeps, BackoffElapsesKeeps,
     GatesChangeKeeps, FeedKeeps, TickKeeps, StutterKeeps DEF Next
<1>. QED
  BY <1>1, <1>2, PTL DEF Spec

\* For every number of symbols, nothing is acknowledged that is not durable and no run of a
\* poll is left RUNNING, whether the poll was acknowledged, deferred, rolled back or cut off
\* by a crash (_process_committed_market_event_poll, _release_uncommitted_scheduler_run).
THEOREM PollsAtomic == Spec => []PollsAreAtomic
<1>1. BridgeInv /\ GateIsBoolean => PollsAreAtomic
  <2>1. SUFFICES ASSUME BridgeInv, gatesOpen \in BOOLEAN
                 PROVE  TypeOK /\ AckedIsDurable /\ NoOrphanRuns
    BY DEF PollsAreAtomic, GateIsBoolean
  <2>2. TypeOK
    <3>1. db \in Tables /\ tx \in Tables
      BY <2>1 DEF BridgeInv, RowsOK
    <3>2. todo \subseteq Event /\ toAck \subseteq Event /\ toFail \subseteq Event
      BY <2>1 DEF BridgeInv, PollOK, Candidates
    <3>3. /\ pending \in [Originals -> Generations \cup {None}]
          /\ pollState \in {"idle", "open", "committed"}
      BY <2>1 DEF BridgeInv, PendingOK, PollOK
    <3>4. MemoryTyped
      BY <2>1 DEF BridgeInv
    <3>. QED
      BY <2>1, <3>1, <3>2, <3>3, <3>4 DEF TypeOK, MemoryTyped
  <2>3. AckedIsDurable
    <3>1. SUFFICES ASSUME NEW s \in Symbols, NEW d \in Days, NEW o, NEW c,
                          o = EventOf("OPEN", s, d, 0), c = EventOf("CLOSED", s, d, 0)
          PROVE /\ det[s].openAck = d => Succeeded(db, OuterJob(o)) \/ o \in db.resolved
                /\ det[s].closedAck = d => Succeeded(db, OuterJob(c))
                /\ det[s].openFailed = d => db.runs[OuterJob(o)] = "PERMANENT"
                /\ det[s].closedFailed = d => db.runs[OuterJob(c)] = "PERMANENT"
      BY DEF AckedIsDurable
    <3>2. /\ o \in Event /\ o.kind = "OPEN" /\ o.symbol = s /\ o.day = d
          /\ c \in Event /\ c.kind = "CLOSED" /\ c.symbol = s /\ c.day = d
      BY <3>1, EventsExist DEF EventOf
    <3>. QED
      BY <2>1, <3>2 DEF BridgeInv, Durable
  <2>4. NoOrphanRuns
    BY <2>1 DEF BridgeInv, RowsOK, OnlyAttemptsRun, NoOrphanRuns, Attempts
  <2>. QED
    BY <2>2, <2>3, <2>4
<1>. QED
  BY <1>1, BridgeInvariant, GatesTyped, PTL

\* A fill was processed for a symbol only on a day whose gap stops some symbol had
\* processed: the jobs of the scheduler name the day and not the symbol.
FillAfterADaysGap ==
    \A s \in Symbols, d \in Days :
       db.handled[<<"NEXT_OPEN_FILL", s, d, 0>>] > 0 =>
          \E p \in Symbols : db.handled[<<"STOP_TRIGGER", p, d, 0>>] = 1

\* No work has two marks, and a fill has the mark of some symbol's gap stops of that day.
LEMMA MarksAreOnce ==
    ASSUME NEW t, RowsOK(t)
    PROVE  /\ \A w \in Work : t.handled[w] \in {0, 1}
           /\ \A s \in Symbols, d \in Days :
                 t.handled[<<"NEXT_OPEN_FILL", s, d, 0>>] > 0 =>
                    \E p \in Symbols : t.handled[<<"STOP_TRIGGER", p, d, 0>>] = 1
<1>1. \A w \in Work : t.handled[w] \in {0, 1}
  BY Marks DEF RowsOK, HandledOK
<1>2. ASSUME NEW s \in Symbols, NEW d \in Days,
             t.handled[<<"NEXT_OPEN_FILL", s, d, 0>>] > 0
      PROVE  \E p \in Symbols : t.handled[<<"STOP_TRIGGER", p, d, 0>>] = 1
  <2>1. t.handled[<<"NEXT_OPEN_FILL", s, d, 0>>] = 1
    BY <1>1, <1>2, Marks, Names
  <2>2. Succeeded(t, InnerJob("NEXT_OPEN_FILL", d))
    BY <2>1, Names DEF RowsOK, HandledOK
  <2>3. Succeeded(t, InnerJob("STOP_TRIGGER", d))
    BY <2>2 DEF RowsOK, PhasesOK
  <2>. QED
    BY <2>3, Names DEF RowsOK, DayJobsOK
<1>. QED
  BY <1>1, <1>2

\* For every number of symbols no replay runs a handler twice for the same work, and no
\* day's fills precede the day's gap stops (run_job, _run_open_subjob).
THEOREM HandledOnce == Spec => [](HandledAtMostOnce /\ FillAfterADaysGap)
<1>1. BridgeInv => HandledAtMostOnce /\ FillAfterADaysGap
  <2>1. SUFFICES ASSUME BridgeInv PROVE HandledAtMostOnce /\ FillAfterADaysGap
    OBVIOUS
  <2>2. RowsOK(db) /\ RowsOK(tx)
    BY <2>1 DEF BridgeInv
  <2>3. HandledAtMostOnce
    <3>1. \A w \in Work : db.handled[w] \in {0, 1} /\ tx.handled[w] \in {0, 1}
      BY <2>2, MarksAreOnce
    <3>2. SUFFICES ASSUME NEW w \in Work PROVE db.handled[w] <= 1 /\ tx.handled[w] <= 1
      BY DEF HandledAtMostOnce
    <3>3. db.handled[w] \in {0, 1} /\ tx.handled[w] \in {0, 1}
      BY <3>1
    <3>. QED
      BY <3>3
  <2>4. FillAfterADaysGap
    BY <2>2, MarksAreOnce DEF FillAfterADaysGap
  <2>. QED
    BY <2>3, <2>4
<1>. QED
  BY <1>1, BridgeInvariant, PTL

\* With one symbol the day's gap stops are the symbol's own: each handler runs once, and
\* no fill precedes the gap stops of its open.  With two symbols this is false.
THEOREM OneSymbolInOrder == ASSUME NumSymbols = 1 PROVE Spec => []OnceAndInOrder
<1>1. BridgeInv => FillAfterGap
  <2>1. SUFFICES ASSUME BridgeInv, NEW t \in {db, tx}, NEW s \in Symbols, NEW d \in Days,
                        t.handled[<<"NEXT_OPEN_FILL", s, d, 0>>] > 0
                 PROVE  t.handled[<<"STOP_TRIGGER", s, d, 0>>] > 0
    BY DEF FillAfterGap
  <2>2. RowsOK(t)
    BY <2>1 DEF BridgeInv
  <2>3. PICK p \in Symbols : t.handled[<<"STOP_TRIGGER", p, d, 0>>] = 1
    BY <2>1, <2>2, MarksAreOnce
  <2>4. p = s
    BY DEF Symbols
  <2>. QED
    BY <2>3, <2>4
<1>2. BridgeInv /\ HandledAtMostOnce => OnceAndInOrder
  BY <1>1 DEF OnceAndInOrder
<1>. QED
  BY <1>2, BridgeInvariant, HandledOnce, PTL

\* With one symbol a completed job of the symbol means that its work was done: the marks of
\* the gap stops, the fill, the evaluation and the stop update are there.
THEOREM OneSymbolHandled == ASSUME NumSymbols = 1 PROVE Spec => []CompletedMeansHandled
<1>1. BridgeInv => CompletedMeansHandled
  <2>1. SUFFICES ASSUME BridgeInv, NEW s \in Symbols, NEW d \in Days
        PROVE /\ Succeeded(db, SubJob("gap", s, d)) =>
                    db.handled[<<"STOP_TRIGGER", s, d, 0>>] = 1
              /\ Succeeded(db, SubJob("fill", s, d)) =>
                    db.handled[<<"NEXT_OPEN_FILL", s, d, 0>>] = 1
              /\ Succeeded(db, OuterJob(EventOf("CLOSED", s, d, 0))) =>
                    /\ db.handled[<<"DAILY_SIGNAL_EVALUATION", s, d, 0>>] = 1
                    /\ db.handled[<<"DAILY_STOP_UPDATE", s, d, 0>>] = 1
    BY DEF CompletedMeansHandled
  <2>2. DayJobsOK(db) /\ PhasesOK(db)
    BY <2>1 DEF BridgeInv, RowsOK
  <2>3. \A p \in Symbols : p = s
    BY DEF Symbols
  <2>4. \A n \in DayNames : Succeeded(db, InnerJob(n, d)) => db.handled[<<n, s, d, 0>>] = 1
    <3>1. SUFFICES ASSUME NEW n \in DayNames, Succeeded(db, InnerJob(n, d))
                   PROVE  db.handled[<<n, s, d, 0>>] = 1
      OBVIOUS
    <3>2. PICK p \in Symbols : db.handled[<<n, p, d, 0>>] = 1
      BY <2>2, <3>1 DEF DayJobsOK
    <3>3. p = s
      BY <2>3
    <3>. QED
      BY <3>2, <3>3
  <2>. QED
    BY <2>2, <2>4, Names DEF PhasesOK
<1>. QED
  BY <1>1, BridgeInvariant, PTL

\* Only a COMMIT moves a mark from the transaction into the committed rows.
LEMMA MarksMove ==
    ASSUME BridgeInv, [Next]_vars
    PROVE  db' = tx \/ db'.handled = db.handled
<1>1. db \in Tables
  BY DEF BridgeInv, RowsOK
<1>2. ASSUME NEW e \in todo, ProcessEvent(e) PROVE db' = db
  BY <1>2 DEF ProcessEvent, ShortCircuit, OpenAlreadyComplete, OpenNotReady, OpenPermanent,
     OpenGapFails, OpenFillNotDue, OpenFillFails, OpenCompletes, AlreadyCompleted,
     OtherDeferred, OtherPermanent, LiveUpdate, DailyClosed, Acked, Deferred, Failed,
     TerminalFailed
<1>3. ASSUME CrashAndRestart PROVE db'.handled = db.handled
  BY <1>1, <1>3 DEF CrashAndRestart, Tables
<1>4. ASSUME NEW e \in Originals, RecoverPermanent(e) PROVE db'.handled = db.handled
  BY <1>1, <1>4 DEF RecoverPermanent, SetRun, Tables
<1>5. ASSUME NEW g \in db.backoff, BackoffElapses(g) PROVE db'.handled = db.handled
  BY <1>1, <1>5 DEF BackoffElapses, Tables
<1>6. ASSUME NEW s \in Symbols, CandleArrives(s) \/ LowFalls(s) \/ CandleCloses(s)
      PROVE  db' = db
  BY <1>6 DEF CandleArrives, LowFalls, CandleCloses, FeedChanges, bridgeVars
<1>7. ASSUME \/ BeginPoll \/ AcknowledgePoll \/ AbortPoll \/ GatesChange \/ Tick
             \/ UNCHANGED vars
      PROVE  db' = db
  BY <1>7 DEF BeginPoll, AcknowledgePoll, AbortPoll, GatesChange, Tick, FeedChanges, vars,
     bridgeVars
<1>8. ASSUME CommitPoll PROVE db' = tx
  BY <1>8 DEF CommitPoll
<1>. QED
  BY <1>2, <1>3, <1>4, <1>5, <1>6, <1>7, <1>8 DEF Next

\* For every number of symbols, while an open is permanently failed and no operator has
\* recovered it, no step of any poll processes its fill
\* (_maybe_short_circuit_permanent_failure, across restarts).
THEOREM PermanentBlocks == Spec => PermanentBlocksFill
<1> DEFINE Kept ==
         \A s \in Symbols, d \in Days :
            LET o == EventOf("OPEN", s, d, 0)
                w == <<"NEXT_OPEN_FILL", s, d, 0>>
            IN  /\ db.runs[OuterJob(o)] = "PERMANENT"
                /\ \A g \in Generations : db.runs[Attempt(o, g)] = "ABSENT"
                => db'.handled[w] = db.handled[w]
<1>1. BridgeInv /\ [Next]_vars => Kept
  <2>1. SUFFICES ASSUME BridgeInv, [Next]_vars, NEW s \in Symbols, NEW d \in Days, NEW o,
                        o = EventOf("OPEN", s, d, 0), Blocked(db, o)
                 PROVE  db'.handled[<<"NEXT_OPEN_FILL", s, d, 0>>]
                           = db.handled[<<"NEXT_OPEN_FILL", s, d, 0>>]
    BY DEF Blocked
  <2>2. o \in OpenEvents /\ FillMark(o) = <<"NEXT_OPEN_FILL", s, d, 0>>
    <3>1. o \in Event /\ o.kind = "OPEN" /\ o.symbol = s /\ o.day = d
      BY <2>1, EventsExist DEF EventOf
    <3>. QED
      BY <3>1 DEF OpenEvents, FillMark
  <2>3. tx.handled[FillMark(o)] = db.handled[FillMark(o)]
    BY <2>1, <2>2 DEF BridgeInv, BlockedStays
  <2>. QED
    BY <2>1, <2>2, <2>3, MarksMove
<1>2. Spec => [][Kept]_vars
  BY <1>1, BridgeInvariant, PTL DEF Spec
<1>. QED
  BY <1>2, PTL DEF PermanentBlocksFill

================================================================================
