# Verification of the trading bot and its research lab

TLA+ models of the paper trading worker, the engines it trades with, the market data it trades on
and the research lab that decides what it may trade; the TLC runs that check them; and TLAPS
proofs about the worker, the risk engine, the feed, the data path, the research jobs and the
evidence. All source paths are under `src/services` unless they say otherwise.

## 1. The system and its parts (inventory)

| Part | Source | State it keeps | Operations | Correct when |
|---|---|---|---|---|
| Paper lifecycle | `paper_trading/lifecycle.py`, `evaluation.py`, `execution.py`, `stops.py`, `transitions.py`, `repository.py`, `db/` | PostgreSQL rows: evaluations, intents, orders, fills, positions, stop history, wallet | evaluate at the daily close, create an intent, cancel or fill it at the next open, gap and intraday stops, trailing | one exposure per symbol; a fill is complete or absent; the wallet reconciles; stops only rise; no new risk against the operator's controls |
| Startup recovery | `paper_trading/recovery.py`, `accounting_verification.py` | none; reads and repairs the rows | check, repair, reconstruct the wallet, decide | what the worker itself wrote never blocks a restart; READY only over rows that can be traded on |
| Market event bridge | `paper_trading/market_events.py`, `scheduler.py`, `scheduler_outcomes.py`, `event_fairness.py`, `scheduler_context.py` | `scheduler_runs` rows, backoff rows, the detector's trackers in memory | detect, process, defer, fail, fail permanently, commit, acknowledge, recover | each job runs once, in order, for every symbol, whatever is rolled back or crashes |
| Worker runtime | `paper_trading/application.py`, `runtime.py`, `readiness.py`, `lock.py` | `runtime_state` row, advisory lock, tasks | start, recover, promote, demote, heartbeat, stop | one worker; READY only when every condition holds |
| Control API | `paper_trading/api.py`, `api_dependencies.py` | sessions on `runtime_state` | pause, resume, kill, recover | an accepted command is durable |
| Stop computation | `strategy_engine/stops.py`, `backtester`, `paper_trading/stops.py` | the stop, the highest close | initialise, trigger, trail | worker and backtest differ only in a known direction |
| Strategy engine | `strategy_engine` | none (pure) | validate, indicators, regime, entry | deterministic, fail closed, no look-ahead |
| Risk engine and constraints | `risk_engine`, `trading_constraints` | none (pure) | size and approve an entry | every limit holds, and the size is the largest the caps allow |
| Backtester | `backtester` | portfolio, pending intents, equity curve | the phases of a day | books reconcile; limits and stops hold |
| Market data feed | `market_data/runtime.py`, `repository.py`, `providers`, `network` | candle repository, buffer, live queue, connection | connect, buffer, backfill, replay, process live, readiness | ready only with nothing missed; closed candles are final |
| Import and catalog | `market_data/historical_import.py`, `raw_store.py`, `dataset_catalog.py`, `quarantine.py` | raw files, checkpoints, catalog rows | import, resume, publish, append, look up for research | what research gets is whole |
| Export and binding | `research/hl_dataset_export.py`, `dataset_binding.py` | snapshot directories, catalog file | export, merge, pin, bind | snapshots are final; an experiment computes on what it declared |
| Research jobs | `research/jobs.py`, `robustness_jobs.py`, `write_service.py`, `robustness_service.py`, `artifacts.py`, `registry.py` | job files with leases, artifacts, registry | create, start, claim, renew, finish, expire, recover | a job runs once, stays ended and reports what is there |
| Evidence | `research/gate_evaluator.py`, `scorecard_evaluator.py`, `validation_study.py`, `validation_service.py`, `artifact_content.py` | append-only logs with sidecars | evaluate, invalidate, pin, decide, serve | a pass rests on sealed evidence of its run, a decision on live evidence of the pinned runs |
| Scores | `research/confidence`, `parameter_area`, `bootstrap.py`, `cost_stress.py` | none (pure) | label, classify, resample, stress | no label says more than its evidence |
| Regimes, walk-forward | `research/regime`, `regime_quality`, `walk_forward.py` | none (pure) | label, attribute, plan | no look-ahead, nothing lost in a sum |
| Research API, charts, dashboard, scripts, migrations, deployment | `research/api.py` and read models, `src/src`, `src/scripts`, `src/migrations`, `src/deploy` | none of their own | presentation and setup | - |

How they interact: one asyncio loop of the worker (`_scheduler_loop`) awaits the market data, runs
one synchronous poll of the bridge in one database transaction, commits it, acknowledges the events
to the in-memory detector and re-evaluates readiness. The bridge calls the scheduler's jobs, these
the lifecycle services, which ask the strategy and the risk engine. The control API writes the
same database from other sessions, and a predecessor and its successor of a rolling deployment
share it, separated by the advisory lock. The research lab is a second program: HTTP handlers and
worker threads of one or more API processes share a directory of job files, run artifacts and
append-only logs, without a database and with few locks.

What is hard: controls change between the read and the commit; a poll is rolled back or the process
dies between any two steps, with the detector's memory surviving the first and lost in the second;
idempotency keys decide silently what is never done; a reconnect races its own backfill and
midnight; check-then-write sequences on files interleave; leases expire under a worker that is
still at work; evidence is looked up piece by piece while it changes; and sums, windows and folds
go wrong by one at their ends. `PROJECT.json` lists these hazards at their lines.

## 2. Modules

| Module | What it is | Composed or instantiated by |
|---|---|---|
| `PaperLifecycle` | the economic lifecycle as rows of one database with one worker, the control API and crashes | `StartupRecovery` |
| `StartupRecovery` | checks, repairs and accounting over the lifecycle's rows, as committed or damaged | `MCPaperLifecycle` |
| `PaperLifecycleProofs` | TLAPS proofs about the two, for every value of the constants | |
| `TrailingStops` | one position's stop in the worker and in the backtester over the same candles | |
| `MarketEventBridge`, `MarketEventBridgeProofs` | detector, scheduler runs, deferral, failure, recovery, commit and acknowledgement, and proofs | |
| `WorkerRuntime`, `WorkerRuntimeProofs` | the worker process, the lock, the `runtime_state` row and the control API, and proofs | |
| `CandleFeed`, `CandleFeedProofs` | connection, buffer, backfill, repository, readiness, and proofs | |
| `RiskEngine`, `StrategyEngine` | the two pure engines | `Backtest` and `RiskQuestions` extend `RiskEngine` |
| `RiskQuestions` | what the risk engine promises of the answer to one question | `MCTrading` |
| `EngineProofs` | proofs about `TrailingStops`, `RiskQuestions`, `Backtest` and `StrategyEngine` | |
| `Backtest` | the day loop | `MCTrading` |
| `JobContract` | what a job promises (abstract) | `ResearchJobs` (refinement) |
| `ResearchJobs`, `ResearchJobsProofs` | job files, leases, threads, artifacts, registry, crashes, and proofs | |
| `GatePolicy` | gates and their outcomes (pure) | `EvidenceChain`, `EvidenceScores` |
| `EvidenceChain`, `EvidenceChainProofs` | gates, scorecards, studies and sealed reads under concurrent requests, and proofs | |
| `EvidenceScores` | confidence, parameter area, bootstrap, cost stress | `MCDatasets` |
| `DatasetImport`, `DatasetExport` | import and catalog; export and binding | `MCDatasets` |
| `DatasetProofs` | proofs about the two and about `WalkForward` | |
| `RegimeAttribution`, `WalkForward` | regime labels and attribution; fold plans | `MCDatasets` |

`MCPaperLifecycle`, `MCTrading` and `MCDatasets` hold instances for TLC. Where components share no
state (`MCTrading`, `MCDatasets`) a variable `side`, chosen in the initial state, picks the component
of a behaviour, so that they are explored one after the other and not as a product.
The invariants a run names are conjunctions of named parts, one per thing that can go wrong; every
part has its own definition and comment. Definitions marked "Mutant" are plausible bugs that a
property must notice; no specification uses them.

### PaperLifecycle

`db` holds the committed rows, `tx` the rows as the worker's open transaction sees them. A
`transaction_scope` (savepoint) is one action, because it is released whole or rolled back whole;
`CommitPoll` makes `tx` durable and `AbortPoll` - an exception of the poll, a failed COMMIT or the
death of the process - returns to `db`. `gates` is the `EntryGateContext` that
`build_evaluation_context` leaves for the evaluation that follows: between the two actions the
control API may act, and that is the window in which the gates are stale. `rowLocked` says that
the transaction holds `runtime_state` `FOR UPDATE`; `Pause`, `Kill` and the readiness transition
wait for it, as an UPDATE does. An intent is identified by (symbol, day of its signal candle,
signal type), which is its unique constraint; its order, entry fill and position carry the same
identity. The scheduler is absent: any operation may run in any poll, any number of times.
The risk engine's decision and the checks of the open price are the choice `approved`; prices are
a set of levels, the fee is a constant and the net result of an exit is chosen from a set.

### StartupRecovery

A trade is a chain of rows: intent, order, entry fill, position, exit fills. The tables of
`PaperLifecycle` are mapped to chains (`RowsOf`), up to `MaxDamage` of them are then damaged within
what the constraints of `db/orm.py` allow, and recovery runs: `run_consistency_checks` with the
severity of every issue, `apply_auto_repairs`, the checks again, `verify_accounting_independent`, the
verdict. `RestartNeverWedged` and `WalletReconciles` (the wallet that `reconstruct_wallet` computes is the
stored one) are stated over every committed state of the running worker, so here lifecycle and
recovery are composed.

### TrailingStops

Both engines call the same `update_trailing_stop`; the worker keeps its result only if the stop
rises (`stops.py` 106-117), the backtester keeps it always. Prices are naturals finer than the
tick, so that rounding matters. A day has three steps: open, low, close. `MayMiss` lets the worker
miss any daily close, which is what downtime and the findings below amount to.

### MarketEventBridge

A poll is `BeginPoll`, one action per processed event, `CommitPoll` and `AcknowledgePoll`; a crash
may come anywhere, `AbortPoll` before the commit. Every action of an event is one outcome of
`_process_event`, `_process_daily_open` or `_process_daily_open_recovery` with everything the
outcome writes. `handled` counts how often the handler of a job was called for a symbol, a day and a
low: it is a history of the economic work that the scheduler's rows claim. The jobs of the
scheduler are keyed as in the code, by name and time without the symbol. The clock has two values
per day (the delays are running, or over). `FillDelay` says whether the fill's delay is zero. Time
and candles move only between polls: the loop awaits the feed before each poll, and a tick inside
a poll is the same as one before the next poll. `valid` is the validity of a symbol's constraints,
fixed per process. `gatesOpen` stands for the gates before a poll (`application.py` 661-665,
`market_events.py` 444-449: advisory lock, market data, heartbeat, session); they change between
polls at any time, and a restarted worker begins with them closed.

### WorkerRuntime

Several processes share one row and one advisory lock. A process is its event loop (`at`, one place
per await or database round trip of `start`, `_scheduler_loop` and `stop`), its heartbeat thread
(`beat`) and at most one control request (`request`), each with a session of its own (`Main`,
`Beat`, `Api`). A session loads the row, decides, and later sends an UPDATE of only the columns
that it changed: `txn[s].set`. The repository compares the version between two reads, never in the
UPDATE's WHERE clause. So after a foreign commit a session is `stale`, and then both outcomes are
possible: the conflict is raised, or the write goes through. `rowLock` is the session whose
transaction has an uncommitted UPDATE: recovery holds it over its whole length, the others commit
at once. `held` is the process's own belief in its lock and `lockOwner` the database's: they differ
once the connection is lost (`ConnectionsDrop`), since `try_acquire` does not ask again. `good`
stands for the readiness conditions that other components provide. The version column, the
heartbeat's timestamp and the text of `last_error` are reduced to what the guards tell apart.

### CandleFeed

One symbol's daily and weekly series. The exchange keeps a version per day and sends updates over a
connection that may be cut; the program connects, subscribes, buffers while it backfills, replays
the buffer, then drains its live queue. A day has a canonical close (23:59:59.000) and the
exchange's own (…59.999), between which a trade may still change a candle that the repository calls
closed. Calls keep the evaluation time of their beginning and may outlast any number of
ticks: a reconnect that begins before 23:59:59 and ends after midnight, or days later, is among them. A fault is a cut connection, a failed or
timed-out request, or a restart, which loses the repository. The history variable `outrun` says that
the process has met one of the two losses named in section 3.

### RiskEngine, StrategyEngine, Backtest

`RiskEngine!Evaluate` is the evaluation in the code's order; amounts are integers and percentages
integers over `Den`, so quotients are compared by cross-multiplication and nothing is rounded that
the code does not round. `NotFinite` stands for NaN and infinity. `RiskQuestions` states what the
answer has to be without reference to the order of checks and caps: which quantities fit, the
largest of them, and when it is accepted. `StrategyEngine` appends daily candles, impossible, repeated,
foreign and unfinished ones too, and evaluates at every close; indicators are exact rationals. The
length of a series is compared with the default periods and, if that fails, with the configured ones, as
in the code. `Backtest` has an action
per phase of a day (open, fills, stops, funding, strategy and queueing, trailing, snapshot) over
symbols whose candles may be missing, and calls `RiskEngine` for the sizes. The loops over the
symbols are one fold in the configured order (`ForEachSymbol`) with the handler of the phase
(`Handle`). The strategy's verdict is an input there.

### JobContract, ResearchJobs

`ResearchJobs` is one job file shared by processes: inside one every operation holds the job's RLock,
`claim`, `renew_lease`, `finish` and `recover_orphans` also the file lock, the others not. An operation
is a read with its checks and a later write of the job it read. Threads claim, run, move artifacts
(in two steps, with a crash in between), register, finish; leases expire; the stale watchdog and the
restart hook fail what nobody runs. `JobContract` is what the docstring promises of a job,
as far as the code keeps it when processes share the file: one claim; a writer is a process between its
read and its write, and nobody becomes one on a job that has ended; what is left of "terminal:
unchanged" is that a job that has ended and has no writer stays as it is, and that a completed one may be
reported failed by a late watchdog but is never taken up again. `ImplementsContract` maps the file's status,
the number of leases and the operations in flight to it.

### GatePolicy, EvidenceChain, EvidenceScores

In `EvidenceChain` a request is its reads and its later write, callers interleave, runs complete, are
invalidated or damaged, the deployed policy changes and processes crash. Records are identified by
what their id hashes. A gate evaluation verifies a file and opens it again to read it, so it is four
steps: the run is verified; its metrics are read and the seals of the manifests verified; the manifests
are read and their children verified; the children's metrics are read and compared with the copies in the
manifests. (A read and the verification of another file that follows it share a step: damage between the
two has the effect of damage before or after both. The suites are taken together; the code takes them one
by one, which refuses more.) A damaged file reads as the opposite value, and damage is for good: with files
that are damaged and put back between two verifications a record could verify over a value that was never
sealed. A verdict may thus rest on damaged bytes; what holds is that no such record verifies
afterwards (`ArtifactsVerify`, which every pin and every scorecard asks), although its checksums do not
cover the children. A study pins the newest complete run of its experiment and of every additional
experiment, then suites, a gate and a scorecard of any of these runs, in three steps. `GatePolicy` holds the registered gates and their outcomes. `EvidenceScores`
evaluates labels on steps that add or leave out evidence, so that monotonicity is an action
property, and classifies every set of child outcomes of the instance.

### DatasetImport, DatasetExport

Every file write, catalog transaction and checkpoint is an action; a crash may come between any two;
a write that is not atomic has a torn state. SHA-256 is injective: a dataset is named by its rows.
The import keeps a payload's rows as a sequence, in the order received, and sorts it as the code's
stable sort does: a row's place is its rank, the number of rows that are not after it. The export keeps rows as a set,
because they are sorted and have one row per day, so that the set determines the file.
An exporter reads, stages, renames, merges the catalog and returns; an experiment pins an alias, and
binds it later, after files may have been damaged.

### RegimeAttribution, WalkForward

Months of days are appended; labels, gaps, transitions, day tags, attribution and episode drawdowns
are functions of the history; a day's return from an equity of zero or less is left out of a drawdown, as
in the code (equities of the instance are not negative: after a negative one the code's level stays
negative, and the reported fall is no fall of the equity curve). `WalkForward` plans folds for every request of the instance.

## 3. Runs

| Run | Instance | Shows |
|---|---|---|
| `lifecycle` | 2 symbols, 2 days, cash and slots for one position; the rows of one symbol damaged up to twice | `ExposureInv`, `ChainInv`, `RowsLegal`, `WalletReconciles`, `RestartNeverWedged`, `RecoveryIsSafe`, `NewRiskOnlyWhenAuthorized`, `SettledNeverUndone` |
| `trailing_stops` | 6 prices, tick 2, days may be missed | `PaperFollowsBacktest`, `StopsRatchet` |
| `bridge` | 1 symbol, 2 days, 2 faults, 1 recovery attempt | `OnceAndInOrder`, `PollsAreAtomic`, `CompletedMeansHandled`, `PermanentBlocksFill`, `OpenEventuallySettled` |
| `bridge_symbols` | 2 symbols, 1 day, no fault | violation of `CompletedMeansHandled` (finding) |
| `worker_handover` | 2 processes, no control requests, the lock's connection holds | `OneScheduler`, `SuccessorNotClobbered` |
| `worker_control` | 1 process, pause, kill and recover requests, the connection may be lost | `AcceptedControlsInForce`, `FailedOnlyOverwritten`, `ReadyAgain` |
| `feed` | 4 days, weeks of 2, 3 trades, 2 faults, buffer and wire of 2 | `ReadyIsTrue`, `ClosedNeverRewritten` |
| `trading` | backtest of 3 days and 2 symbols; strategy bundles of 5 candles; a grid of risk questions | `BooksAreRight`, `FillsAreFair`, `EntriesAreGrounded`, `ApprovedIsBestFit` |
| `research_jobs` | 2 processes, requests to one of them, 3 threads, 2 crashes, all kinds of job | `AtMostOneRunner`, `ReportsAreBacked`, `ImplementsContract` |
| `research_jobs_terminal` | 2 processes, 1 thread, no crash, an experiment | violation of `TerminalUnchanged` (finding) |
| `evidence` | 2 callers, 2 runs of 1 or 2 experiments, 1 suite, 3 log lines and faults, 1 fault | `GatesAreBacked`, `StudiesAreSound`, `ServedIsSealed`, `InvalidatedGateStaysSo` |
| `datasets` | import: 2 processes, 5 payloads, 3 calls, 1 crash; export: 2 exporters, 2 exports; regimes: 4 months, 6 shapes; all plans and scores of the instance | `ImportsAreSound`, `ExportsAreSound`, `RegimesAreSound`, `PlansAreSound`, `ScoresAreEarned`, `PastIsKept`, `MoreNeverHurts` |

The bounds. Two days are a signal and its fill; the second signal of a symbol, on the day after an
executed or missed open, is covered for every number of days by the proofs. Two symbols let one
symbol's fill take the cash of the other. Two faults allow a failure during the retry of a failure,
or a crash after a rollback; one recovery attempt is the step from the original run to its recovery
run, and later attempts repeat it. Two damages break a chain at two places, which is what makes one
repair meet another. Two processes are a predecessor and its successor, or two API processes; their
restarts are not bounded in `WorkerRuntime`. In `CandleFeed` the start lies in the second of four days
and one day of history is enough for readiness, so that backfills, midnights and week's ends happen
with the feed running and ready; a buffer of 2 overflows with 3 trades. In `ResearchJobs` three threads are the first runner, one dispatched by a
repeated start, and one after a crash. In `EvidenceChain` three log lines are a gate, the scorecard or study on
it, and a re-evaluation, an invalidation or a decision; a fault takes the place of a line, and two evaluations and a fault meet in one evaluation's gap between verification and read. In `Backtest` three days are a signal, its
entry and an exit at a gap or a low; in `StrategyEngine` five candles exceed every (shortened) period,
and the default lookback is shorter than the configured one, so that entries of both lengths of history happen.
The constants of policies (floors, thresholds, category names) are the published ones.

`CHECK_DEADLOCK FALSE` is set where the system may stop: when all requests, trades, faults or days of
the instance are used up.

Two violations are kept as runs. With two symbols the second symbol's subjobs and daily close
complete without their handlers being called, because the inner jobs' key has no symbol. With one
symbol the same property holds (`bridge`). And with two processes a terminal job status is replaced: the
stale watchdog takes no file lock (`jobs.py` 350-431), so it fails a job between the check and the write
of `claim`, `renew_lease` or `finish`, whose owner then writes `running` or `completed` over it, where
the module says "terminal: unchanged" (`jobs.py` 33). `ImplementsContract` is the contract that remains.

### Known divergences and limits, not kept as runs

Worker (each is a definition of its module that TLC refutes under the constants named):

* only the first live update of a day checks the stops (`MarketEventBridge!LiveLowsHandled`);
* a closed candle is no longer a candidate once the next one has arrived, so an evaluation that was
  not yet due is lost (`DueCloseIsCandidate`);
* `stop()` releases the lock before it writes STOPPED, so a successor can read SHUTTING_DOWN, from
  which recovery is refused, and exit (`WorkerRuntime!RollingSuccessorRecovers`, 2 processes);
* after a loss of the lock's connection two workers process events (`OneScheduler`, `ConnectionsDrop`);
* `control_resume` reads the row before its `transaction_scope`, which therefore does not commit
  (`AcceptedResumeInForce`, with resume requests);
* with `recover` requests a readiness write decided before the FAILED verdict overwrites it, which
  `FailedOnlyOverwritten` leaves open (the version check is not in the UPDATE), and a recovery request
  of the predecessor writes over its successor's status (`SuccessorNotClobbered`, 2 processes);
* with two symbols and one fault one symbol's gap stops are taken for the other's and a fill may
  precede them, because a scheduler job names the day and not the symbol (`FillAfterGap`);
* the recovery of a daily close overwrites the failed original run (`market_events.py` 950), and a
  permanently failed live update raises again in every later poll (244);
* with no day missed the stops of worker and backtester still differ, because the worker stores the
  highest close only when the stop rises (`stops.py` 106).

Recovery: an open position with an exit fill, a terminal intent with fills and an open position, a
closed position without fills are not looked for; repairable issues left after the pass are ignored
(`RecoveryIsSafe` shows that none are); accounting depends on the configured initial equity.

Engines: the strategy's validation compares lengths with the default periods (`strategy_engine/validation.py`
177, 200), and the check of the configured ones (228) is reached only where the default ones are not met
(`engine.py` 181-188): with longer configured periods a pullback may be signalled before the lookback is
full, which `PullbackIsNoBreakout` allows for; missing candles inside a series are not detected; an equity
snapshot marks a symbol without a candle at its entry price (`backtester/portfolio.py` 20) where the
fills use the prior close; a pending intent of a symbol without a candle fills days later.

Feed: an update may be lost while the runtime reports ready (`CandleFeed!ReconnectRaceFree`;
`docs/hyperliquid-public-adapter-v1.md` 72) in two ways, which `outrun` records and `ReadyIsTrue`
excludes. After a timed-out reconnect backfill. And when a reconnect waits over midnight: its evaluation
time is read before the backoff, the old reader still buffers updates of the new day while it waits,
later ones are lost with the old socket, and the backfill ends at the evaluation time, before midnight;
a day of which the repository has a candle is not asked for again once the next one is stored. Also,
readiness is true in mid-reconnect; stale events of the live queue overwrite newer values
of an open day; conflicts are only cleared by a restart.

Data: a crash between `publish_dataset` and `append_candles` (`historical_import.py` 245-247) leaves an
empty published dataset that resume answers with; append conflicts are known to one process only;
`raw_store.store` is check-then-write, and a torn file makes it raise from then on; the checkpoint
write is not atomic; `merge_catalog_atomic` (`hl_dataset_export.py` 520-553) has no lock and can lose a
concurrent alias; of conflicting rows the export keeps the first.

Jobs and evidence: `start` does not hold the file lock, so two processes that both take
requests can both have a job claimed and overwrite its terminal status (`AtMostOneRunner` with
`RequestProcs = Procs`; `jobs.py` 15-18, 319); with two callers deciding, a study can have two
decisions (`EvidenceChain!DecidedOnce`, 2 `StudyCallers`; `validation_study.py` 22-24); a scorecard is
read without its sidecar; pins do not notice the invalidation of a child run.

Scores: leaving out a weak optional dimension can raise a confidence label (`EvidenceOnlyHelps` is
about the core ones); an incomplete neighbour counts as unstable; `decimal_relative_steps` are added
(`parameter_stability.py` 47-51); the cost stress uses the entry fee for both fees and fixed funding
rates (`cost_stress.py` 6), so `StressIsNeverCheaper` assumes one fee and funding below the rate.
Regimes: `missing_months_between` stops after 240 months; day labels know the whole month.

## 4. Fairness

`OpenEventuallySettled` assumes weak fairness of the poll's own steps - `_scheduler_loop` runs for
ever and catches every exception - and strong fairness of the two steps of the wall clock (the
delays end, a backoff of at most 30 seconds ends), which the model takes between polls although the
clock does not wait for them. Faults are bounded, so they end. Nothing is assumed of the gates, of
the feed or of operators: weak fairness of `BeginPoll` asks for a poll only where the gates stay
open, the property is about behaviours in which they stay open from some time on, and it lets the
candle close or be replaced first.

`ReadyAgain` assumes weak fairness of the heartbeat's timer and strong fairness of the successful
outcomes of the readiness evaluation and of the heartbeat. Their failing outcomes need the commit of
another session within the milliseconds between a read and its UPDATE, or a row locked for longer
than the lock timeout; the loops retry every few seconds for ever, and each attempt is independent
of the last. The property itself asks that the conditions hold and that requests end.

Nothing is said of the end of a research job: a job whose process died is failed by a restart that finds
its lease dead or by the watchdog of a reader, and nothing in the code makes somebody ask for its status.

## 5. Proofs

`PaperLifecycleProofs` proves, for all finite sets of symbols and signal types, all numbers of days,
levels, fees and initial cash: `ExposureInv`, `ChainInv`, `RowsLegal` (types,
submissions, stops) and the action properties `NewRiskOnlyWhenAuthorized` and `SettledNeverUndone`.
None is inductive alone. The invariant `IInv` adds:

* the properties for `tx` as well as for `db`, and `tx = db` outside a transaction;
* that registered gates tell the truth about `tx`: nothing else happens in the poll between the
  context and its use, so a context without position and intent implies that the symbol has no
  exposure when the intent is inserted;
* that a transaction with new risk in `tx` holds the row lock, and that the controls allow entries
  while it does: this carries the authorization from the read to the COMMIT.

`EngineProofs` proves for all prices, ATRs, multipliers and ticks that the stops never fall,
that the paper stop lies between the initial stop and the backtester's, and that the worker is never
stopped out first. The invariant relates the two highest closes and says that stops are multiples
of the tick, without which rounding could lower them.

`EngineProofs` also proves `ApprovedIsBestFit` for every set of questions whose books are sequences and
whose number of slots is an integer (`RiskQuestionsOK`): any account, open positions,
proposal, constraints, limits and halts. The argument has four parts. The checks before the sizing are
silent exactly if `Allowed` holds, one lemma per check. Rounding down gives the largest multiple of the
step within a bound (the floor lemma), and each cap taken after another keeps the quantity the
largest that is within all caps so far. The loop of `apply_risk_cap`, which lowers the size
until its risk is within the budget, is a choice of the first size that passes: that there is one
follows from a closed form, and that it is the first candidate from the size already being within the budget. The
sums over the book are shown to be numbers by unfolding the fold.

The third result of `EngineProofs` is `BooksAreRight`, for any number of days and symbols, any candles,
signals, funding, fees and limits that are numbers (`BacktestNumbers`, `BacktestConstants`). The
inductive invariant `BooksInv` adds to it what each handler needs of the runtime it is given
(`Sound`): the cash as the initial cash, the closed trades and what the open trades have paid; one
pending intent for a symbol, of a day up to the last signals; an order for every position. Until
the first signals can be filled nothing is held and nothing paid (`FirstDay`), and so the first snapshot
shows the initial capital and the drawdown's peak counts it although it starts at zero. Each handler
keeps `Sound` (one lemma each), and the folds over symbols and intents keep what each turn keeps. The
stops need more: the sets `StopsReach(k)` say that after k symbols no position of these is
beyond its stop, which the later turns must not undo. Two laws carry the sums: a sum changes by the
term that is added, removed or replaced, and the sums by key add up to the whole, which is why
the metrics by sign, symbol and entry type agree with the cash.

The fourth is `EntriesAreGrounded`, for every set of candle shapes, all lengths of the series and
every choice of configured and of default periods, if prices and volumes are numbers (`StrategyNumbers`) and periods positive
(`StrategyConstants`). The inductive invariant `StrategyInv` says that there is one verdict for
every daily candle and that no daily candle closes after the last (`GrowsTogether`). No look-ahead follows from the slices: a candle that closes now is not in the slice of any
earlier time, so a verdict is given the same three series for ever (`SliceBefore`, `GrownSlice`).
The recursive functions `Kept`, `ComputeEma` and `ComputeWilderAtr` are shown to be well defined
(`KeptRuns`, `EmaRuns`, `AtrRuns`). The average stays between two closes because the seed is a mean and each step weighs the
close and the last average by 2 and n - 1 out of n + 1 (`SmoothingKeepsSides`). Clean history is
read off the validation: rising opening times are distinct, so there are as many of them as candles
(`ValidIsClean`); that the windows are full follows from the indicators that are not None
(`WindowsAreFull`) and from no comparison of lengths, which may be with the wrong periods.

`WorkerRuntimeProofs` proves, for every set of processes: the types; `OneScheduler`, if connections
are not lost (`OwnerInv`: whoever is between acquisition and release owns the lock in the database);
and `AcceptedControlsInForce` without any condition (`WritersInv`: only the request that carries a
control has its column in its UPDATE, and it commits before it answers). `FailedOnlyOverwritten` needs
no condition either (`FreshInv`: a session that is not stale has seen the status that is in the row, and
none that has seen FAILED writes another). It also
proves `SuccessorNotClobbered` if connections are not lost and `recover` is
not requested. The lock alone does not imply it, because STOPPED is written after its release.
`HandoverInv` says what does: until a released process has written STOPPED, the row is its
SHUTTING_DOWN, from which no recovery may start, so nobody else is past recovery; and the one
branch of recovery that does not pass through RECOVERING, from READY, still finds READY at its second
read. Both conditions are needed: section 3 names the violations without them.

`PaperLifecycleProofs` also proves, for the same constants, that the wallet reconciles
(`WalletReconciles`), that what the worker itself committed never blocks its restart
(`RestartNeverWedged`), and that recovery over rows damaged in any number of places decides READY only
when they can be traded on (`RecoveryIsSafe`). The first needs sums over finite sets, which the model
takes with the fold of the community modules: the proof unfolds that fold and shows that its
result does not depend on the order by taking a smallest set for which it would (`SubsetInduction`,
through the library's theorem on minimal elements; an induction theorem with an operator as
parameter cannot be instantiated). `BooksInv` adds to `IInv` that cash balances with the entry fees
and exits in `db` and in `tx`, and that only a closed position has a result - without the second the
wallet of `reconstruct_wallet`, which adds up the exits of existing positions, could miss one.
`RecoveryInv` says that rows stay typed, that after the repairs no repairable issue is left, and
that READY was decided over rows that passed the second checks and the accounting. It assumes that
the trades whose rows are restored are trades of the instance (`RecoveryConstants`).

`MarketEventBridgeProofs` proves for every number of symbols, days, faults and recovery attempts that
a poll's writes are durable together or not at all (`PollsAreAtomic`), that the handler of a job runs
at most once for a symbol, a day and a low (`HandledOnce`) and that a permanently failed open lets no
fill of that day happen before an operator recovers it (`PermanentBlocksFill`). For one symbol it proves all of `OnceAndInOrder` and
`CompletedMeansHandled`. One symbol is a condition of the code and not of the proof: TLC refutes both
with two, because the jobs' keys have no symbol (section 3). `BridgeInv` describes the rows of `db` and
of `tx`, the detector's memory against them, the recoveries that are pending, what the poll under
way has done, and that a blocked open stays blocked in both.

`ResearchJobsProofs` proves `AtMostOneRunner` and `ReportsAreBacked` for every number of processes,
threads and crashes if one process takes the requests (`OneRequester`): `start` does not hold the file
lock, and TLC refutes the first otherwise. Under the same condition it proves `ImplementsContract`, with
`InFlight` for what the unlocked writers may have done to the status between an operation's read and its
write. `JobInv` says what an operation between its read
and its write may still rely on, that a job is claimed at most once and not before it is queued,
that only the thread which claimed it works, and that between the existence check and the end of
the move the artifact directory is that thread's alone.

`EvidenceChainProofs` proves `GatesAreBacked`, `StudiesAreSound`, `ServedIsSealed` and the action
property `InvalidatedGateStaysSo` for every number of callers, runs, suites and log lines. `ChainInv`
says of every line of the logs what it was written from, and of every request in flight what it has
read and that this is still so or can no longer matter when it writes: what an evaluation has read of a
file is the sealed value unless the file is damaged by now, and then the record will not verify.

`DatasetProofs` proves `ImportsAreSound` for all payloads, numbers of processes, calls and crashes,
and `ExportsAreSound` with the action property `SnapshotsAreFinal` for all exporters, inputs and
windows. `ImportInv` says what a call in flight has in hand (the artifact's row before its checkpoint,
the published dataset before its candles and its second checkpoint), that one call at a time appends
to a dataset, that candles are complete or absent and come only after publication, and that what was
accepted for research is what the catalog still holds. It rests on `SortIsStable`: the ranks
of the rows are shown to be a bijection by counting, so that sorting keeps every row and the
order of equal days. `ExportInv` says that a snapshot is what some export wrote, except for its
bundle file, which may be damaged, and that a catalog, as stored or as read by an exporter, names only
existing snapshots.

It proves `PlansAreSound` for every calendar and every set of requests of which `CalendarOK` and
`RequestsOK` hold: the months begin in ascending order, and the calendar does not end within a warm-up.
The running start of the fold loop is shown to have a closed form - the remainder goes to the first folds,
one day each - by taking the least fold for which it would not; tiling, equal lengths and the
embargo then are arithmetic about that form.

`CandleFeedProofs` proves `ReadyIsTrue` and the action property `ClosedNeverRewritten` for every number of
days, days in a week, trades, faults and sizes of buffer and wire. `FeedInv` has five parts. `Shape`
says that a stored candle is one that was offered, that no update runs ahead of the exchange or the
clock, and that the wire and the buffer are in the order of days. `Places` says which flags, buffers and
connections go with each place where a call can be suspended, and that what is stored as closed was closed
at the last evaluation time, however far the clock has moved since. `Weekly` says that stored weeks are the
aggregates of their days unless an error or a conflict is recorded, and `Reached` which days a backfill
has covered and what its snapshot must contain. `Updates` is the core: a day of which anything is known
is known in its newest version, or that version is in the buffer, in the snapshot or on the wire, as
long as the connection and its reader live (if they do not, readiness notices), and days before the
last known one can no longer change; for the days that open while a call is under way (`AheadFollowed`,
`AheadFinal`) it is the buffer that has them. Without the midnight case of `outrun` this part is not inductive,
which is how the second loss of section 3 was found. Replay, backfill and weekly refresh are folds; the
proof unfolds them by recursion over the elements that remain.

Only model-checked: `RegimeAttribution` and `EvidenceScores` with the action properties
`PastIsKept` and `MoreNeverHurts`, whose operators are filters, sortings and quantiles over data, where a proof would need induction over the data; the action property
`FillsAreFair` of `Backtest`, whose limits are products of sums over the whole portfolio; and liveness
(`OpenEventuallySettled`, `ReadyAgain`), which is out of the
prover's reach.

## 6. Not modelled

Portfolio snapshots, audit events, funding of the paper worker (not implemented in V1), weekly and
monthly markers, the limit of 256 events per poll and the rotation cursor (three symbols cannot
reach the limit; any order of groups is allowed), the single readiness conditions of the worker
(one flag), the wallet's totals of fees, slippage and realized profit (written in one update with the
cash, which stands for them in the accounting check), the monthly series of the feed, message formats, rate limits and waiting times,
Decimal precision, report metrics other than those that reconcile, the quality and behaviour artifacts
built from regime labels, and hashes and identifiers of artifacts. Not modelled at all: the research
API's request parsing and read models, charts and benchmarks, the dashboard, migrations, deployment
and scripts, which keep no state of their own.

## 7. Plan

Done: the worker (`PaperLifecycle`, `StartupRecovery`, `MarketEventBridge`, `WorkerRuntime`,
`TrailingStops`), the engines, the feed, the data path and the research lab, all with runs; proofs for
the whole worker, the risk engine, the strategy engine, the books of the backtester, the feed, the data path, fold plans, the
research jobs and the evidence. Next, in this order:

1. Proofs: `FillsAreFair`, from `BooksInv` and what `ApprovedIsBestFit` says of one entry.
2. `LifecycleSystem`: the composition of bridge and lifecycle, in which the bridge decides when the
   lifecycle's operations run, shown to implement `PaperLifecycle`.
3. The readiness conditions one by one, with `CandleFeed` as their market data.
