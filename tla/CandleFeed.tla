------------------------------ MODULE CandleFeed ------------------------------
(***************************************************************************)
(* The market-data runtime of one symbol (services/market_data): the       *)
(* WebSocket feed with its reader and heartbeat tasks, the reconnect       *)
(* buffer and the live queue, the HTTP backfill, the in-memory candle      *)
(* repository with its conflict list, the weekly candles built from the    *)
(* daily ones, and the readiness that the paper worker's gate reads.       *)
(*                                                                         *)
(* A candle is its day and the version of its values: 0 when the day       *)
(* opens, one more for every trade.  Day d trades from tick 2d-2; from     *)
(* tick 2d-1 it is past the canonical close (23:59:59.000) the repository  *)
(* uses, and from tick 2d past the exchange's own close (T, 23:59:59.999). *)
(* So a trade can still change a candle the repository calls closed.       *)
(***************************************************************************)
EXTENDS Integers, SequencesExt, FiniteSetsExt

CONSTANTS
    NDays,       \* the days of the model
    WeekDays,    \* days of a weekly candle (7 in the code)
    StartTick,   \* when the program starts
    MinDaily,    \* MIN_DAILY_CANDLES
    MinWeekly,   \* MIN_WEEKLY_CANDLES
    BufferSize,  \* reconnect_buffer_size
    NetSize,     \* updates in flight
    MaxTrades,   \* trades of the whole run
    MaxFaults    \* cut connections, failed requests, timeouts and restarts

ASSUME FeedConstants ==
    /\ {NDays, WeekDays, BufferSize, NetSize} \subseteq Nat \ {0}
    /\ {StartTick, MinDaily, MinWeekly, MaxTrades, MaxFaults} \subseteq Nat

VARIABLES
    clock,      \* wall clock
    market,     \* day -> version of its candle at the exchange
    link,       \* is the connection to the exchange alive
    net,        \* updates on their way to the program
    wsStatus,   \* HyperliquidWebSocketFeed._status
    acked,      \* every expected subscription is acknowledged
    reader,     \* something reads the socket: the handshake or the reader task
    bgError,    \* _background_error is set
    buffering,  \* _buffering
    buffer,     \* _buffer
    queue,      \* _live_queue: survives a disconnect
    repo,       \* the repository: daily, weekly, conflicts and what was offered
    lastBackfill, \* _last_backfill: evaluation time of the last good backfill
    flags,      \* _meta_ok, _backfill_ok, _initial_backfill_done, bundles ready
    lastError,  \* _last_error is set
    pc,         \* where start(), process_live() or reconnect() is suspended
    evalTime,   \* evaluation_time of the call in progress, read when it began
    snapshot,   \* the answer of candleSnapshot
    outrun,     \* history: a reconnect of this process timed out in its backfill, or dialled
                \* with a candle in its buffer of a day after its evaluation time
    faults      \* faults so far

feedVars == <<wsStatus, acked, reader, bgError, buffering, buffer, queue>>
vars == <<clock, market, link, net, feedVars, repo, lastBackfill, flags, lastError,
          pc, evalTime, snapshot, outrun, faults>>

Days == 1..NDays
Weeks == 1..(NDays \div WeekDays)
WeekOf(w) == ((w - 1) * WeekDays + 1)..(w * WeekDays)
Ack == [day |-> 0, v |-> 0]
Missing == [v |-> -1, closed |-> FALSE]

Opened(d, t) == t >= 2 * d - 2
IsCandleClosed(d, t) == t >= 2 * d - 1
ProviderClosed(d, t) == t >= 2 * d
WeekClosed(w, t) == IsCandleClosed(w * WeekDays, t)

-----------------------------------------------------------------------------
(* The repository.                                                         *)

EmptyRepo == [daily |-> [d \in Days |-> Missing], weekly |-> [w \in Weeks |-> <<>>],
              conflicts |-> FALSE, offered |-> [d \in Days |-> -1]]

Stored(r) == {d \in Days : r.daily[d] # Missing}
GetClosedBefore(r, t) == {d \in Stored(r) : IsCandleClosed(d, t)}
WeeklyClosed(r, t) == {w \in Weeks : r.weekly[w] # <<>> /\ WeekClosed(w, t)}

\* normalize_raw_candle: closed for the exchange when it was received and
\* closed by the canonical bound at the evaluation time of the call.
NormalizeRawCandle(raw, t) ==
    [v |-> raw.v, closed |-> raw.closed /\ IsCandleClosed(raw.day, t)]

\* Mutant: a closed candle may be finalised again.
UpsertLiveRefinalises(r, raw, t) ==
    LET new == NormalizeRawCandle(raw, t)
        old == r.daily[raw.day]
        seen == [r EXCEPT !.offered[raw.day] = Max({@, raw.v})]
    IN  IF old = new THEN seen
        ELSE IF old = Missing \/ new.closed \/ ~IsCandleClosed(raw.day, t)
             THEN [seen EXCEPT !.daily[raw.day] = new]
             ELSE [seen EXCEPT !.conflicts = TRUE]
\* upsert_live: identical is skipped, an open candle may change, a provisional
\* one is finalised once; everything else is a conflict.
UpsertLive(r, raw, t) ==
    LET new == NormalizeRawCandle(raw, t)
        old == r.daily[raw.day]
        seen == [r EXCEPT !.offered[raw.day] = Max({@, raw.v})]
    IN  IF old = new THEN seen
        ELSE IF \/ old = Missing
                \/ ~old.closed /\ new.closed
                \/ ~IsCandleClosed(raw.day, t)
             THEN [seen EXCEPT !.daily[raw.day] = new]
             ELSE [seen EXCEPT !.conflicts = TRUE]

IngestLiveRaw(r, raws, t) ==
    FoldLeft(LAMBDA acc, raw : UpsertLive(acc, raw, t), r, raws)

\* aggregate_weekly_from_daily: the weeks past their close whose days are all
\* among the closed ones, and the candle built from them.
AggregateWeeklyFromDaily(r, t) ==
    {w \in Weeks : WeekClosed(w, t) /\ WeekOf(w) \subseteq GetClosedBefore(r, t)}
AggregateBucket(r, w) == [d \in WeekOf(w) |-> r.daily[d].v]

\* upsert: never replaces, and notes a difference as a conflict.
Upsert(old, new) == IF old = <<>> THEN new ELSE old

RefreshIsoWeekly(r, t) ==
    LET built == AggregateWeeklyFromDaily(r, t) IN
    [r EXCEPT !.weekly = [w \in Weeks |-> IF w \in built THEN Upsert(@[w], AggregateBucket(r, w))
                                          ELSE @[w]],
              !.conflicts = @ \/ \E w \in built :
                                    Upsert(r.weekly[w], AggregateBucket(r, w)) # AggregateBucket(r, w)]

\* detect_gaps: of what is due, none missing from the first stored on.
DetectGaps(due, closed) == {c \in due : c >= Min(closed)} \ closed

\* validate_series of structurally valid candles: some candle and no gap.
ValidateSeries(due, closed) == closed # {} /\ DetectGaps(due, closed) = {}
DailyValid(r, t) ==
    ValidateSeries({d \in Days : IsCandleClosed(d, t)}, GetClosedBefore(r, t))
WeeklyValid(r, t) ==
    ValidateSeries({w \in Weeks : WeekClosed(w, t)}, WeeklyClosed(r, t))

\* _gap_check_time: in a bundle the weekly series need not reach the
\* evaluation time.
GapCheckTime(r, t) == LET closed == WeeklyClosed(r, t)
                      IN  IF closed = {} THEN t ELSE 2 * Max(closed) * WeekDays - 1

\* get_strategy_bundle: enough candles, every series valid, no conflict.
BundleUsable(r, t) ==
    /\ Cardinality(GetClosedBefore(r, t)) >= MinDaily
    /\ Cardinality(WeeklyClosed(r, t)) >= MinWeekly
    /\ DailyValid(r, t) /\ WeeklyValid(r, GapCheckTime(r, t))
    /\ ~r.conflicts

\* status(): what the readiness gate of the worker reads, from any task.
Readiness ==
    /\ flags.meta /\ flags.backfill /\ flags.initial /\ flags.bundles
    /\ acked /\ wsStatus = "CONNECTED"
    /\ ~repo.conflicts
    /\ DailyValid(repo, clock)
    /\ WeeklyValid(repo, clock)
    /\ ~lastError /\ ~bgError

-----------------------------------------------------------------------------
NoFlags == [meta |-> FALSE, backfill |-> FALSE, initial |-> FALSE, bundles |-> FALSE]

\* A new process: empty repository, no connection.
Fresh ==
    /\ net' = <<>> /\ link' = FALSE
    /\ wsStatus' = "DISCONNECTED" /\ acked' = FALSE /\ reader' = FALSE
    /\ bgError' = FALSE /\ buffering' = FALSE /\ buffer' = <<>> /\ queue' = <<>>
    /\ repo' = EmptyRepo /\ lastBackfill' = 0 /\ flags' = NoFlags /\ lastError' = FALSE
    /\ pc' = "down" /\ evalTime' = 0 /\ snapshot' = <<>> /\ outrun' = FALSE

Init ==
    /\ clock = StartTick
    /\ market = [d \in Days |-> 0]
    /\ net = <<>> /\ link = FALSE
    /\ wsStatus = "DISCONNECTED" /\ acked = FALSE /\ reader = FALSE
    /\ bgError = FALSE /\ buffering = FALSE /\ buffer = <<>> /\ queue = <<>>
    /\ repo = EmptyRepo /\ lastBackfill = 0 /\ flags = NoFlags /\ lastError = FALSE
    /\ pc = "down" /\ evalTime = 0 /\ snapshot = <<>>
    /\ outrun = FALSE /\ faults = 0

Fault == faults < MaxFaults /\ faults' = faults + 1

-----------------------------------------------------------------------------
(* The exchange and the network.                                           *)

\* Time passes, whatever is under way: a tick is as short as the second between
\* the two closes, so a call (start() has no timeout, a reconnect has
\* reconnect_total_timeout_seconds) may outlast any number of them.
Tick ==
    /\ clock < 2 * NDays
    /\ clock' = clock + 1
    /\ UNCHANGED <<lastBackfill, outrun, market, link, net, feedVars, repo, flags, lastError, pc, evalTime,
                   snapshot, faults>>

\* A trade changes the candle of the day that is trading; the update is sent
\* to whoever is connected.
Trade ==
    /\ FoldFunction(LAMBDA v, acc : v + acc, 0, market) < MaxTrades
    /\ Len(net) < NetSize
    /\ \E d \in Days :
          /\ Opened(d, clock) /\ ~ProviderClosed(d, clock)
          /\ market' = [market EXCEPT ![d] = @ + 1]
          /\ net' = IF link THEN Append(net, [day |-> d, v |-> market'[d]]) ELSE net
    /\ UNCHANGED <<lastBackfill, outrun, clock, link, feedVars, repo, flags, lastError, pc, evalTime,
                   snapshot, faults>>

\* The connection dies; what was in flight is lost and nobody knows yet.
Cut ==
    /\ link /\ Fault
    /\ link' = FALSE /\ net' = <<>>
    /\ UNCHANGED <<lastBackfill, outrun, clock, market, feedVars, repo, flags, lastError, pc, evalTime, snapshot>>

\* parse_candle: closed when T has passed at the time given.
ParseCandle(day, v, t) == [day |-> day, v |-> v, closed |-> ProviderClosed(day, t)]

-----------------------------------------------------------------------------
(* The feed's background tasks.                                            *)

\* _reader_loop: recv() raises, the task ends.
ReaderFails ==
    /\ wsStatus = "CONNECTED" /\ reader /\ ~link
    /\ wsStatus' = "RECONNECTING" /\ bgError' = TRUE /\ reader' = FALSE
    /\ UNCHANGED <<lastBackfill, outrun, clock, market, link, net, acked, buffering, buffer, queue, repo, flags,
                   lastError, pc, evalTime, snapshot, faults>>

\* _heartbeat_loop: no message for pong_timeout_seconds; the reader goes on.
PongTimeout ==
    /\ wsStatus = "CONNECTED" /\ Fault
    /\ wsStatus' = "RECONNECTING" /\ bgError' = TRUE
    /\ UNCHANGED <<lastBackfill, outrun, clock, market, link, net, acked, reader, buffering, buffer, queue, repo,
                   flags, lastError, pc, evalTime, snapshot>>

\* _handle_candle: to the buffer or to the queue, with the closedness of the
\* moment it is received; an overflow kills the reader.
HandleCandle(item) ==
    LET raw == ParseCandle(item.day, item.v, clock)
    IN  \/ /\ buffering /\ Len(buffer) < BufferSize
           /\ buffer' = Append(buffer, raw)
           /\ UNCHANGED <<queue, wsStatus, bgError, reader>>
        \/ /\ buffering /\ Len(buffer) >= BufferSize
           /\ wsStatus' = "RECONNECTING" /\ bgError' = TRUE /\ reader' = FALSE
           /\ UNCHANGED <<buffer, queue>>
        \/ /\ ~buffering
           /\ queue' = IF acked THEN Append(queue, raw) ELSE queue
           /\ UNCHANGED <<buffer, wsStatus, bgError, reader>>

\* _read_once of a candle message.
ReceiveCandle ==
    /\ reader /\ net # <<>> /\ Head(net) # Ack
    /\ net' = Tail(net)
    /\ HandleCandle(Head(net))
    /\ UNCHANGED <<lastBackfill, outrun, clock, market, link, acked, buffering, repo, flags, lastError, pc,
                   evalTime, snapshot, faults>>

-----------------------------------------------------------------------------
(* start(): buffer first, then meta, connection, backfill, replay.         *)

BeginBuffer == buffering' = TRUE /\ buffer' = <<>>
DiscardBuffer == buffering' = FALSE /\ buffer' = <<>>

Start ==
    /\ pc = "down"
    /\ BeginBuffer
    /\ evalTime' = clock
    /\ pc' = "start_dial"
    /\ UNCHANGED <<lastBackfill, outrun, clock, market, link, net, wsStatus, acked, reader, bgError, queue, repo,
                   flags, lastError, snapshot, faults>>

\* connect_and_subscribe up to the subscribe messages.
Dial(from, to) ==
    /\ pc = from
    /\ link' = TRUE /\ net' = <<Ack>>
    /\ wsStatus' = "CONNECTING" /\ acked' = FALSE /\ reader' = TRUE
    /\ pc' = to
    /\ flags' = [flags EXCEPT !.meta = @ \/ from = "start_dial"]
    /\ outrun' = (outrun \/ \E i \in DOMAIN buffer : ~Opened(buffer[i].day, evalTime))
    /\ UNCHANGED <<lastBackfill, clock, market, bgError, buffering, buffer, queue, repo, lastError,
                   evalTime, snapshot, faults>>

\* connect_and_subscribe: the acknowledgements are complete.
Acknowledged(from, to) ==
    /\ pc = from
    /\ net # <<>> /\ Head(net) = Ack
    /\ net' = Tail(net)
    /\ acked' = TRUE /\ wsStatus' = "CONNECTED" /\ bgError' = FALSE
    /\ pc' = to
    /\ UNCHANGED <<lastBackfill, outrun, clock, market, link, reader, buffering, buffer, queue, repo, flags,
                   lastError, evalTime, snapshot, faults>>

\* Mutant: the backfill begins after the last stored day, which was still open.
BackfillFromNext == IF Stored(repo) = {} THEN 1 ELSE Max(Stored(repo)) + 1
\* The exchange answers candleSnapshot: from the last stored day to the
\* evaluation time, with the values of this moment.
BackfillFrom == IF Stored(repo) = {} THEN 1 ELSE Max(Stored(repo))
FetchCandles(from, to) ==
    /\ pc = from
    /\ LET asked == {d \in Days : d >= BackfillFrom /\ Opened(d, evalTime)}
           day(i) == BackfillFrom + i - 1
       IN  snapshot' = [i \in 1..Cardinality(asked) |-> ParseCandle(day(i), market[day(i)], evalTime)]
    /\ pc' = to
    /\ UNCHANGED <<lastBackfill, outrun, clock, market, link, net, feedVars, repo, flags, lastError, evalTime, faults>>

\* end_buffer sorts by open time, in order of arrival within a day: the place of a
\* candle is the number of those that do not come after it.
NotAfter(i) ==
    {k \in DOMAIN buffer : buffer[k].day < buffer[i].day \/ (buffer[k].day = buffer[i].day /\ k <= i)}
EndBuffer ==
    [n \in DOMAIN buffer |-> buffer[CHOOSE i \in DOMAIN buffer : Cardinality(NotAfter(i)) = n]]

\* backfill_symbol's ingest, the replay of the buffer, the weekly refresh.
AfterBackfill(r) ==
    RefreshIsoWeekly(IngestLiveRaw(IngestLiveRaw(r, snapshot, evalTime), EndBuffer, evalTime),
                     evalTime)

StartDone ==
    /\ pc = "start_ingest"
    /\ repo' = AfterBackfill(repo)
    /\ lastBackfill' = evalTime
    /\ DiscardBuffer
    /\ flags' = [meta |-> TRUE, backfill |-> TRUE, initial |-> TRUE,
                 bundles |-> BundleUsable(repo', evalTime)]
    /\ lastError' = FALSE
    /\ snapshot' = <<>>
    /\ pc' = "idle"
    /\ UNCHANGED <<clock, market, link, net, wsStatus, acked, reader, bgError, queue,
                   evalTime, outrun, faults>>

\* start() raises, or the process dies: a new one starts from nothing.
Restart ==
    /\ pc # "down" /\ Fault
    /\ Fresh
    /\ UNCHANGED <<clock, market>>

-----------------------------------------------------------------------------
(* process_live() and reconnect().                                         *)

\* The tail of process_live: drain the queue, ingest, refresh the weeks.
Drain(r, t) == RefreshIsoWeekly(IngestLiveRaw(r, queue, t), t)

Poll ==
    /\ pc = "idle" /\ wsStatus # "RECONNECTING"
    /\ evalTime' = clock
    /\ repo' = Drain(repo, clock)
    /\ queue' = <<>>
    /\ UNCHANGED <<lastBackfill, outrun, clock, market, link, net, wsStatus, acked, reader, bgError, buffering,
                   buffer, flags, lastError, pc, snapshot, faults>>

PollReconnects ==
    /\ pc = "idle" /\ wsStatus = "RECONNECTING"
    /\ evalTime' = clock
    /\ BeginBuffer
    /\ pc' = "dial"
    /\ UNCHANGED <<lastBackfill, outrun, clock, market, link, net, wsStatus, acked, reader, bgError, queue, repo,
                   flags, lastError, snapshot, faults>>

\* The reconnect's own tail, then the rest of process_live.
ReconnectDone ==
    /\ pc = "ingest"
    /\ LET r == AfterBackfill(repo)
           bundles == BundleUsable(r, evalTime)
           recovered == /\ flags.initial /\ bundles /\ ~bgError /\ wsStatus = "CONNECTED"
                        /\ ~r.conflicts
                        /\ DailyValid(r, evalTime) /\ WeeklyValid(r, evalTime)
       IN  /\ repo' = Drain(r, evalTime)
           /\ flags' = [flags EXCEPT !.meta = TRUE, !.backfill = TRUE, !.bundles = bundles]
           /\ lastError' = ~recovered
    /\ lastBackfill' = evalTime
    /\ DiscardBuffer
    /\ queue' = <<>> /\ snapshot' = <<>>
    /\ pc' = "idle"
    /\ UNCHANGED <<clock, market, link, net, wsStatus, acked, reader, bgError, evalTime,
                   outrun, faults>>

\* The handshake fails, or the total timeout cancels it: retryable.
HandshakeFails ==
    /\ pc \in {"dial", "acks"} /\ Fault
    /\ wsStatus' = "RECONNECTING" /\ bgError' = TRUE /\ reader' = FALSE
    /\ acked' = (acked /\ pc = "dial")
    /\ link' = FALSE /\ net' = <<>>
    /\ lastError' = TRUE
    /\ DiscardBuffer
    /\ pc' = "idle"
    /\ UNCHANGED <<lastBackfill, outrun, clock, market, queue, repo, flags, evalTime, snapshot>>

\* A reconnect that fails after the handshake; the series fetched before the
\* failing one is in the repository, its buffer and its weeks are not.
ReconnectFails ==
    /\ pc \in {"fetch", "ingest"} /\ Fault
    /\ repo' = IngestLiveRaw(repo, snapshot, evalTime)
    /\ DiscardBuffer
    /\ snapshot' = <<>>
    /\ pc' = "idle"
    /\ UNCHANGED <<clock, market, link, net, wsStatus, acked, reader, bgError, queue,
                   lastBackfill, evalTime>>

BackfillFailsUnrecorded == ReconnectFails /\ UNCHANGED <<flags, lastError, outrun>>
\* backfill_symbol raises after its retries: every flag of start() is gone.
BackfillFails ==
    /\ ReconnectFails
    /\ flags' = NoFlags /\ lastError' = TRUE
    /\ UNCHANGED outrun

\* asyncio.timeout cancels the backfill: only the error is recorded.
ReconnectTimesOut ==
    /\ ReconnectFails
    /\ lastError' = TRUE /\ outrun' = TRUE
    /\ UNCHANGED flags

-----------------------------------------------------------------------------
Next ==
    \/ Tick \/ Trade \/ Cut
    \/ ReaderFails \/ PongTimeout \/ ReceiveCandle
    \/ Start \/ Dial("start_dial", "start_acks") \/ Acknowledged("start_acks", "start_fetch")
    \/ FetchCandles("start_fetch", "start_ingest") \/ StartDone \/ Restart
    \/ Poll \/ PollReconnects
    \/ Dial("dial", "acks") \/ Acknowledged("acks", "fetch")
    \/ FetchCandles("fetch", "ingest") \/ ReconnectDone
    \/ HandshakeFails \/ BackfillFails \/ ReconnectTimesOut

Spec == Init /\ [][Next]_vars

-----------------------------------------------------------------------------
Candles == [v : Nat \cup {-1}, closed : BOOLEAN]
Raws == [day : Days, v : Nat, closed : BOOLEAN]
PCs == {"down", "start_dial", "start_acks", "start_fetch", "start_ingest", "idle", "dial",
        "acks", "fetch", "ingest"}

\* Type invariant of the runtime; the reconnect buffer never outgrows
\* reconnect_buffer_size.
TypeOK ==
    /\ lastBackfill \in 0..clock
    /\ clock \in StartTick..Max({StartTick, 2 * NDays}) /\ evalTime \in 0..clock
    /\ market \in [Days -> Nat]
    /\ {link, acked, reader, bgError, buffering, lastError} \subseteq BOOLEAN
    /\ wsStatus \in {"DISCONNECTED", "CONNECTING", "CONNECTED", "RECONNECTING"}
    /\ \A i \in DOMAIN net : net[i] = Ack \/ net[i] \in [day : Days, v : Nat]
    /\ \A s \in {buffer, queue, snapshot} : \A i \in DOMAIN s : s[i] \in Raws
    /\ Len(buffer) <= BufferSize
    /\ repo.daily \in [Days -> Candles] /\ repo.conflicts \in BOOLEAN
    /\ flags \in [meta : BOOLEAN, backfill : BOOLEAN, initial : BOOLEAN, bundles : BOOLEAN]
    /\ pc \in PCs /\ outrun \in BOOLEAN

Settled == pc = "idle" /\ link /\ net = <<>> /\ queue = <<>> /\ buffer = <<>>
NothingMissed == \A d \in Days : Opened(d, lastBackfill) => repo.offered[d] = market[d]

\* While the runtime reports readiness (between polls) over a live connection
\* with nothing left in flight, every update of every day the last successful
\* backfill reached has been offered to the repository, unless a reconnect of
\* this process timed out in its backfill or waited over midnight before it
\* dialled: a cut connection, a failed handshake, an overflowed or discarded
\* buffer and a failed backfill never cost an update unnoticed.
ReadyMeansNothingMissed == Settled /\ Readiness /\ ~outrun => NothingMissed

\* While it reports readiness, every stored weekly candle is the aggregate of
\* the daily candles stored now, whatever rewrote a daily candle after the
\* week was built.
ReadyMeansWeeklyAgrees ==
    pc = "idle" /\ Readiness =>
        \A w \in Weeks : repo.weekly[w] # <<>> =>
            repo.weekly[w] = [d \in WeekOf(w) |-> repo.daily[d].v]

\* A candle stored as closed is never rewritten in the life of a process, by
\* no replay, backfill or late update, although a call in progress uses the
\* evaluation time of its beginning.
ClosedNeverRewritten ==
    [][pc' # "down" => \A d \in Days : repo.daily[d].closed => repo'.daily[d] = repo.daily[d]]_vars

\* "Reconnect (race-free)": when a reconnect has restored readiness and nothing
\* is in flight, no update was missed, a timed-out reconnect before it included.
ReconnectRaceFree == Settled /\ Readiness => NothingMissed

\* Readiness tells the truth about the stored candles: none was missed, and the weekly
\* ones are those of the daily ones (MarketDataRuntime.readiness).
ReadyIsTrue == TypeOK /\ ReadyMeansNothingMissed /\ ReadyMeansWeeklyAgrees
=============================================================================
