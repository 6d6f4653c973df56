---------------------------- MODULE DatasetImport ----------------------------
(***************************************************************************)
(* The historical import of services/market_data: raw bytes are stored in  *)
(* a content-addressed file, registered in the catalog, checkpointed,      *)
(* normalised and published as a dataset whose candles are appended in a   *)
(* second transaction; a dataset is handed to research only through the    *)
(* quarantine.  Several processes share the files, the catalog and the     *)
(* checkpoints; each keeps its own list of append conflicts.               *)
(*                                                                         *)
(* A payload is the sequence of candles of its JSON array.  SHA-256 is     *)
(* taken as injective: a raw file is named by its payload and a dataset by *)
(* its sorted rows.  OHLC structure is taken as valid.                     *)
(***************************************************************************)
EXTENDS Integers, Sequences, FiniteSets, FiniteSetsExt

CONSTANTS
    Procs,       \* processes that import or consume
    Jobs,        \* import job ids (checkpoint files)
    Payloads,    \* what the exchange may answer
    LastDay,     \* last day on which a dataset is evaluated
    MaxCalls,    \* calls of the entry points during the run
    MaxCrashes   \* processes killed during the run

ASSUME ImportConstants ==
    /\ LastDay \in Nat \ {0}
    /\ {MaxCalls, MaxCrashes} \subseteq Nat
    /\ Payloads \subseteq Seq([day : 1..LastDay, v : Nat])

VARIABLES
    file,      \* payload -> its raw file: absent, torn or whole
    raced,     \* history: payloads whose file was opened again after it existed
    raws,      \* payloads with a row in market_data_raw_artifacts
    datasets,  \* dataset -> its row and its candles
    cp,        \* job -> its checkpoint file
    conflicts, \* process -> datasets with entries in _append_conflicts
    op,        \* process -> the operation it is in
    accepted,  \* history: what the quarantine let through last
    calls,
    crashes

importVars == <<file, raced, raws, datasets, cp, conflicts, op, accepted, calls, crashes>>

-----------------------------------------------------------------------------
(* Rows, hashes and the quality of a dataset.                              *)

\* sort_candle_rows: stable, by open time.  The rank of a row is the number of rows
\* that do not come after it.
NotAfter(s, i) ==
    {k \in DOMAIN s : s[k].day < s[i].day \/ (s[k].day = s[i].day /\ k <= i)}
SortCandleRows(s) ==
    [r \in DOMAIN s |-> s[CHOOSE i \in DOMAIN s : Cardinality(NotAfter(s, i)) = r]]
\* normalize_batch and derive_dataset_id: the id stands for the sorted rows.
DatasetOf(y) == SortCandleRows(y)
DatasetIds == {DatasetOf(y) : y \in Payloads} \ {<<>>}
DaysOf(d) == {d[i].day : i \in DOMAIN d}

\* The first row of a day is inserted, every later one is compared with it.
FirstOf(d, day) == d[Min({i \in DOMAIN d : d[i].day = day})].v
AppendedCandles(d) == [day \in DaysOf(d) |-> FirstOf(d, day)]
HasConflict(d) == \E i \in DOMAIN d : d[i].v # FirstOf(d, d[i].day)

\* detect_gaps: inside the series and after it, up to the evaluation day.
ImportGaps(days, t) ==
    {g \in Min(days)..Max(days \cup {t}) : g \notin days}
\* is_candle_data_stale: the period after the last candle has closed.
IsCandleDataStale(days, t) == t > Max(days)

\* _evaluate_candles on the candles of the catalog, after day t has closed.
EvaluateCandles(candles, t) ==
    LET days == DOMAIN candles IN
    CASE days = {} -> "INCOMPLETE"
      [] days # {} /\ ImportGaps(days, t) # {} -> "INCOMPLETE"
      [] days # {} /\ ImportGaps(days, t) = {} /\ IsCandleDataStale(days, t) -> "STALE"
      [] OTHER -> "VALID"
\* Mutant: the evaluation without the first check.
EvaluateDatasetQualityNonempty(candles, conflicting, t) ==
    IF conflicting THEN "INVALID"
    ELSE IF DOMAIN candles = {} THEN "VALID" ELSE EvaluateCandles(candles, t)
\* evaluate_dataset_quality adds the conflicts that this process recorded.
EvaluateDatasetQuality(candles, conflicting, t) ==
    IF conflicting THEN "INVALID" ELSE EvaluateCandles(candles, t)

\* assess_quarantine: imports never set allow_quality_warnings.
AllowQualityWarnings == FALSE
AssessQuarantine(status) ==
    \/ status = "VALID"
    \/ status \in {"INCOMPLETE", "STALE"} /\ AllowQualityWarnings

-----------------------------------------------------------------------------
(* State.                                                                  *)

NoJob == "none"
Idle == [at |-> "idle", payload |-> <<>>, job |-> NoJob, status |-> "VALID"]
NoCheckpoint == [phase |-> "none", payload |-> <<>>, ds |-> <<>>]
Unpublished == [published |-> FALSE, quality |-> "VALID", candles |-> <<>>, raw |-> <<>>]

ImportInit ==
    /\ file = [y \in Payloads |-> "absent"]
    /\ raced = {}
    /\ raws = {}
    /\ datasets = [d \in DatasetIds |-> Unpublished]
    /\ cp = [j \in Jobs |-> NoCheckpoint]
    /\ conflicts = [p \in Procs |-> {}]
    /\ op = [p \in Procs |-> Idle]
    /\ accepted = {}
    /\ calls = 0
    /\ crashes = 0

Goes(p, at) == op' = [op EXCEPT ![p].at = at]
\* The call returned or raised: the process may begin another one.
Ends(p) == op' = [op EXCEPT ![p] = Idle]
\* A call of an entry point that does not answer at once.
Begins(p, call) ==
    /\ op[p].at = "idle"
    /\ calls < MaxCalls
    /\ calls' = calls + 1
    /\ op' = [op EXCEPT ![p] = call]
Import(at, y, j) == [Idle EXCEPT !.at = at, !.payload = y, !.job = j]
Published(d) == d \in DatasetIds /\ datasets[d].published
\* The checkpoint leads to _existing_published_result.
Cached(j) == cp[j].phase = "published" /\ Published(cp[j].ds)

-----------------------------------------------------------------------------
(* import_from_raw_payload, step by step.                                  *)

\* A job whose checkpoint says published answers from the catalog; a torn
\* checkpoint raises.  In both cases nothing changes.
ImportFromRawPayload(p, j, y) ==
    /\ cp[j].phase # "torn" /\ ~Cached(j)
    /\ Begins(p, Import("store", y, j))
    /\ UNCHANGED <<file, raced, raws, datasets, cp, conflicts, accepted, crashes>>

\* FileRawArtifactStore.store: an existing file must hold the same bytes.
StoreExisting(p) ==
    /\ op[p].at = "store"
    /\ file[op[p].payload] # "absent"
    /\ IF file[op[p].payload] = "whole" THEN Goes(p, "register") ELSE Ends(p)
    /\ UNCHANGED <<file, raced, raws, datasets, cp, conflicts, accepted, calls, crashes>>

StoreDecided(p) ==
    /\ op[p].at = "store"
    /\ file[op[p].payload] = "absent"
    /\ Goes(p, "open")
    /\ UNCHANGED <<file, raced, raws, datasets, cp, conflicts, accepted, calls, crashes>>

\* path.write_bytes: opened and truncated first, complete when it returns.
StoreOpens(p) ==
    LET y == op[p].payload IN
    /\ op[p].at = "open"
    /\ file' = [file EXCEPT ![y] = "torn"]
    /\ raced' = IF file[y] = "absent" THEN raced ELSE raced \cup {y}
    /\ Goes(p, "write")
    /\ UNCHANGED <<raws, datasets, cp, conflicts, accepted, calls, crashes>>
StoreWrites(p) ==
    /\ op[p].at = "write"
    /\ file' = [file EXCEPT ![op[p].payload] = "whole"]
    /\ Goes(p, "register")
    /\ UNCHANGED <<raced, raws, datasets, cp, conflicts, accepted, calls, crashes>>

\* register_raw_artifact, for an import and for renormalize_from_raw_hash.
RegisterRawArtifact(p) ==
    /\ op[p].at = "register"
    /\ raws' = raws \cup {op[p].payload}
    /\ Goes(p, IF op[p].job = NoJob THEN "normalize" ELSE "checkpoint")
    /\ UNCHANGED <<file, raced, datasets, cp, conflicts, accepted, calls, crashes>>

SaveRawCheckpoint(p) ==
    /\ op[p].at = "checkpoint"
    /\ cp' = [cp EXCEPT ![op[p].job] =
                [phase |-> "raw_stored", payload |-> op[p].payload, ds |-> <<>>]]
    /\ Goes(p, "normalize")
    /\ UNCHANGED <<file, raced, raws, datasets, conflicts, accepted, calls, crashes>>

\* No candles: ValueError.  A dataset that is published already is the result,
\* whatever it holds.
Normalize(p) ==
    LET d == DatasetOf(op[p].payload) IN
    /\ op[p].at = "normalize"
    /\ CASE d = <<>> -> Ends(p)
         [] Published(d) -> IF op[p].job = NoJob THEN Ends(p) ELSE Goes(p, "save")
         [] OTHER -> Goes(p, "publish")
    /\ UNCHANGED <<file, raced, raws, datasets, cp, conflicts, accepted, calls, crashes>>

\* publish_dataset: its own transaction, unique id, the raw row must exist.
PublishDataset(p) ==
    LET y == op[p].payload d == DatasetOf(y) IN
    /\ op[p].at = "publish"
    /\ IF Published(d) \/ y \notin raws
       THEN Ends(p) /\ UNCHANGED datasets
       ELSE /\ datasets' = [datasets EXCEPT ![d] =
                              [Unpublished EXCEPT !.published = TRUE, !.raw = y]]
            /\ Goes(p, "append")
    /\ UNCHANGED <<file, raced, raws, cp, conflicts, accepted, calls, crashes>>

\* append_candles: one transaction; differing duplicates are only remembered
\* in the process.
AppendCandles(p) ==
    LET d == DatasetOf(op[p].payload) IN
    /\ op[p].at = "append"
    /\ datasets' = [datasets EXCEPT ![d].candles = AppendedCandles(d)]
    /\ conflicts' = [conflicts EXCEPT ![p] = IF HasConflict(d) THEN @ \cup {d} ELSE @]
    /\ IF op[p].job = NoJob THEN Ends(p) ELSE Goes(p, "save")
    /\ UNCHANGED <<file, raced, raws, cp, accepted, calls, crashes>>
SavePublishedCheckpoint(p) ==
    LET y == op[p].payload IN
    /\ op[p].at = "save"
    /\ cp' = [cp EXCEPT ![op[p].job] =
                [phase |-> "published", payload |-> y, ds |-> DatasetOf(y)]]
    /\ Ends(p)
    /\ UNCHANGED <<file, raced, raws, datasets, conflicts, accepted, calls, crashes>>
-----------------------------------------------------------------------------
(* The other entry points.                                                 *)

\* FileRawArtifactStore.load: the bytes must have the hash of their name.
Loadable(y) == file[y] = "whole"

ResumeImportFromCheckpoint(p, j) ==
    /\ cp[j].phase \in {"raw_stored", "published"} /\ ~Cached(j)
    /\ Loadable(cp[j].payload)
    /\ Begins(p, Import("normalize", cp[j].payload, j))
    /\ UNCHANGED <<file, raced, raws, datasets, cp, conflicts, accepted, crashes>>

RenormalizeFromRawHash(p, y) ==
    /\ Loadable(y)
    /\ DatasetOf(y) # <<>> /\ ~Published(DatasetOf(y))
    /\ Begins(p, Import("register", y, NoJob))
    /\ UNCHANGED <<file, raced, raws, datasets, cp, conflicts, accepted, crashes>>

\* require_research_dataset: the candles are read, then the verdict is stored.
RequireResearchDataset(p, d, t) ==
    LET status == EvaluateDatasetQuality(datasets[d].candles, d \in conflicts[p], t) IN
    /\ Published(d)
    /\ Begins(p, [Idle EXCEPT !.at = "persist", !.payload = d, !.status = status])
    /\ accepted' = IF AssessQuarantine(status)
                   THEN {[proc |-> p, ds |-> d, day |-> t, candles |-> datasets[d].candles]}
                   ELSE accepted
    /\ UNCHANGED <<file, raced, raws, datasets, cp, conflicts, crashes>>
PersistQualityReport(p) ==
    /\ op[p].at = "persist"
    /\ datasets' = [datasets EXCEPT ![op[p].payload].quality = op[p].status]
    /\ Ends(p)
    /\ UNCHANGED <<file, raced, raws, cp, conflicts, accepted, calls, crashes>>

\* The process is killed.  Its conflict list is gone; a checkpoint it was
\* writing may be left truncated (write_text).
CrashImport(p) ==
    /\ op[p].at # "idle"
    /\ crashes < MaxCrashes
    /\ crashes' = crashes + 1
    /\ op' = [op EXCEPT ![p] = Idle]
    /\ conflicts' = [conflicts EXCEPT ![p] = {}]
    /\ \/ UNCHANGED cp
       \/ /\ op[p].at \in {"checkpoint", "save"}
          /\ cp' = [cp EXCEPT ![op[p].job] = [NoCheckpoint EXCEPT !.phase = "torn"]]
    /\ UNCHANGED <<file, raced, raws, datasets, accepted, calls>>

ImportNext ==
    \E p \in Procs :
       \/ \E j \in Jobs, y \in Payloads : ImportFromRawPayload(p, j, y)
       \/ StoreExisting(p)
       \/ StoreDecided(p)
       \/ StoreOpens(p)
       \/ StoreWrites(p)
       \/ RegisterRawArtifact(p)
       \/ SaveRawCheckpoint(p)
       \/ Normalize(p)
       \/ PublishDataset(p)
       \/ AppendCandles(p)
       \/ SavePublishedCheckpoint(p)
       \/ \E j \in Jobs : ResumeImportFromCheckpoint(p, j)
       \/ \E y \in Payloads : RenormalizeFromRawHash(p, y)
       \/ \E d \in DatasetIds, t \in 1..LastDay : RequireResearchDataset(p, d, t)
       \/ PersistQualityReport(p)
       \/ CrashImport(p)

ImportSpec == ImportInit /\ [][ImportNext]_importVars

-----------------------------------------------------------------------------
(* Properties.                                                             *)

Statuses == {"VALID", "INCOMPLETE", "STALE", "INVALID"}

\* Every file, row, checkpoint and operation keeps its shape.
ImportTypeOK ==
    /\ file \in [Payloads -> {"absent", "torn", "whole"}]
    /\ raws \subseteq Payloads /\ raced \subseteq Payloads
    /\ \A d \in DatasetIds :
          /\ datasets[d].published \in BOOLEAN
          /\ datasets[d].quality \in Statuses
          /\ datasets[d].candles \in {<<>>, AppendedCandles(d)}
    /\ \A j \in Jobs : /\ cp[j].phase \in {"none", "torn", "raw_stored", "published"}
                       /\ cp[j].payload \in Payloads \cup {<<>>}
                       /\ cp[j].ds \in DatasetIds \cup {<<>>}
    /\ \A p \in Procs : conflicts[p] \subseteq DatasetIds /\ op[p].status \in Statuses

\* What the quarantine lets through holds every day from its first candle to
\* the evaluation day, and every candle of its manifest: no dataset is accepted
\* between publish_dataset and append_candles, or after a crash there
\* (require_research_dataset, "Fail-closed lookup for research consumption").
AcceptedIsWhole ==
    \A a \in accepted :
       /\ a.candles = AppendedCandles(a.ds)
       /\ Min(DaysOf(a.ds))..a.day \subseteq DOMAIN a.candles

\* The process that appended conflicting duplicates does not accept the dataset
\* as long as it lives (get_append_conflicts).
ImporterRefusesConflicts ==
    \A a \in accepted : a.ds \notin conflicts[a.proc]

\* A checkpoint never runs ahead of the catalog: what resume relies on (the
\* registered artifact, the published dataset) is there.
CheckpointIsBacked ==
    \A j \in Jobs :
       /\ cp[j].phase = "raw_stored" => cp[j].payload \in raws
       /\ cp[j].phase = "published" => Published(cp[j].ds) /\ datasets[cp[j].ds].raw \in raws

\* A published dataset can be normalised again: the raw bytes it names are
\* whole on disk, unless a second writer had decided to write the same file
\* before it existed and truncated it again (FileRawArtifactStore.store).
PublishedIsReplayable ==
    \A d \in DatasetIds :
       Published(d) => \/ file[datasets[d].raw] = "whole"
                       \/ datasets[d].raw \in raced

\* The import keeps files, catalog and checkpoints in step over every crash between
\* their writes, and the quarantine hands out only whole, unconflicted datasets.
ImportsAreSound ==
    /\ ImportTypeOK
    /\ AcceptedIsWhole /\ ImporterRefusesConflicts
    /\ CheckpointIsBacked /\ PublishedIsReplayable
=============================================================================
