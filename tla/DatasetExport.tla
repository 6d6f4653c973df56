---------------------------- MODULE DatasetExport ----------------------------
(***************************************************************************)
(* The export of a research dataset (services/research/hl_dataset_export)  *)
(* and its use (services/research/dataset_binding): raw pages are parsed,  *)
(* cut to a window of closed days, checked, written to a staging directory *)
(* and renamed into place, and an alias of the catalog file is pointed at  *)
(* the result; an experiment pins the alias's dataset and binds it when it *)
(* runs.  Several exporters share the directory and the catalog.           *)
(*                                                                         *)
(* Time counts half days: at tick 2d-2 day d is open, at 2d-1 (23:59:59)   *)
(* it is closed.  A dataset id stands for the daily rows it hashes: the    *)
(* weekly and monthly rows are a function of them.  build_research_bundle  *)
(* sorts the rows, one for each day, so their set says which file it is.   *)
(***************************************************************************)
EXTENDS Integers, Sequences, SequencesExt, FiniteSetsExt

CONSTANTS
    Exporters,   \* exporting processes
    Aliases,     \* catalog aliases
    Fetches,     \* what the exchange may answer: sequences of pages of candles
    ExportDays,  \* days known to the exchange
    WeekDays,    \* days of a week (7 in the code)
    MonthDays,   \* days of a month
    Lengths,     \* --days
    AsOfs,       \* --as-of pins
    Commits,     \* code commits
    Ranges,      \* time ranges of experiments: sets of days
    MaxExports   \* exports begun during the run

ASSUME ExportConstants ==
    /\ {ExportDays, WeekDays, MonthDays} \subseteq Nat \ {0}
    /\ Lengths \subseteq Nat /\ AsOfs \subseteq Nat
    /\ Ranges \subseteq SUBSET (1..ExportDays)
    /\ MaxExports \in Nat

VARIABLES
    snapshots,  \* dataset id -> its directory, or NoDir
    catalog,    \* alias -> dataset id, or NoDataset: the catalog file
    exporter,   \* exporter -> the export it is in
    spec,       \* the experiment: the dataset it pins and its time range
    bound,      \* history: what the last bind returned
    exports

exportVars == <<snapshots, catalog, exporter, spec, bound, exports>>

NoDataset == {}
NoDir == [manifest |-> {}, bundle |-> {}, raw |-> <<>>, asOf |-> 0, commit |-> "none"]

-----------------------------------------------------------------------------
(* The window and the bundle.                                              *)

DayAt(t) == t \div 2 + 1
ClosedAt(d, t) == t >= 2 * d - 1
LastClosedUtcDay(t) == IF ClosedAt(DayAt(t), t) THEN DayAt(t) ELSE DayAt(t) - 1

\* resolve_export_window: days open days that end with the last closed one.
ResolveExportWindow(t, n) == (LastClosedUtcDay(t) - n + 1)..LastClosedUtcDay(t)

\* raw_candles_from_hl_pages: all pages, the first row of a day is kept.
RawCandlesFromPages(pages) ==
    LET rows == FlattenSeq(pages) IN
    {c \in ToSet(rows) : c = rows[Min({i \in DOMAIN rows : rows[i].day = c.day})]}
\* export_from_raw_pages: only the rows of the window.
DailyRows(pages, window) == {c \in RawCandlesFromPages(pages) : c.day \in window}

\* assert_daily_window: exactly one row for every day of the window.
AssertDailyWindow(rows, window) ==
    /\ Cardinality(rows) = Cardinality(window)
    /\ {c.day : c \in rows} = window

\* build_research_bundle: the dailies, from which the complete weeks and months follow.
ResearchBundle(input) == DailyRows(input.pages, ResolveExportWindow(input.asOf, input.days))
CompletePeriods(window, n) ==
    {k \in 1..ExportDays : ((k - 1) * n + 1)..(k * n) \subseteq window}
\* require_quality_valid: the dailies are gapless by now; a series without a
\* complete period is INCOMPLETE.
RequireQualityValid(window) ==
    CompletePeriods(window, WeekDays) # {} /\ CompletePeriods(window, MonthDays) # {}

\* build_export_manifest and parse_manifest: the id hashes the rows only; as-of,
\* commit and raw hash are content of the manifest.
DirOf(input) ==
    LET rows == ResearchBundle(input)
    IN [manifest |-> rows, bundle |-> rows, raw |-> input.pages,
        asOf |-> input.asOf, commit |-> input.commit]
Exportable(input) ==
    LET window == ResolveExportWindow(input.asOf, input.days) IN
    /\ input.pages # <<>> /\ input.days >= 1
    /\ AssertDailyWindow(DailyRows(input.pages, window), window)
    /\ RequireQualityValid(window)

ExportInputs == [pages : Fetches, asOf : AsOfs, days : Lengths, commit : Commits]
DatasetsOfExport == {DirOf(i).manifest : i \in {x \in ExportInputs : Exportable(x)}}

-----------------------------------------------------------------------------
(* The exporter.                                                           *)

NotExporting == [at |-> "idle", alias |-> "none", dir |-> NoDir, read |-> <<>>]
NoSpec == [ref |-> NoDataset, range |-> {}]
NotBound == [ref |-> NoDataset, rows |-> {}, range |-> {}]

ExportInit ==
    /\ snapshots = [d \in DatasetsOfExport |-> NoDir]
    /\ catalog = [a \in Aliases |-> NoDataset]
    /\ exporter = [e \in Exporters |-> NotExporting]
    /\ spec = NoSpec
    /\ bound = NotBound
    /\ exports = 0

\* export_from_raw_pages up to the staging directory; an input that is not
\* exportable raises and leaves nothing.
BeginExport(e, a, input) ==
    /\ exporter[e].at = "idle"
    /\ exports < MaxExports
    /\ Exportable(input)
    /\ exports' = exports + 1
    /\ exporter' = [exporter EXCEPT ![e] =
          [NotExporting EXCEPT !.at = "write", !.alias = a, !.dir = DirOf(input)]]
    /\ UNCHANGED <<snapshots, catalog, spec, bound>>

\* write_snapshot_if_absent: an existing directory must have the same bytes.
CompareSnapshot(e) ==
    LET dir == exporter[e].dir IN
    /\ exporter[e].at = "write"
    /\ snapshots[dir.manifest] # NoDir
    /\ exporter' = [exporter EXCEPT ![e] = IF snapshots[dir.manifest] = dir
                                           THEN [@ EXCEPT !.at = "read"] ELSE NotExporting]
    /\ UNCHANGED <<snapshots, catalog, spec, bound, exports>>
StageSnapshot(e) ==
    /\ exporter[e].at = "write"
    /\ snapshots[exporter[e].dir.manifest] = NoDir
    /\ exporter' = [exporter EXCEPT ![e].at = "rename"]
    /\ UNCHANGED <<snapshots, catalog, spec, bound, exports>>
\* Mutant: os.replace takes the place of what is there.
RenameSnapshotOver(e) ==
    LET dir == exporter[e].dir IN
    /\ exporter[e].at = "rename"
    /\ snapshots' = [snapshots EXCEPT ![dir.manifest] = dir]
    /\ exporter' = [exporter EXCEPT ![e].at = "read"]
    /\ UNCHANGED <<catalog, spec, bound, exports>>
\* os.replace onto a directory that is there by now raises.
RenameSnapshot(e) ==
    LET dir == exporter[e].dir IN
    /\ exporter[e].at = "rename"
    /\ IF snapshots[dir.manifest] = NoDir
       THEN /\ snapshots' = [snapshots EXCEPT ![dir.manifest] = dir]
            /\ exporter' = [exporter EXCEPT ![e].at = "read"]
       ELSE /\ exporter' = [exporter EXCEPT ![e] = NotExporting]
            /\ UNCHANGED snapshots
    /\ UNCHANGED <<catalog, spec, bound, exports>>

\* The raw index must name the raw dataset of the manifest; then
\* merge_catalog_atomic reads the file ...
ReadCatalog(e) ==
    LET dir == exporter[e].dir IN
    /\ exporter[e].at = "read"
    /\ exporter' = [exporter EXCEPT ![e] = IF snapshots[dir.manifest].raw = dir.raw
                                           THEN [@ EXCEPT !.at = "merge", !.read = catalog]
                                           ELSE NotExporting]
    /\ UNCHANGED <<snapshots, catalog, spec, bound, exports>>
\* ... and replaces it by what it read with the alias upserted.
MergeCatalog(e) ==
    LET x == exporter[e] IN
    /\ x.at = "merge"
    /\ catalog' = [x.read EXCEPT ![x.alias] = x.dir.manifest]
    /\ exporter' = [exporter EXCEPT ![e] = NotExporting]
    /\ UNCHANGED <<snapshots, spec, bound, exports>>
\* The exporter is killed: a staging directory may stay, named after its pid.
CrashExport(e) ==
    /\ exporter[e].at # "idle"
    /\ exporter' = [exporter EXCEPT ![e] = NotExporting]
    /\ UNCHANGED <<snapshots, catalog, spec, bound, exports>>

-----------------------------------------------------------------------------
(* Binding.                                                                *)

\* A spec pins what the alias means when it is written.
PinDataset(a, range) ==
    /\ catalog[a] # NoDataset
    /\ spec' = [ref |-> catalog[a], range |-> range]
    /\ UNCHANGED <<snapshots, catalog, exporter, bound, exports>>

\* filter_bundle_to_time_range
FilterBundle(rows, range) == {c \in rows : c.day \in range}
WindowOf(rows) == {c.day : c \in rows}
\* hash_research_bundle: over the rows as they are.
HashResearchBundle(rows) == rows

\* Mutant: bind_dataset_to_bundle without the comparison of the bundle's own hash.
BindAcceptsUnhashed(dir, s) ==
    /\ dir.manifest = s.ref
    /\ s.range \subseteq WindowOf(dir.manifest)
    /\ FilterBundle(dir.bundle, s.range) # {}
\* bind_dataset_to_bundle: manifest, id, range, every row inside the manifest's
\* window, the hash of the whole bundle, and something left after the cut.
BindAccepts(dir, s) ==
    /\ dir.manifest = s.ref
    /\ s.range \subseteq WindowOf(dir.manifest)
    /\ WindowOf(dir.bundle) \subseteq WindowOf(dir.manifest)
    /\ HashResearchBundle(dir.bundle) = s.ref
    /\ FilterBundle(dir.bundle, s.range) # {}

BindDataset ==
    /\ spec.ref # NoDataset
    /\ BindAccepts(snapshots[spec.ref], spec)
    /\ bound' = [ref |-> spec.ref, range |-> spec.range,
                 rows |-> FilterBundle(snapshots[spec.ref].bundle, spec.range)]
    /\ UNCHANGED <<snapshots, catalog, exporter, spec, exports>>

\* Disk or operator change a row of bundle.json, or lose one.
DamageBundle(d) ==
    /\ snapshots[d] # NoDir
    /\ snapshots[d].bundle = d
    /\ \E c \in d : \E put \in {{}, {[c EXCEPT !.v = @ + 1]}} :
          snapshots' = [snapshots EXCEPT ![d].bundle = (d \ {c}) \cup put]
    /\ UNCHANGED <<catalog, exporter, spec, bound, exports>>

ExportNext ==
    \/ \E e \in Exporters :
          \/ \E a \in Aliases, input \in ExportInputs : BeginExport(e, a, input)
          \/ CompareSnapshot(e)
          \/ StageSnapshot(e)
          \/ RenameSnapshot(e)
          \/ ReadCatalog(e)
          \/ MergeCatalog(e)
          \/ CrashExport(e)
    \/ \E a \in Aliases, range \in Ranges : PinDataset(a, range)
    \/ BindDataset
    \/ \E d \in DatasetsOfExport : DamageBundle(d)

ExportSpec == ExportInit /\ [][ExportNext]_exportVars

-----------------------------------------------------------------------------
(* Properties.                                                             *)

\* The catalog never names a dataset whose directory is missing or belongs to
\* other rows, through crashes between rename and merge, concurrent exporters
\* and repeated exports (export_from_raw_pages: snapshot first, catalog last).
CatalogIsBacked ==
    \A a \in Aliases :
       catalog[a] # NoDataset => snapshots[catalog[a]].manifest = catalog[a]

\* A published snapshot keeps its raw pages, its provenance and its manifest:
\* "identical re-run OK; divergent exists fails closed", also when two exporters
\* with different pages or commits rename at the same time.
SnapshotsAreFinal ==
    \A d \in DatasetsOfExport :
       snapshots[d] # NoDir => snapshots'[d] = [snapshots[d] EXCEPT !.bundle = snapshots'[d].bundle]

\* Every snapshot is a gapless run of days that were closed at its own as-of pin,
\* each with the first value its pages gave (last_closed_utc_day,
\* assert_daily_window).
SnapshotIsClosedWindow ==
    \A d \in DatasetsOfExport :
       snapshots[d] # NoDir =>
          LET days == WindowOf(d) IN
          /\ days = Min(days)..Max(days)
          /\ \A day \in days : ClosedAt(day, snapshots[d].asOf)
          /\ d \subseteq RawCandlesFromPages(snapshots[d].raw)

\* An experiment computes on exactly the rows its spec declared, cut to its time
\* range, whatever happened to the files or the alias since it was pinned
\* (bind_dataset_to_bundle, "Fail-closed on any mismatch").
BoundIsDeclared ==
    bound.ref # NoDataset =>
       /\ bound.rows = FilterBundle(bound.ref, bound.range)
       /\ WindowOf(bound.rows) = bound.range

\* From the raw pages to the experiment's rows: every snapshot is a closed gapless
\* window, every alias has its snapshot, every bound bundle is the declared one.
ExportsAreSound == CatalogIsBacked /\ SnapshotIsClosedWindow /\ BoundIsDeclared
=============================================================================
