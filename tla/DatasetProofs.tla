---------------------------- MODULE DatasetProofs ----------------------------
(***************************************************************************)
(* Proofs about the data path of the research lab: the import hands out    *)
(* only whole datasets, the export publishes only closed windows that      *)
(* experiments get as they declared them, for every set of processes, of   *)
(* payloads and of pages, and the folds of a walk-forward plan tile its    *)
(* range without a leak, for every calendar and every request.             *)
(***************************************************************************)
EXTENDS DatasetImport, DatasetExport, WalkForward, FiniteSetTheorems, WellFoundedInduction, TLAPS

-----------------------------------------------------------------------------
(* The invariant of the import.                                            *)

\* The places of an import that has a payload.
ImportPlaces ==
    {"store", "open", "write", "register", "checkpoint", "normalize", "publish", "append", "save"}

\* The operation of a process, a checkpoint file and a row of the catalog.
ImportOp ==
    [at : ImportPlaces \cup {"idle", "persist"}, payload : Payloads \cup DatasetIds \cup {<<>>},
     job : Jobs \cup {NoJob}, status : Statuses]
Checkpoint ==
    [phase : {"none", "torn", "raw_stored", "published"}, payload : Payloads \cup {<<>>},
     ds : DatasetIds \cup {<<>>}]
DatasetRow ==
    [published : BOOLEAN, quality : Statuses,
     candles : {<<>>} \cup {AppendedCandles(d) : d \in DatasetIds}, raw : Payloads \cup {<<>>}]

\* The dataset that an operation imports.
Its(o) == DatasetOf(o.payload)

\* What an operation in flight has in hand: the artifact row before its
\* checkpoint, the dataset it published before the rows, a published dataset
\* before the second checkpoint.
ImportOpOK(o) ==
    /\ o.at \in {"store", "open", "write", "checkpoint", "save"} => o.job \in Jobs
    /\ o.at \in ImportPlaces => o.payload \in Payloads
    /\ o.at = "persist" => o.payload \in DatasetIds
    /\ o.at = "register" => file[o.payload] = "whole" \/ o.payload \in raced
    /\ o.at = "checkpoint" => o.payload \in raws
    /\ o.at \in {"publish", "append", "save"} => Its(o) \in DatasetIds
    /\ o.at = "append" => datasets[Its(o)].published /\ datasets[Its(o)].candles = <<>>
    /\ o.at = "save" => datasets[Its(o)].published

\* publish_dataset lets one process append to a dataset.
OneAppender ==
    \A p, q \in Procs :
       op[p].at = "append" /\ op[q].at = "append" /\ Its(op[p]) = Its(op[q]) => p = q

\* The row of a dataset: its candles are appended whole and after its
\* publication, which names a registered artifact.
DatasetOK(d) ==
    /\ datasets[d].candles \in {<<>>, AppendedCandles(d)}
    /\ ~datasets[d].published => datasets[d].candles = <<>>
    /\ datasets[d].published => datasets[d].raw \in raws

CheckpointOK(j) ==
    /\ cp[j].phase \in {"raw_stored", "published"} => cp[j].payload \in Payloads
    /\ cp[j].phase = "raw_stored" => cp[j].payload \in raws
    /\ cp[j].phase = "published" => cp[j].ds \in DatasetIds /\ datasets[cp[j].ds].published

\* What was accepted is what the catalog still holds.
AcceptedOK(a) ==
    /\ a.proc \in Procs /\ a.ds \in DatasetIds
    /\ a.candles = datasets[a.ds].candles
    /\ a.candles = AppendedCandles(a.ds) /\ DOMAIN a.candles # {}
    /\ Min(DaysOf(a.ds))..a.day \subseteq DOMAIN a.candles
    /\ a.ds \notin conflicts[a.proc]

\* The inductive invariant.
ImportInv ==
    /\ file \in [Payloads -> {"absent", "torn", "whole"}]
    /\ raws \subseteq Payloads /\ raced \subseteq Payloads
    /\ \A y \in raws : file[y] = "whole" \/ y \in raced
    /\ datasets \in [DatasetIds -> DatasetRow]
    /\ \A d \in DatasetIds : DatasetOK(d)
    /\ cp \in [Jobs -> Checkpoint]
    /\ \A j \in Jobs : CheckpointOK(j)
    /\ conflicts \in [Procs -> SUBSET DatasetIds]
    /\ op \in [Procs -> ImportOp]
    /\ \A p \in Procs : ImportOpOK(op[p])
    /\ OneAppender
    /\ \A a \in accepted : AcceptedOK(a)

-----------------------------------------------------------------------------
(* The invariant of the export.                                            *)

\* The inputs an export gets through with.
GoodInputs == {x \in ExportInputs : Exportable(x)}

\* What an exporter is in the middle of.
ExporterState ==
    [at : {"idle", "write", "rename", "read", "merge"}, alias : Aliases \cup {"none"},
     dir : {NoDir} \cup {DirOf(x) : x \in GoodInputs},
     read : {<<>>} \cup [Aliases -> DatasetsOfExport \cup {NoDataset}]]

\* A snapshot is what some export wrote, but for the bundle file.
SnapshotOK(d) ==
    snapshots[d] # NoDir =>
       \E x \in GoodInputs :
          DirOf(x).manifest = d /\ snapshots[d] = [DirOf(x) EXCEPT !.bundle = snapshots[d].bundle]

\* A catalog, as read or as on disk, names snapshots that exist.
CatalogOK(c) ==
    /\ c \in [Aliases -> DatasetsOfExport \cup {NoDataset}]
    /\ \A a \in Aliases : c[a] # NoDataset => snapshots[c[a]] # NoDir

\* An exporter writes the catalog only after its snapshot.
ExporterOK(m) ==
    /\ m.at # "idle" => m.alias \in Aliases /\ \E x \in GoodInputs : m.dir = DirOf(x)
    /\ m.at \in {"read", "merge"} => snapshots[m.dir.manifest] # NoDir
    /\ m.at = "merge" => CatalogOK(m.read)

\* The inductive invariant.
ExportInv ==
    /\ snapshots = [d \in DatasetsOfExport |-> snapshots[d]]
    /\ \A d \in DatasetsOfExport : SnapshotOK(d)
    /\ CatalogOK(catalog)
    /\ exporter \in [Exporters -> ExporterState]
    /\ \A e \in Exporters : ExporterOK(exporter[e])
    /\ spec.ref \in DatasetsOfExport \cup {NoDataset}
    /\ BoundIsDeclared
-----------------------------------------------------------------------------
(* The window of an export.                                                *)

\* resolve_export_window ends with a day that is closed at the pin.
LEMMA WindowIsClosed ==
    ASSUME NEW t \in Nat, NEW n \in Nat \ {0}
    PROVE  LET w == ResolveExportWindow(t, n) IN
           /\ w # {} /\ w = Min(w)..Max(w)
           /\ \A day \in w : ClosedAt(day, t)
<1>1. PICK l \in Int : l = LastClosedUtcDay(t) /\ t >= 2 * l - 1
  BY DEF LastClosedUtcDay, ClosedAt, DayAt
<1>2. PICK f \in Int : f = l - n + 1 /\ f <= l
  OBVIOUS
<1>3. ResolveExportWindow(t, n) = f..l
  BY <1>1, <1>2 DEF ResolveExportWindow
<1>4. Min(f..l) = f
  <2>1. f \in f..l /\ \A y \in f..l : f =< y
    BY <1>2
  <2>2. \A x \in f..l : (\A y \in f..l : x =< y) => x = f
    BY <1>2
  <2>. QED
    BY <2>1, <2>2 DEF Min
<1>5. Max(f..l) = l
  <2>1. l \in f..l /\ \A y \in f..l : l >= y
    BY <1>2
  <2>2. \A x \in f..l : (\A y \in f..l : x >= y) => x = l
    BY <1>2
  <2>. QED
    BY <2>1, <2>2 DEF Max
<1>6. \A day \in f..l : ClosedAt(day, t)
  BY <1>1, <1>2 DEF ClosedAt
<1>7. f..l # {} /\ f..l = Min(f..l)..Max(f..l)
  BY <1>2, <1>4, <1>5
<1>. QED
  BY <1>3, <1>6, <1>7, Zenon

\* assert_daily_window: what an export writes is its window, of rows from its pages.
LEMMA DirIsWindow ==
    ASSUME NEW x \in GoodInputs
    PROVE  /\ DirOf(x).manifest \in DatasetsOfExport /\ DirOf(x).manifest # {}
           /\ DirOf(x) = [manifest |-> DirOf(x).manifest, bundle |-> DirOf(x).manifest,
                          raw |-> x.pages, asOf |-> x.asOf, commit |-> x.commit]
           /\ LET days == WindowOf(DirOf(x).manifest) IN
              /\ days = Min(days)..Max(days)
              /\ \A day \in days : ClosedAt(day, x.asOf)
           /\ DirOf(x).manifest \subseteq RawCandlesFromPages(x.pages)
<1>1. x \in ExportInputs /\ Exportable(x)
  BY DEF GoodInputs
<1>2. x.asOf \in Nat /\ x.days \in Nat \ {0}
  <2>1. x.asOf \in AsOfs /\ x.days \in Lengths
    BY <1>1 DEF ExportInputs
  <2>2. x.days >= 1
    BY <1>1 DEF Exportable
  <2>3. Lengths \subseteq Nat /\ AsOfs \subseteq Nat
    BY ExportConstants, Zenon
  <2>4. x.asOf \in Nat /\ x.days \in Nat
    BY <2>1, <2>3, Zenon
  <2>5. PICK n \in Nat : n = x.days
    BY <2>4
  <2>6. n >= 1
    BY <2>2, <2>5, Zenon
  <2>7. n \in Nat \ {0}
    BY <2>6
  <2>. QED
    BY <2>4, <2>5, <2>7
<1>3. PICK w : w = ResolveExportWindow(x.asOf, x.days)
  OBVIOUS
<1>4. /\ w # {} /\ w = Min(w)..Max(w)
      /\ \A day \in w : ClosedAt(day, x.asOf)
  BY <1>2, <1>3, WindowIsClosed
<1>5. PICK rows : rows = DailyRows(x.pages, w)
  OBVIOUS
<1>6. WindowOf(rows) = w
  BY <1>1, <1>3, <1>5 DEF Exportable, AssertDailyWindow, WindowOf
<1>7. rows # {}
  BY <1>4, <1>6 DEF WindowOf
<1>8. DirOf(x) = [manifest |-> rows, bundle |-> rows, raw |-> x.pages,
                  asOf |-> x.asOf, commit |-> x.commit]
  BY <1>3, <1>5 DEF DirOf, ResearchBundle
<1>9. DirOf(x).manifest = rows
  BY <1>8
<1>10. rows \in DatasetsOfExport
  BY <1>1, <1>9 DEF DatasetsOfExport
<1>11. rows \subseteq RawCandlesFromPages(x.pages)
  BY <1>5 DEF DailyRows
<1>. QED
  BY <1>4, <1>6, <1>7, <1>8, <1>9, <1>10, <1>11

-----------------------------------------------------------------------------
(* The steps of the export.                                                *)

\* Nothing is exported at the start.
LEMMA ExportInvInit == ExportInit => ExportInv
<1> SUFFICES ASSUME ExportInit PROVE ExportInv
  OBVIOUS
<1> USE DEF ExportInit
<1>1. \A d \in DatasetsOfExport : SnapshotOK(d)
  BY DEF SnapshotOK
<1>2. CatalogOK(catalog)
  BY DEF CatalogOK
<1>3. NotExporting \in ExporterState /\ NotExporting.at = "idle"
  BY DEF NotExporting, ExporterState
<1>4. exporter \in [Exporters -> ExporterState]
  BY <1>3
<1>5. \A e \in Exporters : ExporterOK(exporter[e])
  BY <1>3 DEF ExporterOK
<1>6. spec.ref \in DatasetsOfExport \cup {NoDataset} /\ BoundIsDeclared
  BY DEF NoSpec, NotBound, BoundIsDeclared
<1>. QED
  BY <1>1, <1>2, <1>4, <1>5, <1>6 DEF ExportInv

\* A step that moves one exporter and writes nothing.
LEMMA ExporterMoves ==
    ASSUME ExportInv, NEW e \in Exporters, NEW m \in ExporterState, ExporterOK(m),
           exporter' = [exporter EXCEPT ![e] = m],
           UNCHANGED <<snapshots, catalog, spec, bound>>
    PROVE  ExportInv'
<1>1. exporter' \in [Exporters -> ExporterState]
  BY DEF ExportInv
<1>2. \A x \in Exporters : ExporterOK(exporter'[x])
  BY DEF ExportInv
<1>3. \A x \in Exporters : ExporterOK(exporter[x])'
  BY <1>2 DEF ExporterOK, CatalogOK
<1>4. \A d \in DatasetsOfExport : SnapshotOK(d)'
  BY DEF ExportInv, SnapshotOK
<1>5. CatalogOK(catalog)'
  BY DEF ExportInv, CatalogOK
<1>6. snapshots' = [d \in DatasetsOfExport |-> snapshots'[d]]
  BY DEF ExportInv
<1>7. (spec.ref \in DatasetsOfExport \cup {NoDataset})' /\ BoundIsDeclared'
  BY DEF ExportInv, BoundIsDeclared
<1>. QED
  BY <1>1, <1>3, <1>4, <1>5, <1>6, <1>7 DEF ExportInv

\* An exporter that has returned, raised or died.
LEMMA IdleIsOK == NotExporting \in ExporterState /\ ExporterOK(NotExporting)
<1>1. NotExporting.at = "idle"
  BY DEF NotExporting
<1>2. NotExporting \in ExporterState
  BY DEF NotExporting, ExporterState
<1>. QED
  BY <1>1, <1>2 DEF ExporterOK

\* The state of an exporter at work, with another place.
LEMMA PlaceOf ==
    ASSUME ExportInv, NEW e \in Exporters, exporter[e].at # "idle",
           NEW q \in {"write", "rename", "read"},
           q = "read" => snapshots[exporter[e].dir.manifest] # NoDir
    PROVE  [exporter[e] EXCEPT !.at = q] \in ExporterState /\ ExporterOK([exporter[e] EXCEPT !.at = q])
<1>1. PICK m \in ExporterState : m = exporter[e]
  BY DEF ExportInv
<1>2. ExporterOK(m)
  BY <1>1 DEF ExportInv
<1>3. PICK n : n = [m EXCEPT !.at = q]
  OBVIOUS
<1>4. n \in ExporterState /\ n.at = q /\ n.dir = m.dir /\ n.alias = m.alias
  BY <1>3 DEF ExporterState
<1>5. ExporterOK(n)
  BY <1>1, <1>2, <1>4 DEF ExporterOK
<1>. QED
  BY <1>1, <1>3, <1>4, <1>5

\* export_from_raw_pages stages what DirOf says.
LEMMA BeginExportKeeps ==
    ASSUME ExportInv, NEW e \in Exporters, NEW a \in Aliases, NEW input \in ExportInputs,
           BeginExport(e, a, input)
    PROVE  ExportInv'
<1>1. input \in GoodInputs
  BY DEF BeginExport, GoodInputs
<1>2. PICK m : m = [NotExporting EXCEPT !.at = "write", !.alias = a, !.dir = DirOf(input)]
  OBVIOUS
<1>3. m \in ExporterState /\ m.at = "write" /\ m.alias = a /\ m.dir = DirOf(input)
  BY <1>1, <1>2 DEF NotExporting, ExporterState
<1>4. ExporterOK(m)
  BY <1>1, <1>3 DEF ExporterOK
<1>. QED
  BY <1>2, <1>3, <1>4, ExporterMoves DEF BeginExport

\* write_snapshot_if_absent, when there is a directory.
LEMMA CompareSnapshotKeeps ==
    ASSUME ExportInv, NEW e \in Exporters, CompareSnapshot(e)
    PROVE  ExportInv'
<1>1. PICK m : m = IF snapshots[exporter[e].dir.manifest] = exporter[e].dir
                   THEN [exporter[e] EXCEPT !.at = "read"] ELSE NotExporting
  OBVIOUS
<1>2. m \in ExporterState /\ ExporterOK(m)
  BY <1>1, PlaceOf, IdleIsOK DEF CompareSnapshot
<1>3. exporter' = [exporter EXCEPT ![e] = m] /\ UNCHANGED <<snapshots, catalog, spec, bound>>
  BY <1>1 DEF CompareSnapshot
<1>. QED
  BY <1>2, <1>3, ExporterMoves

\* write_snapshot_if_absent, when there is none.
LEMMA StageSnapshotKeeps ==
    ASSUME ExportInv, NEW e \in Exporters, StageSnapshot(e)
    PROVE  ExportInv'
<1>1. PICK m : m = [exporter[e] EXCEPT !.at = "rename"]
  OBVIOUS
<1>2. m \in ExporterState /\ ExporterOK(m)
  BY <1>1, PlaceOf DEF StageSnapshot
<1>3. exporter' = [exporter EXCEPT ![e] = m] /\ UNCHANGED <<snapshots, catalog, spec, bound>>
  BY <1>1 DEF StageSnapshot
<1>. QED
  BY <1>2, <1>3, ExporterMoves

\* merge_catalog_atomic's read.
LEMMA ReadCatalogKeeps ==
    ASSUME ExportInv, NEW e \in Exporters, ReadCatalog(e)
    PROVE  ExportInv'
<1>1. PICK m : m = IF snapshots[exporter[e].dir.manifest].raw = exporter[e].dir.raw
                   THEN [exporter[e] EXCEPT !.at = "merge", !.read = catalog]
                   ELSE NotExporting
  OBVIOUS
<1>2. PICK n \in ExporterState : n = exporter[e] /\ ExporterOK(n) /\ n.at = "read"
  BY DEF ExportInv, ReadCatalog
<1>3. PICK k : k = [n EXCEPT !.at = "merge", !.read = catalog]
  OBVIOUS
<1>4. CatalogOK(catalog)
  BY DEF ExportInv
<1>5. /\ k \in ExporterState /\ k.at = "merge" /\ k.read = catalog
      /\ k.alias = n.alias /\ k.dir = n.dir
  BY <1>3, <1>4 DEF ExporterState, CatalogOK
<1>6. ExporterOK(k)
  BY <1>2, <1>4, <1>5 DEF ExporterOK
<1>7. m \in ExporterState /\ ExporterOK(m)
  BY <1>1, <1>2, <1>3, <1>5, <1>6, IdleIsOK
<1>8. exporter' = [exporter EXCEPT ![e] = m] /\ UNCHANGED <<snapshots, catalog, spec, bound>>
  BY <1>1 DEF ReadCatalog
<1>. QED
  BY <1>7, <1>8, ExporterMoves

\* A killed exporter leaves the directory and the catalog alone.
LEMMA CrashExportKeeps ==
    ASSUME ExportInv, NEW e \in Exporters, CrashExport(e)
    PROVE  ExportInv'
BY IdleIsOK, ExporterMoves DEF CrashExport


\* A snapshot that an export could have written, put in place or damaged, takes
\* nothing away from the catalogs and exporters that rely on it.
LEMMA SnapshotChanges ==
    ASSUME ExportInv, NEW d \in DatasetsOfExport, NEW x \in GoodInputs, DirOf(x).manifest = d,
           NEW s, s = [DirOf(x) EXCEPT !.bundle = s.bundle],
           snapshots' = [snapshots EXCEPT ![d] = s]
    PROVE  /\ snapshots' = [k \in DatasetsOfExport |-> snapshots'[k]]
           /\ snapshots'[d] # NoDir
           /\ \A k \in DatasetsOfExport : SnapshotOK(k)'
           /\ \A c : CatalogOK(c) => CatalogOK(c)'
           /\ \A m : ExporterOK(m) => ExporterOK(m)'
<1>1. snapshots = [k \in DatasetsOfExport |-> snapshots[k]]
  BY DEF ExportInv
<1>2. /\ snapshots' = [k \in DatasetsOfExport |-> snapshots'[k]]
      /\ snapshots'[d] = s
      /\ \A k \in DatasetsOfExport : k # d => snapshots'[k] = snapshots[k]
  BY <1>1
<1>3. s.manifest = d /\ d # {}
  BY DirIsWindow
<1>4. s # NoDir
  BY <1>3 DEF NoDir
<1>5. \A k \in DatasetsOfExport : snapshots[k] # NoDir => snapshots'[k] # NoDir
  BY <1>2, <1>4
<1>6. ASSUME NEW k \in DatasetsOfExport PROVE SnapshotOK(k)'
  <2>1. CASE k = d
    <3>1. x \in GoodInputs /\ DirOf(x).manifest = k /\ snapshots'[k] = [DirOf(x) EXCEPT !.bundle = snapshots'[k].bundle]
      BY <2>1, <1>2
    <3>. QED
      BY <3>1 DEF SnapshotOK
  <2>2. CASE k # d
    <3>1. SnapshotOK(k)
      BY DEF ExportInv
    <3>. QED
      BY <1>2, <2>2, <3>1 DEF SnapshotOK
  <2>. QED
    BY <2>1, <2>2
<1>7. ASSUME NEW c, CatalogOK(c) PROVE CatalogOK(c)'
  BY <1>5, <1>7 DEF CatalogOK
<1>8. ASSUME NEW m, ExporterOK(m) PROVE ExporterOK(m)'
  <2>1. m.at \in {"read", "merge"} => m.dir.manifest \in DatasetsOfExport
    BY <1>8, DirIsWindow DEF ExporterOK
  <2>. QED
    BY <1>5, <1>7, <1>8, <2>1 DEF ExporterOK
<1>. QED
  BY <1>2, <1>4, <1>6, <1>7, <1>8

\* os.replace puts a snapshot where there is none, or raises.
LEMMA RenameSnapshotKeeps ==
    ASSUME ExportInv, NEW e \in Exporters, RenameSnapshot(e)
    PROVE  ExportInv'
<1>1. PICK dir : dir = exporter[e].dir
  OBVIOUS
<1>2. exporter[e].at = "rename" /\ ExporterOK(exporter[e])
  BY DEF RenameSnapshot, ExportInv
<1>3. PICK x \in GoodInputs : dir = DirOf(x)
  BY <1>1, <1>2 DEF ExporterOK
<1>4. CASE snapshots[dir.manifest] # NoDir
  <2>1. exporter' = [exporter EXCEPT ![e] = NotExporting] /\ UNCHANGED <<snapshots, catalog, spec, bound>>
    BY <1>1, <1>4 DEF RenameSnapshot
  <2>. QED
    BY <2>1, IdleIsOK, ExporterMoves
<1>5. CASE snapshots[dir.manifest] = NoDir
  <2>1. /\ snapshots' = [snapshots EXCEPT ![dir.manifest] = dir]
        /\ exporter' = [exporter EXCEPT ![e].at = "read"]
        /\ UNCHANGED <<catalog, spec, bound>>
    BY <1>1, <1>5 DEF RenameSnapshot
  <2>2. PICK d \in DatasetsOfExport : d = dir.manifest /\ DirOf(x).manifest = d
    BY <1>3, DirIsWindow
  <2>3. dir = [DirOf(x) EXCEPT !.bundle = dir.bundle]
    BY <1>3, DirIsWindow
  <2>4. /\ snapshots' = [k \in DatasetsOfExport |-> snapshots'[k]]
        /\ snapshots'[d] # NoDir
        /\ \A k \in DatasetsOfExport : SnapshotOK(k)'
        /\ \A c : CatalogOK(c) => CatalogOK(c)'
        /\ \A m : ExporterOK(m) => ExporterOK(m)'
    BY <2>1, <2>2, <2>3, SnapshotChanges
  <2>5. PICK m \in ExporterState : m = exporter[e]
    BY DEF ExportInv
  <2>6. PICK n : n = [m EXCEPT !.at = "read"]
    OBVIOUS
  <2>7. n \in ExporterState /\ n.at = "read" /\ n.dir = dir /\ n.alias = m.alias
    BY <1>1, <2>5, <2>6 DEF ExporterState
  <2>8. exporter' = [exporter EXCEPT ![e] = n]
    BY <2>1, <2>5, <2>6
  <2>9. exporter' \in [Exporters -> ExporterState]
    BY <2>7, <2>8 DEF ExportInv
  <2>10. ExporterOK(n)'
    BY <1>2, <1>3, <2>2, <2>4, <2>5, <2>7 DEF ExporterOK
  <2>11. \A y \in Exporters : ExporterOK(exporter[y])'
    <3>1. ASSUME NEW y \in Exporters PROVE ExporterOK(exporter[y])'
      <4>1. CASE y = e
        <5>1. exporter'[y] = n
          BY <2>8, <4>1 DEF ExportInv
        <5>. QED
          BY <2>10, <5>1 DEF ExporterOK
      <4>2. CASE y # e
        <5>1. exporter'[y] = exporter[y] /\ ExporterOK(exporter[y])
          BY <2>8, <4>2 DEF ExportInv
        <5>2. PICK k : k = exporter[y] /\ k = exporter'[y]
          BY <5>1
        <5>3. ExporterOK(k)'
          BY <2>4, <5>1, <5>2
        <5>. QED
          BY <5>2, <5>3 DEF ExporterOK
      <4>. QED
        BY <4>1, <4>2
    <3>. QED
      BY <3>1
  <2>12. CatalogOK(catalog)'
    <3>1. PICK c : c = catalog /\ c = catalog' /\ CatalogOK(c)
      BY <2>1 DEF ExportInv
    <3>2. CatalogOK(c)'
      BY <2>4, <3>1
    <3>. QED
      BY <3>1, <3>2 DEF CatalogOK
  <2>13. (spec.ref \in DatasetsOfExport \cup {NoDataset})' /\ BoundIsDeclared'
    BY <2>1 DEF ExportInv, BoundIsDeclared
  <2>. QED
    BY <2>4, <2>9, <2>11, <2>12, <2>13 DEF ExportInv
<1>. QED
  BY <1>4, <1>5

\* merge_catalog_atomic points the alias at the exporter's snapshot in the catalog it
\* has read, which may be an old one.
LEMMA MergeCatalogKeeps ==
    ASSUME ExportInv, NEW e \in Exporters, MergeCatalog(e)
    PROVE  ExportInv'
<1>1. PICK m \in ExporterState : m = exporter[e] /\ ExporterOK(m) /\ m.at = "merge"
  BY DEF ExportInv, MergeCatalog
<1>2. /\ catalog' = [m.read EXCEPT ![m.alias] = m.dir.manifest]
      /\ exporter' = [exporter EXCEPT ![e] = NotExporting]
      /\ UNCHANGED <<snapshots, spec, bound>>
  BY <1>1 DEF MergeCatalog
<1>3. /\ CatalogOK(m.read) /\ m.alias \in Aliases
      /\ m.dir.manifest \in DatasetsOfExport /\ snapshots[m.dir.manifest] # NoDir
  BY <1>1, DirIsWindow DEF ExporterOK
<1>4. CatalogOK(catalog')
  BY <1>2, <1>3 DEF CatalogOK
<1>5. CatalogOK(catalog)'
  BY <1>2, <1>4 DEF CatalogOK
<1>6. exporter' \in [Exporters -> ExporterState]
  BY <1>2, IdleIsOK DEF ExportInv
<1>7. \A y \in Exporters : ExporterOK(exporter'[y])
  BY <1>2, IdleIsOK DEF ExportInv
<1>8. \A y \in Exporters : ExporterOK(exporter[y])'
  BY <1>2, <1>7 DEF ExporterOK, CatalogOK
<1>9. \A d \in DatasetsOfExport : SnapshotOK(d)'
  BY <1>2 DEF ExportInv, SnapshotOK
<1>10. /\ (spec.ref \in DatasetsOfExport \cup {NoDataset})' /\ BoundIsDeclared'
       /\ snapshots' = [d \in DatasetsOfExport |-> snapshots'[d]]
  BY <1>2 DEF ExportInv, BoundIsDeclared
<1>. QED
  BY <1>5, <1>6, <1>8, <1>9, <1>10 DEF ExportInv

\* A step that leaves the files and the exporters alone.
LEMMA FilesUnchanged ==
    ASSUME ExportInv, UNCHANGED <<snapshots, catalog, exporter>>,
           (spec.ref \in DatasetsOfExport \cup {NoDataset})', BoundIsDeclared'
    PROVE  ExportInv'
<1>1. \A e \in Exporters : ExporterOK(exporter[e])'
  BY DEF ExportInv, ExporterOK, CatalogOK
<1>2. \A d \in DatasetsOfExport : SnapshotOK(d)'
  BY DEF ExportInv, SnapshotOK
<1>3. CatalogOK(catalog)'
  BY DEF ExportInv, CatalogOK
<1>. QED
  BY <1>1, <1>2, <1>3 DEF ExportInv

\* An experiment pins what the alias means.
LEMMA PinDatasetKeeps ==
    ASSUME ExportInv, NEW a \in Aliases, NEW range \in Ranges, PinDataset(a, range)
    PROVE  ExportInv'
<1>1. catalog[a] \in DatasetsOfExport \cup {NoDataset}
  BY DEF ExportInv, CatalogOK
<1>2. (spec.ref \in DatasetsOfExport \cup {NoDataset})'
  BY <1>1 DEF PinDataset
<1>3. BoundIsDeclared'
  BY DEF PinDataset, ExportInv, BoundIsDeclared
<1>. QED
  BY <1>2, <1>3, FilesUnchanged DEF PinDataset

\* bind_dataset_to_bundle: the hash says that the bundle is the declared one, so the
\* rows are the declared rows of the range.
LEMMA BindDatasetKeeps ==
    ASSUME ExportInv, BindDataset
    PROVE  ExportInv'
<1>1. PICK d \in DatasetsOfExport : d = spec.ref
  BY DEF ExportInv, BindDataset
<1>2. snapshots[d].manifest = d /\ snapshots[d].bundle = d /\ spec.range \subseteq WindowOf(d)
  BY <1>1 DEF BindDataset, BindAccepts, HashResearchBundle
<1>3. bound' = [ref |-> d, range |-> spec.range, rows |-> FilterBundle(d, spec.range)]
  BY <1>1, <1>2 DEF BindDataset
<1>4. WindowOf(FilterBundle(d, spec.range)) = spec.range
  BY <1>2 DEF WindowOf, FilterBundle
<1>5. BoundIsDeclared'
  BY <1>3, <1>4 DEF BoundIsDeclared
<1>6. UNCHANGED <<snapshots, catalog, exporter, spec>>
  BY DEF BindDataset
<1>7. (spec.ref \in DatasetsOfExport \cup {NoDataset})'
  BY <1>6 DEF ExportInv
<1>. QED
  BY <1>5, <1>6, <1>7, FilesUnchanged

\* A damaged bundle leaves manifest, raw pages and provenance.
LEMMA DamageBundleKeeps ==
    ASSUME ExportInv, NEW d \in DatasetsOfExport, DamageBundle(d)
    PROVE  ExportInv'
<1>1. PICK b : snapshots' = [snapshots EXCEPT ![d].bundle = b]
  BY DEF DamageBundle
<1>2. snapshots[d] # NoDir /\ UNCHANGED <<catalog, exporter, spec, bound>>
  BY DEF DamageBundle
<1>3. PICK x \in GoodInputs : /\ DirOf(x).manifest = d
                              /\ snapshots[d] = [DirOf(x) EXCEPT !.bundle = snapshots[d].bundle]
  BY <1>2 DEF ExportInv, SnapshotOK
<1>4. PICK s : s = [snapshots[d] EXCEPT !.bundle = b]
  OBVIOUS
<1>5. s = [DirOf(x) EXCEPT !.bundle = s.bundle]
  BY <1>3, <1>4, DirIsWindow
<1>6. snapshots' = [snapshots EXCEPT ![d] = s]
  BY <1>1, <1>4
<1>7. /\ snapshots' = [k \in DatasetsOfExport |-> snapshots'[k]]
      /\ \A k \in DatasetsOfExport : SnapshotOK(k)'
      /\ \A c : CatalogOK(c) => CatalogOK(c)'
      /\ \A m : ExporterOK(m) => ExporterOK(m)'
  BY <1>3, <1>5, <1>6, SnapshotChanges
<1>8. CatalogOK(catalog)'
  <2>1. PICK c : c = catalog /\ c = catalog' /\ CatalogOK(c)
    BY <1>2 DEF ExportInv
  <2>2. CatalogOK(c)'
    BY <1>7, <2>1
  <2>. QED
    BY <2>1, <2>2 DEF CatalogOK
<1>9. ASSUME NEW y \in Exporters PROVE ExporterOK(exporter[y])'
  <2>1. PICK k : k = exporter[y] /\ k = exporter'[y] /\ ExporterOK(k)
    BY <1>2 DEF ExportInv
  <2>2. ExporterOK(k)'
    BY <1>7, <2>1
  <2>. QED
    BY <2>1, <2>2 DEF ExporterOK
<1>10. (spec.ref \in DatasetsOfExport \cup {NoDataset})' /\ BoundIsDeclared'
  BY <1>2 DEF ExportInv, BoundIsDeclared
<1>. QED
  BY <1>2, <1>7, <1>8, <1>9, <1>10 DEF ExportInv

\* The state of the export in every step: what exporters, snapshots, catalog,
\* experiment and binding may rely on.
THEOREM ExportInvariant == ExportSpec => []ExportInv
<1>1. ExportInv /\ [ExportNext]_exportVars => ExportInv'
  <2> SUFFICES ASSUME ExportInv, [ExportNext]_exportVars PROVE ExportInv'
    OBVIOUS
  <2>1. CASE UNCHANGED exportVars
    <3>1. UNCHANGED <<snapshots, catalog, exporter, spec, bound>>
      BY <2>1 DEF exportVars
    <3>2. (spec.ref \in DatasetsOfExport \cup {NoDataset})' /\ BoundIsDeclared'
      BY <3>1 DEF ExportInv, BoundIsDeclared
    <3>. QED
      BY <3>1, <3>2, FilesUnchanged
  <2>2. CASE ExportNext
    BY <2>2, BeginExportKeeps, CompareSnapshotKeeps, StageSnapshotKeeps, RenameSnapshotKeeps,
       ReadCatalogKeeps, MergeCatalogKeeps, CrashExportKeeps, PinDatasetKeeps,
       BindDatasetKeeps, DamageBundleKeeps DEF ExportNext
  <2>. QED
    BY <2>1, <2>2
<1>. QED
  BY <1>1, ExportInvInit, PTL DEF ExportSpec

\* Every alias has its snapshot, every snapshot is a gapless window of days closed at
\* its pin with the rows of its pages, and an experiment computes on the rows it
\* declared, for every number of exporters, exports, pages and damages.
THEOREM ExportSound == ExportSpec => []ExportsAreSound
<1>1. ASSUME ExportInv, NEW d \in DatasetsOfExport, snapshots[d] # NoDir
      PROVE  \E x \in GoodInputs : /\ DirOf(x).manifest = d /\ snapshots[d].manifest = d
                                   /\ snapshots[d].asOf = x.asOf /\ snapshots[d].raw = x.pages
  <2>1. PICK x \in GoodInputs : /\ DirOf(x).manifest = d
                                /\ snapshots[d] = [DirOf(x) EXCEPT !.bundle = snapshots[d].bundle]
    BY <1>1 DEF ExportInv, SnapshotOK
  <2>. QED
    BY <2>1, DirIsWindow
<1>2. ExportInv => CatalogIsBacked
  BY <1>1 DEF CatalogIsBacked, ExportInv, CatalogOK
<1>3. ExportInv => SnapshotIsClosedWindow
  <2> SUFFICES ASSUME ExportInv, NEW d \in DatasetsOfExport, snapshots[d] # NoDir
               PROVE  LET days == WindowOf(d) IN
                      /\ days = Min(days)..Max(days)
                      /\ \A day \in days : ClosedAt(day, snapshots[d].asOf)
                      /\ d \subseteq RawCandlesFromPages(snapshots[d].raw)
    BY DEF SnapshotIsClosedWindow
  <2>1. PICK x \in GoodInputs : /\ DirOf(x).manifest = d
                                /\ snapshots[d].asOf = x.asOf /\ snapshots[d].raw = x.pages
    BY <1>1
  <2>. QED
    BY <2>1, DirIsWindow
<1>4. ExportInv => BoundIsDeclared
  BY DEF ExportInv
<1>. QED
  BY <1>2, <1>3, <1>4, ExportInvariant, PTL DEF ExportsAreSound

\* A published snapshot keeps its manifest, its raw pages and its provenance in every
\* step, also when two exporters rename at the same time.
THEOREM SnapshotsFinal == ExportSpec => [][SnapshotsAreFinal]_exportVars
<1>1. ASSUME ExportInv, [ExportNext]_exportVars PROVE [SnapshotsAreFinal]_exportVars
  <2> SUFFICES ASSUME NEW d \in DatasetsOfExport, snapshots[d] # NoDir
               PROVE  snapshots'[d] = [snapshots[d] EXCEPT !.bundle = snapshots'[d].bundle]
    BY DEF SnapshotsAreFinal
  <2>1. PICK x \in GoodInputs : snapshots[d] = [DirOf(x) EXCEPT !.bundle = snapshots[d].bundle]
    BY <1>1 DEF ExportInv, SnapshotOK
  <2>2. PICK s : s = snapshots[d] /\ s = [manifest |-> s.manifest, bundle |-> s.bundle, raw |-> s.raw,
                                          asOf |-> s.asOf, commit |-> s.commit]
    BY <2>1, DirIsWindow
  <2>3. CASE snapshots'[d] = snapshots[d]
    BY <2>2, <2>3
  <2>4. ASSUME NEW e \in Exporters, RenameSnapshot(e) PROVE snapshots'[d] = snapshots[d]
    BY <1>1, <2>4 DEF RenameSnapshot, ExportInv
  <2>5. ASSUME NEW k \in DatasetsOfExport, DamageBundle(k)
        PROVE  snapshots'[d] = snapshots[d] \/ \E b : snapshots'[d] = [s EXCEPT !.bundle = b]
    <3>1. PICK b : snapshots' = [snapshots EXCEPT ![k].bundle = b]
      BY <2>5 DEF DamageBundle
    <3>. QED
      BY <1>1, <2>2, <3>1 DEF ExportInv
  <2>6. snapshots'[d] = snapshots[d] \/ \E b : snapshots'[d] = [s EXCEPT !.bundle = b]
    BY <1>1, <2>4, <2>5
       DEF ExportNext, BeginExport, CompareSnapshot, StageSnapshot, ReadCatalog, MergeCatalog,
           CrashExport, PinDataset, BindDataset, exportVars
  <2>. QED
    BY <2>2, <2>3, <2>6
<1>. QED
  BY <1>1, ExportInvariant, PTL DEF ExportSpec


-----------------------------------------------------------------------------
(* Sorting.                                                                *)

\* The days of a payload.
LEMMA PayloadDays ==
    ASSUME NEW s \in Seq([day : 1..LastDay, v : Nat])
    PROVE  \A i \in DOMAIN s : s[i].day \in 1..LastDay /\ s[i].day \in Nat
<1>1. LastDay \in Nat
  BY ImportConstants
<1>2. ASSUME NEW i \in DOMAIN s PROVE s[i].day \in 1..LastDay
  <2>1. PICK R : R = [day : 1..LastDay, v : Nat] /\ s \in Seq(R)
    OBVIOUS
  <2>2. s[i] \in R
    <3>1. PICK t \in Seq(R) : t = s
      BY <2>1
    <3>2. \A k \in DOMAIN t : t[k] \in R
      OBVIOUS
    <3>. QED
      BY <1>2, <3>1, <3>2
  <2>3. s[i] \in [day : 1..LastDay, v : Nat]
    BY <2>1, <2>2
  <2>. QED
    BY <2>3
<1>. QED
  BY <1>1, <1>2

\* The ranks of sort_candle_rows number the rows: a row before another in the order of
\* days and, within a day, of the payload has the smaller rank, and every rank is some
\* row's.
LEMMA RanksNumberRows ==
    ASSUME NEW s \in Seq([day : 1..LastDay, v : Nat])
    PROVE  /\ \A i, k \in DOMAIN s :
                 s[i].day < s[k].day \/ (s[i].day = s[k].day /\ i < k)
                    => Cardinality(NotAfter(s, i)) < Cardinality(NotAfter(s, k))
           /\ \A i \in DOMAIN s : Cardinality(NotAfter(s, i)) \in DOMAIN s
           /\ \A r \in DOMAIN s : \E i \in DOMAIN s : Cardinality(NotAfter(s, i)) = r
<1>1. PICK n \in Nat : n = Len(s) /\ DOMAIN s = 1..n
  OBVIOUS
<1>2. IsFiniteSet(1..n) /\ Cardinality(1..n) = n
  BY FS_Interval
<1>3. PICK D : D = 1..n /\ D = DOMAIN s
  BY <1>1
<1>5. \A i \in D : s[i].day \in Nat
  BY <1>3, PayloadDays
<1>6. PICK d \in [D -> Nat] : \A i \in D : d[i] = s[i].day
  <2>1. [i \in D |-> s[i].day] \in [D -> Nat]
    BY <1>5
  <2>. QED
    BY <2>1
<1>7. PICK A : A = [i \in D |-> NotAfter(s, i)]
  OBVIOUS
<1>8. \A i \in D : A[i] = {k \in D : d[k] < d[i] \/ (d[k] = d[i] /\ k <= i)}
  BY <1>3, <1>6, <1>7 DEF NotAfter
<1>9. \A i \in D : A[i] \in SUBSET D /\ i \in A[i]
  BY <1>3, <1>8
<1>10. \A i \in D : IsFiniteSet(A[i]) /\ Cardinality(A[i]) \in Nat /\ Cardinality(A[i]) <= n
  BY <1>2, <1>3, <1>9, FS_Subset, FS_CardinalityType
<1>11. PICK c \in [D -> Nat] : \A i \in D : c[i] = Cardinality(A[i])
  <2>1. [i \in D |-> Cardinality(A[i])] \in [D -> Nat]
    BY <1>10
  <2>. QED
    BY <2>1
<1>12. ASSUME NEW i \in D, NEW k \in D, d[i] < d[k] \/ (d[i] = d[k] /\ i < k)
       PROVE  c[i] < c[k]
  <2>0. i \in Nat /\ k \in Nat /\ d[i] \in Nat /\ d[k] \in Nat
    BY <1>3
  <2>1. ASSUME NEW z \in A[i] PROVE z \in A[k]
    <3>1. z \in D /\ z \in Nat /\ d[z] \in Nat
      BY <1>3, <1>9
    <3>2. d[z] < d[i] \/ (d[z] = d[i] /\ z <= i)
      BY <1>8, Zenon
    <3>3. d[z] < d[k] \/ (d[z] = d[k] /\ z <= k)
      BY <1>12, <2>0, <3>1, <3>2
    <3>. QED
      BY <1>8, <3>1, <3>3, Zenon
  <2>2. k \in A[k] /\ k \notin A[i]
    <3>1. ~(d[k] < d[i] \/ (d[k] = d[i] /\ k <= i))
      BY <1>12, <2>0
    <3>. QED
      BY <1>8, <1>9, <3>1, Zenon
  <2>3. Cardinality(A[i]) <= Cardinality(A[k]) /\ Cardinality(A[i]) # Cardinality(A[k])
    BY <1>10, <2>1, <2>2, FS_Subset
  <2>. QED
    BY <2>3, <1>11
<1>13. \A i \in D : c[i] \in D
  <2>1. ASSUME NEW i \in D PROVE c[i] # 0
    BY <1>9, <1>10, <1>11, FS_EmptySet
  <2>. QED
    BY <2>1, <1>3, <1>10, <1>11
<1>14. \A i, k \in D : i # k => c[i] # c[k]
  <2>1. ASSUME NEW i \in D, NEW k \in D, i # k PROVE c[i] # c[k]
    <3>1. i \in Nat /\ k \in Nat /\ d[i] \in Nat /\ d[k] \in Nat
      BY <1>3
    <3>2. \/ d[i] < d[k] \/ (d[i] = d[k] /\ i < k)
          \/ d[k] < d[i] \/ (d[k] = d[i] /\ k < i)
      BY <2>1, <3>1
    <3>3. c[i] \in Nat /\ c[k] \in Nat /\ (c[i] < c[k] \/ c[k] < c[i])
      BY <1>12, <3>2
    <3>. QED
      BY <3>3
  <2>. QED
    BY <2>1
<1>15. c \in Injection(D, D)
  BY <1>13, <1>14 DEF Injection, IsInjective
<1>16. c \in Surjection(D, D)
  BY <1>2, <1>3, <1>15, FS_Injection
<1>17. \A r \in D : \E i \in D : c[i] = r
  BY <1>16 DEF Surjection
<1>18. \A i \in D : c[i] = Cardinality(NotAfter(s, i))
  BY <1>7, <1>11
<1>19. ASSUME NEW i \in DOMAIN s, NEW k \in DOMAIN s,
              s[i].day < s[k].day \/ (s[i].day = s[k].day /\ i < k)
       PROVE  Cardinality(NotAfter(s, i)) < Cardinality(NotAfter(s, k))
  <2>1. i \in D /\ k \in D
    BY <1>3
  <2>2. d[i] < d[k] \/ (d[i] = d[k] /\ i < k)
    BY <1>6, <1>19, <2>1
  <2>3. c[i] < c[k]
    BY <1>12, <2>1, <2>2
  <2>. QED
    BY <1>18, <2>1, <2>3
<1>20. \A i \in DOMAIN s : Cardinality(NotAfter(s, i)) \in DOMAIN s
  BY <1>3, <1>13, <1>18
<1>21. \A r \in DOMAIN s : \E i \in DOMAIN s : Cardinality(NotAfter(s, i)) = r
  BY <1>3, <1>17, <1>18
<1>. QED
  BY <1>19, <1>20, <1>21

\* sort_candle_rows gives every row of the payload a place of its own, in the order of
\* the days, and rows of one day in the order of the payload.
LEMMA SortIsStable ==
    ASSUME NEW s \in Seq([day : 1..LastDay, v : Nat])
    PROVE  \E f \in [DOMAIN s -> DOMAIN s] :
              /\ \A r, q \in DOMAIN s : r # q => f[r] # f[q]
              /\ SortCandleRows(s) = [r \in DOMAIN s |-> s[f[r]]]
              /\ \A r, q \in DOMAIN s : r < q =>
                    \/ s[f[r]].day < s[f[q]].day
                    \/ s[f[r]].day = s[f[q]].day /\ f[r] < f[q]
<1> DEFINE Row(r) == CHOOSE i \in DOMAIN s : Cardinality(NotAfter(s, i)) = r
           f == [r \in DOMAIN s |-> Row(r)]
<1>1. \A r \in DOMAIN s : Row(r) \in DOMAIN s /\ Cardinality(NotAfter(s, Row(r))) = r
  BY RanksNumberRows
<1>2. SortCandleRows(s) = [r \in DOMAIN s |-> s[Row(r)]]
  BY DEF SortCandleRows
<1> HIDE DEF Row
<1>3. f \in [DOMAIN s -> DOMAIN s] /\ \A r \in DOMAIN s : f[r] = Row(r)
  BY <1>1
<1>4. SortCandleRows(s) = [r \in DOMAIN s |-> s[f[r]]]
  BY <1>2, <1>3
<1> HIDE DEF f
<1>5. \A r \in DOMAIN s : Cardinality(NotAfter(s, f[r])) = r
  BY <1>1, <1>3
<1>6. \A r, q \in DOMAIN s : r # q => f[r] # f[q]
  BY <1>5
<1>7. PICK n \in Nat : DOMAIN s = 1..n
  OBVIOUS
<1>9. \A i \in DOMAIN s : s[i].day \in Nat
  BY PayloadDays
<1>10. ASSUME NEW r \in DOMAIN s, NEW q \in DOMAIN s, r < q
       PROVE  \/ s[f[r]].day < s[f[q]].day
              \/ s[f[r]].day = s[f[q]].day /\ f[r] < f[q]
  <2>1. PICK i \in DOMAIN s, k \in DOMAIN s : i = f[r] /\ k = f[q]
    BY <1>3
  <2>2. Cardinality(NotAfter(s, i)) = r /\ Cardinality(NotAfter(s, k)) = q /\ i # k
    BY <1>5, <1>6, <1>7, <1>10, <2>1
  <2>3. ~(s[k].day < s[i].day \/ (s[k].day = s[i].day /\ k < i))
    <3>1. SUFFICES ASSUME s[k].day < s[i].day \/ (s[k].day = s[i].day /\ k < i) PROVE FALSE
      OBVIOUS
    <3>2. Cardinality(NotAfter(s, k)) < Cardinality(NotAfter(s, i))
      BY <3>1, RanksNumberRows
    <3>. QED
      BY <1>7, <1>10, <2>2, <3>2
  <2>4. PICK x \in Nat, y \in Nat : x = s[i].day /\ y = s[k].day
    BY <1>9
  <2>5. x < y \/ (x = y /\ i < k)
    BY <1>7, <2>2, <2>3, <2>4
  <2>. QED
    BY <2>1, <2>4, <2>5
<1>. QED
  BY <1>3, <1>4, <1>6, <1>10

\* The days of a dataset are days of its payload.
LEMMA DatasetDays ==
    ASSUME NEW d \in DatasetIds
    PROVE  DaysOf(d) \subseteq 1..LastDay
<1>1. PICK y \in Payloads : d = SortCandleRows(y)
  BY DEF DatasetIds, DatasetOf
<1>2. y \in Seq([day : 1..LastDay, v : Nat])
  BY ImportConstants
<1>3. PICK f \in [DOMAIN y -> DOMAIN y] : d = [r \in DOMAIN y |-> y[f[r]]]
  BY <1>1, <1>2, SortIsStable
<1>4. \A i \in DOMAIN y : y[i].day \in 1..LastDay
  BY <1>2, PayloadDays
<1>5. \A r \in DOMAIN d : r \in DOMAIN y /\ d[r] = y[f[r]]
  BY <1>3
<1>. QED
  BY <1>3, <1>4, <1>5 DEF DaysOf

\* A set of days has a last one.
LEMMA LastOfDays ==
    ASSUME NEW S \in SUBSET (1..LastDay), S # {}
    PROVE  Max(S) \in S /\ \A x \in S : x <= Max(S)
<1> DEFINE B == {n \in Nat : \E x \in S : n = LastDay - x}
<1>1. LastDay \in Nat
  BY ImportConstants
<1>2. B # {} /\ B \subseteq Nat
  <2>1. PICK x \in S : x \in 1..LastDay
    OBVIOUS
  <2>2. LastDay - x \in Nat
    BY <1>1, <2>1
  <2>3. LastDay - x \in B
    BY <2>2
  <2>. QED
    BY <2>3
<1>3. PICK n \in B : \A m \in B : ~ (<<m, n>> \in OpToRel(<, Nat))
  BY <1>2, WFMin, NatLessThanWellFounded, Zenon
<1>4. \A m \in B : ~ (m < n)
  BY <1>2, <1>3 DEF OpToRel
<1>5. PICK z \in S : n = LastDay - z
  OBVIOUS
<1>6. \A x \in S : z >= x
  <2>1. ASSUME NEW x \in S PROVE z >= x
    <3>1. x \in 1..LastDay /\ z \in 1..LastDay /\ LastDay - x \in B
      BY <1>1
    <3>2. ~(LastDay - x < n)
      BY <1>4, <3>1
    <3>. QED
      BY <1>1, <1>5, <3>1, <3>2
  <2>. QED
    BY <2>1
<1>7. Max(S) \in S /\ \A x \in S : Max(S) >= x
  BY <1>6 DEF Max
<1>. QED
  BY <1>1, <1>7


-----------------------------------------------------------------------------
(* The quarantine.                                                         *)

\* evaluate_dataset_quality answers with one of its statuses.
LEMMA QualityIsStatus ==
    ASSUME NEW candles, NEW c \in BOOLEAN, NEW t
    PROVE  EvaluateDatasetQuality(candles, c, t) \in Statuses
BY DEF EvaluateDatasetQuality, EvaluateCandles, Statuses

\* A dataset that assess_quarantine lets through has its candles, has all days from its
\* first to the day of evaluation, and is not known for conflicts.
LEMMA ValidIsWhole ==
    ASSUME NEW d \in DatasetIds, NEW t \in 1..LastDay, NEW c \in BOOLEAN,
           NEW candles \in {<<>>, AppendedCandles(d)},
           AssessQuarantine(EvaluateDatasetQuality(candles, c, t))
    PROVE  /\ ~c /\ candles = AppendedCandles(d) /\ DOMAIN candles # {}
           /\ Min(DaysOf(d))..t \subseteq DOMAIN candles
<1>1. EvaluateDatasetQuality(candles, c, t) = "VALID"
  BY DEF AssessQuarantine, AllowQualityWarnings
<1>2. ~c /\ EvaluateCandles(candles, t) = "VALID"
  BY <1>1 DEF EvaluateDatasetQuality
<1>3. PICK D : D = DOMAIN candles
  OBVIOUS
<1>4. D # {} /\ ImportGaps(D, t) = {} /\ ~IsCandleDataStale(D, t)
  BY <1>2, <1>3 DEF EvaluateCandles
<1>5. candles = AppendedCandles(d)
  BY <1>3, <1>4
<1>6. D = DaysOf(d)
  BY <1>3, <1>5 DEF AppendedCandles
<1>7. LastDay \in Nat
  BY ImportConstants
<1>8. D \in SUBSET (1..LastDay)
  BY <1>6, DatasetDays
<1>9. PICK E \in SUBSET (1..LastDay) : E = D \cup {t} /\ E # {}
  BY <1>8
<1>10. Max(E) \in E /\ \A x \in E : x <= Max(E)
  BY <1>9, LastOfDays
<1>11. PICK z \in Nat : z = Max(E) /\ t <= z
  <2>1. t \in E /\ Max(E) \in 1..LastDay
    BY <1>9, <1>10
  <2>2. PICK z \in 1..LastDay : z = Max(E)
    BY <2>1
  <2>3. t <= z
    BY <1>10, <2>1, <2>2
  <2>4. z \in Nat
    BY <1>7
  <2>. QED
    BY <2>2, <2>3, <2>4
<1>12. \A g \in Min(D)..z : g \in D
  <2>1. ImportGaps(D, t) = {g \in Min(D)..z : g \notin D}
    BY <1>9, <1>11 DEF ImportGaps
  <2>. QED
    BY <1>4, <2>1
<1>13. \A g \in Min(D)..t : g \in Min(D)..z
  BY <1>7, <1>11
<1>. QED
  BY <1>2, <1>3, <1>4, <1>5, <1>6, <1>12, <1>13


-----------------------------------------------------------------------------
(* The steps of the import.                                                *)

\* Nothing is imported at the start.
LEMMA ImportInvInit == ImportInit => ImportInv
<1> SUFFICES ASSUME ImportInit PROVE ImportInv
  OBVIOUS
<1> USE DEF ImportInit
<1>1. Unpublished \in DatasetRow /\ Unpublished.published = FALSE /\ Unpublished.candles = <<>>
  BY DEF Unpublished, DatasetRow, Statuses
<1>2. Idle \in ImportOp /\ Idle.at = "idle"
  BY DEF Idle, ImportOp, NoJob, Statuses
<1>3. NoCheckpoint \in Checkpoint /\ NoCheckpoint.phase = "none"
  BY DEF NoCheckpoint, Checkpoint
<1>4. datasets \in [DatasetIds -> DatasetRow] /\ \A d \in DatasetIds : DatasetOK(d)
  BY <1>1 DEF DatasetOK
<1>5. op \in [Procs -> ImportOp] /\ \A p \in Procs : ImportOpOK(op[p])
  BY <1>2 DEF ImportOpOK, ImportPlaces
<1>6. cp \in [Jobs -> Checkpoint] /\ \A j \in Jobs : CheckpointOK(j)
  BY <1>3 DEF CheckpointOK
<1>7. OneAppender
  BY <1>2 DEF OneAppender
<1>8. conflicts \in [Procs -> SUBSET DatasetIds]
  OBVIOUS
<1>. QED
  BY <1>4, <1>5, <1>6, <1>7, <1>8 DEF ImportInv

\* What the operations in flight rely on: files and rows that stay, and candles that
\* only the appender adds.
LEMMA ImportStep ==
    ASSUME ImportInv, NEW p \in Procs, NEW o \in ImportOp, op' = [op EXCEPT ![p] = o],
           ImportOpOK(o)',
           o.at = "append" =>
              \A q \in Procs : q # p /\ op[q].at = "append" => Its(op[q]) # Its(o),
           file' \in [Payloads -> {"absent", "torn", "whole"}],
           raws \subseteq raws', raws' \subseteq Payloads,
           raced \subseteq raced', raced' \subseteq Payloads,
           \A y \in Payloads : file[y] = "whole" \/ y \in raced => file'[y] = "whole" \/ y \in raced',
           \A y \in raws' \ raws : file'[y] = "whole" \/ y \in raced',
           datasets' \in [DatasetIds -> DatasetRow],
           \A d \in DatasetIds : DatasetOK(d)',
           \A d \in DatasetIds : datasets[d].published => datasets'[d].published,
           \A q \in Procs : q # p /\ op[q].at = "append" =>
              datasets'[Its(op[q])].candles = datasets[Its(op[q])].candles,
           cp' \in [Jobs -> Checkpoint],
           \A j \in Jobs : CheckpointOK(j)',
           conflicts' \in [Procs -> SUBSET DatasetIds],
           \A a \in accepted' : AcceptedOK(a)'
    PROVE  ImportInv'
<1>1. op' \in [Procs -> ImportOp]
  BY DEF ImportInv
<1>2. op'[p] = o /\ \A q \in Procs : q # p => op'[q] = op[q]
  BY DEF ImportInv
<1>3. ASSUME NEW q \in Procs PROVE ImportOpOK(op[q])'
  <2>1. CASE q = p
    BY <1>2, <2>1 DEF ImportOpOK
  <2>2. CASE q # p
    <3>1. PICK k : k = op[q] /\ k = op'[q] /\ ImportOpOK(k)
      BY <1>2, <2>2 DEF ImportInv
    <3>2. k.at = "append" => datasets'[Its(k)].candles = datasets[Its(k)].candles
      BY <2>2, <3>1
    <3>3. ImportOpOK(k)'
      BY <3>1, <3>2 DEF ImportOpOK, ImportPlaces
    <3>. QED
      BY <3>1, <3>3 DEF ImportOpOK
  <2>. QED
    BY <2>1, <2>2
<1>4. OneAppender'
  <2>1. SUFFICES ASSUME NEW q \in Procs, NEW r \in Procs, op'[q].at = "append",
                        op'[r].at = "append", Its(op'[q]) = Its(op'[r])
                 PROVE  q = r
    BY DEF OneAppender, Its
  <2>. QED
    BY <1>2, <2>1 DEF ImportInv, OneAppender
<1>5. \A y \in raws' : file'[y] = "whole" \/ y \in raced'
  BY DEF ImportInv
<1>. QED
  BY <1>1, <1>3, <1>4, <1>5 DEF ImportInv

\* Rows of the catalog that do not change.
LEMMA SameDatasets ==
    ASSUME ImportInv, UNCHANGED datasets, raws \subseteq raws'
    PROVE  /\ datasets' \in [DatasetIds -> DatasetRow]
           /\ \A d \in DatasetIds : DatasetOK(d)'
           /\ \A d \in DatasetIds : datasets[d].published => datasets'[d].published
BY DEF ImportInv, DatasetOK

\* Checkpoints that do not change.
LEMMA SameCheckpoints ==
    ASSUME ImportInv, UNCHANGED cp, raws \subseteq raws',
           \A d \in DatasetIds : datasets[d].published => datasets'[d].published
    PROVE  /\ cp' \in [Jobs -> Checkpoint]
           /\ \A j \in Jobs : CheckpointOK(j)'
BY DEF ImportInv, CheckpointOK

\* Acceptances that do not change.
LEMMA SameAcceptances ==
    ASSUME ImportInv, UNCHANGED accepted,
           \A a \in accepted : datasets'[a.ds].candles = datasets[a.ds].candles,
           \A a \in accepted : a.ds \notin conflicts'[a.proc]
    PROVE  \A a \in accepted' : AcceptedOK(a)'
BY DEF ImportInv, AcceptedOK

\* A step of one operation that writes nothing.
LEMMA OpMoves ==
    ASSUME ImportInv, NEW p \in Procs, NEW o \in ImportOp, op' = [op EXCEPT ![p] = o],
           ImportOpOK(o), o.at # "append",
           UNCHANGED <<file, raced, raws, datasets, cp, conflicts, accepted>>
    PROVE  ImportInv'
<1>1. ImportOpOK(o)'
  BY DEF ImportOpOK
<1>2. \A a \in accepted : a.ds \notin conflicts'[a.proc]
  BY DEF ImportInv, AcceptedOK
<1>3. \A a \in accepted' : AcceptedOK(a)'
  BY <1>2, SameAcceptances
<1>4. /\ datasets' \in [DatasetIds -> DatasetRow]
      /\ \A d \in DatasetIds : DatasetOK(d)'
      /\ \A d \in DatasetIds : datasets[d].published => datasets'[d].published
  BY SameDatasets
<1>5. cp' \in [Jobs -> Checkpoint] /\ \A j \in Jobs : CheckpointOK(j)'
  BY <1>4, SameCheckpoints
<1>6. /\ file' \in [Payloads -> {"absent", "torn", "whole"}]
      /\ raws' = raws /\ raws' \subseteq Payloads
      /\ raced' = raced /\ raced' \subseteq Payloads
      /\ conflicts' \in [Procs -> SUBSET DatasetIds]
  BY DEF ImportInv
<1>. QED
  BY <1>1, <1>3, <1>4, <1>5, <1>6, ImportStep

\* A call that has returned or raised.
LEMMA IdleImport == Idle \in ImportOp /\ ImportOpOK(Idle) /\ Idle.at = "idle"
<1>1. Idle \in ImportOp /\ Idle.at = "idle"
  BY DEF Idle, ImportOp, NoJob, Statuses
<1>. QED
  BY <1>1 DEF ImportOpOK, ImportPlaces


\* The same call at its next place.
LEMMA GoesTo ==
    ASSUME ImportInv, NEW p \in Procs, NEW q \in ImportPlaces, Goes(p, q)
    PROVE  \E o \in ImportOp : /\ op' = [op EXCEPT ![p] = o] /\ o.at = q
                               /\ o.payload = op[p].payload /\ o.job = op[p].job
<1>1. PICK k \in ImportOp : k = op[p]
  BY DEF ImportInv
<1>2. PICK o : o = [k EXCEPT !.at = q]
  OBVIOUS
<1>3. o \in ImportOp /\ o.at = q /\ o.payload = k.payload /\ o.job = k.job
  BY <1>2 DEF ImportOp
<1>4. op' = [op EXCEPT ![p] = o]
  BY <1>1, <1>2 DEF Goes
<1>. QED
  BY <1>1, <1>3, <1>4

\* A call of the import.
LEMMA ImportCall ==
    ASSUME NEW q \in ImportPlaces, NEW y \in Payloads, NEW j \in Jobs \cup {NoJob}
    PROVE  /\ Import(q, y, j) \in ImportOp /\ Import(q, y, j).at = q
           /\ Import(q, y, j).payload = y /\ Import(q, y, j).job = j
BY DEF Import, Idle, ImportOp, Statuses

\* import_from_raw_payload begins.
LEMMA ImportFromRawPayloadKeeps ==
    ASSUME ImportInv, NEW p \in Procs, NEW j \in Jobs, NEW y \in Payloads,
           ImportFromRawPayload(p, j, y)
    PROVE  ImportInv'
<1>1. PICK q \in ImportPlaces : q = "store"
  BY DEF ImportPlaces
<1>2. PICK o \in ImportOp : o = Import(q, y, j) /\ o.at = q /\ o.payload = y /\ o.job = j
  BY ImportCall
<1>3. ImportOpOK(o)
  BY <1>1, <1>2 DEF ImportOpOK, ImportPlaces
<1>4. /\ op' = [op EXCEPT ![p] = o]
      /\ UNCHANGED <<file, raced, raws, datasets, cp, conflicts, accepted>>
  BY <1>1, <1>2 DEF ImportFromRawPayload, Begins
<1>. QED
  BY <1>1, <1>2, <1>3, <1>4, OpMoves

\* store: the file is there, whole or not.
LEMMA StoreExistingKeeps ==
    ASSUME ImportInv, NEW p \in Procs, StoreExisting(p)
    PROVE  ImportInv'
<1>1. op[p].at = "store" /\ UNCHANGED <<file, raced, raws, datasets, cp, conflicts, accepted>>
  BY DEF StoreExisting
<1>2. CASE file[op[p].payload] = "whole"
  <2>1. PICK q \in ImportPlaces : q = "register" /\ Goes(p, q)
    BY <1>2 DEF ImportPlaces, StoreExisting
  <2>2. PICK o \in ImportOp : /\ op' = [op EXCEPT ![p] = o] /\ o.at = q
                              /\ o.payload = op[p].payload /\ o.job = op[p].job
    BY <2>1, GoesTo
  <2>3. ImportOpOK(op[p])
    BY DEF ImportInv
  <2>4. ImportOpOK(o)
    BY <1>1, <1>2, <2>1, <2>2, <2>3 DEF ImportOpOK, ImportPlaces
  <2>. QED
    BY <1>1, <2>1, <2>2, <2>4, OpMoves
<1>3. CASE file[op[p].payload] # "whole"
  BY <1>1, <1>3, IdleImport, OpMoves DEF StoreExisting, Ends
<1>. QED
  BY <1>2, <1>3

\* store: there was no file.
LEMMA StoreDecidedKeeps ==
    ASSUME ImportInv, NEW p \in Procs, StoreDecided(p)
    PROVE  ImportInv'
<1>1. op[p].at = "store" /\ UNCHANGED <<file, raced, raws, datasets, cp, conflicts, accepted>>
  BY DEF StoreDecided
<1>2. PICK q \in ImportPlaces : q = "open" /\ Goes(p, q)
  BY DEF ImportPlaces, StoreDecided
<1>3. PICK o \in ImportOp : /\ op' = [op EXCEPT ![p] = o] /\ o.at = q
                            /\ o.payload = op[p].payload /\ o.job = op[p].job
  BY <1>2, GoesTo
<1>4. ImportOpOK(op[p])
  BY DEF ImportInv
<1>5. ImportOpOK(o)
  BY <1>1, <1>2, <1>3, <1>4 DEF ImportOpOK, ImportPlaces
<1>. QED
  BY <1>1, <1>2, <1>3, <1>5, OpMoves

\* normalize_batch: nothing, published already, or to be published.
LEMMA NormalizeKeeps ==
    ASSUME ImportInv, NEW p \in Procs, Normalize(p)
    PROVE  ImportInv'
<1>1. op[p].at = "normalize" /\ UNCHANGED <<file, raced, raws, datasets, cp, conflicts, accepted>>
  BY DEF Normalize
<1>2. PICK y \in Payloads : y = op[p].payload
  BY <1>1 DEF ImportInv, ImportOpOK, ImportPlaces
<1>3. PICK d : d = DatasetOf(y)
  OBVIOUS
<1>4. op[p].job \in Jobs \cup {NoJob}
  BY DEF ImportInv, ImportOp
<1>5. CASE Ends(p)
  BY <1>1, <1>5, IdleImport, OpMoves DEF Ends
<1>6. CASE d # <<>> /\ Published(d) /\ op[p].job # NoJob /\ Goes(p, "save")
  <2>1. PICK q \in ImportPlaces : q = "save" /\ Goes(p, q)
    BY <1>6 DEF ImportPlaces
  <2>2. PICK o \in ImportOp : /\ op' = [op EXCEPT ![p] = o] /\ o.at = q
                              /\ o.payload = y /\ o.job = op[p].job
    BY <1>2, <2>1, GoesTo
  <2>3. ImportOpOK(o)
    BY <1>3, <1>4, <1>6, <2>1, <2>2 DEF ImportOpOK, ImportPlaces, Its, Published
  <2>. QED
    BY <1>1, <2>1, <2>2, <2>3, OpMoves
<1>7. CASE d # <<>> /\ Goes(p, "publish")
  <2>1. PICK q \in ImportPlaces : q = "publish" /\ Goes(p, q)
    BY <1>7 DEF ImportPlaces
  <2>2. PICK o \in ImportOp : /\ op' = [op EXCEPT ![p] = o] /\ o.at = q
                              /\ o.payload = y /\ o.job = op[p].job
    BY <1>2, <2>1, GoesTo
  <2>3. d \in DatasetIds
    BY <1>3, <1>7 DEF DatasetIds
  <2>4. ImportOpOK(o)
    BY <1>3, <2>1, <2>2, <2>3 DEF ImportOpOK, ImportPlaces, Its
  <2>. QED
    BY <1>1, <2>1, <2>2, <2>4, OpMoves
<1>8. CASE d = <<>>
  <2>1. ~Published(d)
    BY <1>8 DEF Published, DatasetIds
  <2>. QED
    BY <1>2, <1>3, <1>5, <1>8, <2>1 DEF Normalize
<1>9. CASE d # <<>> /\ Published(d)
  <2>1. IF op[p].job = NoJob THEN Ends(p) ELSE Goes(p, "save")
    BY <1>2, <1>3, <1>9 DEF Normalize
  <2>. QED
    BY <1>5, <1>6, <1>9, <2>1
<1>10. CASE d # <<>> /\ ~Published(d)
  BY <1>2, <1>3, <1>7, <1>10 DEF Normalize
<1>. QED
  BY <1>8, <1>9, <1>10

\* resume_import_from_checkpoint begins with the checkpoint's payload.
LEMMA ResumeKeeps ==
    ASSUME ImportInv, NEW p \in Procs, NEW j \in Jobs, ResumeImportFromCheckpoint(p, j)
    PROVE  ImportInv'
<1>1. PICK y \in Payloads : y = cp[j].payload
  BY DEF ResumeImportFromCheckpoint, ImportInv, CheckpointOK
<1>2. PICK q \in ImportPlaces : q = "normalize"
  BY DEF ImportPlaces
<1>3. PICK o \in ImportOp : o = Import(q, y, j) /\ o.at = q /\ o.payload = y /\ o.job = j
  BY ImportCall
<1>4. ImportOpOK(o)
  BY <1>2, <1>3 DEF ImportOpOK, ImportPlaces
<1>5. /\ op' = [op EXCEPT ![p] = o]
      /\ UNCHANGED <<file, raced, raws, datasets, cp, conflicts, accepted>>
  BY <1>1, <1>2, <1>3 DEF ResumeImportFromCheckpoint, Begins
<1>. QED
  BY <1>2, <1>3, <1>4, <1>5, OpMoves

\* renormalize_from_raw_hash begins with a file that is whole.
LEMMA RenormalizeKeeps ==
    ASSUME ImportInv, NEW p \in Procs, NEW y \in Payloads, RenormalizeFromRawHash(p, y)
    PROVE  ImportInv'
<1>1. PICK q \in ImportPlaces : q = "register"
  BY DEF ImportPlaces
<1>2. PICK o \in ImportOp : o = Import(q, y, NoJob) /\ o.at = q /\ o.payload = y
  BY ImportCall
<1>3. ImportOpOK(o)
  BY <1>1, <1>2 DEF ImportOpOK, ImportPlaces, RenormalizeFromRawHash, Loadable
<1>4. /\ op' = [op EXCEPT ![p] = o]
      /\ UNCHANGED <<file, raced, raws, datasets, cp, conflicts, accepted>>
  BY <1>1, <1>2 DEF RenormalizeFromRawHash, Begins
<1>. QED
  BY <1>1, <1>2, <1>3, <1>4, OpMoves


\* write_bytes truncates the file: what was whole is raced from now on.
LEMMA StoreOpensKeeps ==
    ASSUME ImportInv, NEW p \in Procs, StoreOpens(p)
    PROVE  ImportInv'
<1>1. op[p].at = "open" /\ ImportOpOK(op[p])
  BY DEF StoreOpens, ImportInv
<1>2. PICK y \in Payloads : y = op[p].payload
  BY <1>1 DEF ImportOpOK, ImportPlaces
<1>3. /\ file' = [file EXCEPT ![y] = "torn"]
      /\ raced' = IF file[y] = "absent" THEN raced ELSE raced \cup {y}
      /\ UNCHANGED <<raws, datasets, cp, conflicts, accepted>>
  BY <1>2 DEF StoreOpens
<1>4. PICK q \in ImportPlaces : q = "write" /\ Goes(p, q)
  BY DEF ImportPlaces, StoreOpens
<1>5. PICK o \in ImportOp : /\ op' = [op EXCEPT ![p] = o] /\ o.at = q
                            /\ o.payload = y /\ o.job = op[p].job
  BY <1>2, <1>4, GoesTo
<1>6. ImportOpOK(o)'
  BY <1>1, <1>2, <1>4, <1>5 DEF ImportOpOK, ImportPlaces
<1>7. /\ file' \in [Payloads -> {"absent", "torn", "whole"}]
      /\ raced \subseteq raced' /\ raced' \subseteq Payloads /\ raws' \subseteq Payloads
      /\ \A z \in Payloads : file[z] = "whole" \/ z \in raced => file'[z] = "whole" \/ z \in raced'
      /\ conflicts' \in [Procs -> SUBSET DatasetIds]
  BY <1>3 DEF ImportInv
<1>8. \A a \in accepted' : AcceptedOK(a)'
  <2>1. \A a \in accepted : a.ds \notin conflicts'[a.proc]
    BY <1>3 DEF ImportInv, AcceptedOK
  <2>. QED
    BY <1>3, <2>1, SameAcceptances
<1>9. /\ datasets' \in [DatasetIds -> DatasetRow]
      /\ \A d \in DatasetIds : DatasetOK(d)'
      /\ \A d \in DatasetIds : datasets[d].published => datasets'[d].published
  BY <1>3, SameDatasets
<1>10. cp' \in [Jobs -> Checkpoint] /\ \A j \in Jobs : CheckpointOK(j)'
  BY <1>3, <1>9, SameCheckpoints
<1>. QED
  BY <1>3, <1>4, <1>5, <1>6, <1>7, <1>8, <1>9, <1>10, ImportStep

\* write_bytes returns: the file is whole.
LEMMA StoreWritesKeeps ==
    ASSUME ImportInv, NEW p \in Procs, StoreWrites(p)
    PROVE  ImportInv'
<1>1. op[p].at = "write" /\ ImportOpOK(op[p])
  BY DEF StoreWrites, ImportInv
<1>2. PICK y \in Payloads : y = op[p].payload
  BY <1>1 DEF ImportOpOK, ImportPlaces
<1>3. /\ file' = [file EXCEPT ![y] = "whole"]
      /\ UNCHANGED <<raced, raws, datasets, cp, conflicts, accepted>>
  BY <1>2 DEF StoreWrites
<1>4. PICK q \in ImportPlaces : q = "register" /\ Goes(p, q)
  BY DEF ImportPlaces, StoreWrites
<1>5. PICK o \in ImportOp : /\ op' = [op EXCEPT ![p] = o] /\ o.at = q
                            /\ o.payload = y /\ o.job = op[p].job
  BY <1>2, <1>4, GoesTo
<1>6. file'[y] = "whole"
  BY <1>3 DEF ImportInv
<1>7. ImportOpOK(o)'
  BY <1>2, <1>4, <1>5, <1>6 DEF ImportOpOK, ImportPlaces
<1>8. /\ file' \in [Payloads -> {"absent", "torn", "whole"}]
      /\ raced' \subseteq Payloads /\ raws' \subseteq Payloads
      /\ \A z \in Payloads : file[z] = "whole" \/ z \in raced => file'[z] = "whole" \/ z \in raced'
      /\ conflicts' \in [Procs -> SUBSET DatasetIds]
  BY <1>3 DEF ImportInv
<1>9. \A a \in accepted' : AcceptedOK(a)'
  <2>1. \A a \in accepted : a.ds \notin conflicts'[a.proc]
    BY <1>3 DEF ImportInv, AcceptedOK
  <2>. QED
    BY <1>3, <2>1, SameAcceptances
<1>10. /\ datasets' \in [DatasetIds -> DatasetRow]
       /\ \A d \in DatasetIds : DatasetOK(d)'
       /\ \A d \in DatasetIds : datasets[d].published => datasets'[d].published
  BY <1>3, SameDatasets
<1>11. cp' \in [Jobs -> Checkpoint] /\ \A j \in Jobs : CheckpointOK(j)'
  BY <1>3, <1>10, SameCheckpoints
<1>. QED
  BY <1>3, <1>4, <1>5, <1>7, <1>8, <1>9, <1>10, <1>11, ImportStep

\* register_raw_artifact: the file of the row is whole, or was opened again.
LEMMA RegisterRawArtifactKeeps ==
    ASSUME ImportInv, NEW p \in Procs, RegisterRawArtifact(p)
    PROVE  ImportInv'
<1>1. op[p].at = "register" /\ ImportOpOK(op[p])
  BY DEF RegisterRawArtifact, ImportInv
<1>2. PICK y \in Payloads : y = op[p].payload
  BY <1>1 DEF ImportOpOK, ImportPlaces
<1>3. raws' = raws \cup {y} /\ UNCHANGED <<file, raced, datasets, cp, conflicts, accepted>>
  BY <1>2 DEF RegisterRawArtifact
<1>4. PICK q \in ImportPlaces : /\ q = IF op[p].job = NoJob THEN "normalize" ELSE "checkpoint"
                                /\ Goes(p, q)
  BY DEF ImportPlaces, RegisterRawArtifact
<1>5. PICK o \in ImportOp : /\ op' = [op EXCEPT ![p] = o] /\ o.at = q
                            /\ o.payload = y /\ o.job = op[p].job
  BY <1>2, <1>4, GoesTo
<1>6. op[p].job \in Jobs \cup {NoJob}
  BY DEF ImportInv, ImportOp
<1>7. q \in {"normalize", "checkpoint"} /\ (q = "checkpoint" => o.job \in Jobs)
  BY <1>4, <1>5, <1>6
<1>8. ImportOpOK(o)'
  BY <1>3, <1>5, <1>7 DEF ImportOpOK, ImportPlaces
<1>9. /\ file' \in [Payloads -> {"absent", "torn", "whole"}]
      /\ raced' \subseteq Payloads /\ raws' \subseteq Payloads
      /\ \A z \in raws' \ raws : file'[z] = "whole" \/ z \in raced'
      /\ conflicts' \in [Procs -> SUBSET DatasetIds]
  BY <1>1, <1>2, <1>3 DEF ImportInv, ImportOpOK
<1>10. \A a \in accepted' : AcceptedOK(a)'
  <2>1. \A a \in accepted : a.ds \notin conflicts'[a.proc]
    BY <1>3 DEF ImportInv, AcceptedOK
  <2>. QED
    BY <1>3, <2>1, SameAcceptances
<1>11. /\ datasets' \in [DatasetIds -> DatasetRow]
       /\ \A d \in DatasetIds : DatasetOK(d)'
       /\ \A d \in DatasetIds : datasets[d].published => datasets'[d].published
  BY <1>3, SameDatasets
<1>12. cp' \in [Jobs -> Checkpoint] /\ \A j \in Jobs : CheckpointOK(j)'
  BY <1>3, <1>11, SameCheckpoints
<1>. QED
  BY <1>3, <1>5, <1>7, <1>8, <1>9, <1>10, <1>11, <1>12, ImportStep

\* A checkpoint that is written over, by a save or by a crash in the middle of one.
LEMMA CheckpointWritten ==
    ASSUME ImportInv, NEW j \in Jobs, NEW c \in Checkpoint, cp' = [cp EXCEPT ![j] = c],
           UNCHANGED <<datasets, raws>>,
           c.phase \in {"raw_stored", "published"} => c.payload \in Payloads,
           c.phase = "raw_stored" => c.payload \in raws,
           c.phase = "published" => c.ds \in DatasetIds /\ datasets[c.ds].published
    PROVE  cp' \in [Jobs -> Checkpoint] /\ \A k \in Jobs : CheckpointOK(k)'
<1>1. cp' \in [Jobs -> Checkpoint]
  BY DEF ImportInv
<1>2. ASSUME NEW k \in Jobs PROVE CheckpointOK(k)'
  <2>1. CASE k = j
    <3>1. cp'[k] = c
      BY <2>1 DEF ImportInv
    <3>. QED
      BY <3>1 DEF CheckpointOK
  <2>2. CASE k # j
    <3>1. cp'[k] = cp[k] /\ CheckpointOK(k)
      BY <2>2 DEF ImportInv
    <3>. QED
      BY <3>1 DEF CheckpointOK
  <2>. QED
    BY <2>1, <2>2
<1>. QED
  BY <1>1, <1>2

\* A step that writes a checkpoint and nothing else.
LEMMA CheckpointStep ==
    ASSUME ImportInv, NEW p \in Procs, NEW o \in ImportOp, op' = [op EXCEPT ![p] = o],
           ImportOpOK(o), o.at # "append",
           cp' \in [Jobs -> Checkpoint], \A k \in Jobs : CheckpointOK(k)',
           UNCHANGED <<file, raced, raws, datasets, conflicts, accepted>>
    PROVE  ImportInv'
<1>1. ImportOpOK(o)'
  BY DEF ImportOpOK
<1>2. \A a \in accepted' : AcceptedOK(a)'
  <2>1. \A a \in accepted : a.ds \notin conflicts'[a.proc]
    BY DEF ImportInv, AcceptedOK
  <2>. QED
    BY <2>1, SameAcceptances
<1>3. /\ datasets' \in [DatasetIds -> DatasetRow]
      /\ \A d \in DatasetIds : DatasetOK(d)'
      /\ \A d \in DatasetIds : datasets[d].published => datasets'[d].published
  BY SameDatasets
<1>4. /\ file' \in [Payloads -> {"absent", "torn", "whole"}]
      /\ raws' = raws /\ raws' \subseteq Payloads
      /\ raced' = raced /\ raced' \subseteq Payloads
      /\ conflicts' \in [Procs -> SUBSET DatasetIds]
  BY DEF ImportInv
<1>. QED
  BY <1>1, <1>2, <1>3, <1>4, ImportStep

\* The checkpoint raw_stored names a registered artifact.
LEMMA SaveRawCheckpointKeeps ==
    ASSUME ImportInv, NEW p \in Procs, SaveRawCheckpoint(p)
    PROVE  ImportInv'
<1>1. op[p].at = "checkpoint" /\ ImportOpOK(op[p])
  BY DEF SaveRawCheckpoint, ImportInv
<1>2. PICK y \in Payloads : y = op[p].payload /\ y \in raws
  BY <1>1 DEF ImportOpOK, ImportPlaces
<1>3. PICK j \in Jobs : j = op[p].job
  BY <1>1 DEF ImportOpOK
<1>4. PICK c : c = [phase |-> "raw_stored", payload |-> y, ds |-> <<>>]
  OBVIOUS
<1>5. c \in Checkpoint /\ c.phase = "raw_stored" /\ c.payload = y
  BY <1>4 DEF Checkpoint
<1>6. /\ cp' = [cp EXCEPT ![j] = c]
      /\ UNCHANGED <<file, raced, raws, datasets, conflicts, accepted>>
  BY <1>2, <1>3, <1>4 DEF SaveRawCheckpoint
<1>7. cp' \in [Jobs -> Checkpoint] /\ \A k \in Jobs : CheckpointOK(k)'
  BY <1>2, <1>5, <1>6, CheckpointWritten
<1>8. PICK q \in ImportPlaces : q = "normalize" /\ Goes(p, q)
  BY DEF ImportPlaces, SaveRawCheckpoint
<1>9. PICK o \in ImportOp : /\ op' = [op EXCEPT ![p] = o] /\ o.at = q
                            /\ o.payload = y /\ o.job = op[p].job
  BY <1>2, <1>8, GoesTo
<1>10. ImportOpOK(o)
  BY <1>8, <1>9 DEF ImportOpOK, ImportPlaces
<1>. QED
  BY <1>6, <1>7, <1>8, <1>9, <1>10, CheckpointStep

\* The checkpoint published names a published dataset.
LEMMA SavePublishedCheckpointKeeps ==
    ASSUME ImportInv, NEW p \in Procs, SavePublishedCheckpoint(p)
    PROVE  ImportInv'
<1>1. op[p].at = "save" /\ ImportOpOK(op[p])
  BY DEF SavePublishedCheckpoint, ImportInv
<1>2. PICK y \in Payloads : y = op[p].payload
  BY <1>1 DEF ImportOpOK, ImportPlaces
<1>3. PICK j \in Jobs : j = op[p].job
  BY <1>1 DEF ImportOpOK
<1>4. PICK d \in DatasetIds : d = DatasetOf(y) /\ datasets[d].published
  BY <1>1, <1>2 DEF ImportOpOK, Its
<1>5. PICK c : c = [phase |-> "published", payload |-> y, ds |-> d]
  OBVIOUS
<1>6. c \in Checkpoint /\ c.phase = "published" /\ c.payload = y /\ c.ds = d
  BY <1>5 DEF Checkpoint
<1>7. /\ cp' = [cp EXCEPT ![j] = c]
      /\ UNCHANGED <<file, raced, raws, datasets, conflicts, accepted>>
  BY <1>2, <1>3, <1>4, <1>5 DEF SavePublishedCheckpoint
<1>8. cp' \in [Jobs -> Checkpoint] /\ \A k \in Jobs : CheckpointOK(k)'
  BY <1>4, <1>6, <1>7, CheckpointWritten
<1>. QED
  BY <1>7, <1>8, IdleImport, CheckpointStep DEF SavePublishedCheckpoint, Ends


\* What was accepted had its candles, and was published.
LEMMA AcceptedHasCandles ==
    ASSUME ImportInv, NEW a \in accepted
    PROVE  /\ a.ds \in DatasetIds /\ a.proc \in Procs
           /\ datasets[a.ds].published /\ datasets[a.ds].candles # <<>>
<1>1. AcceptedOK(a)
  BY DEF ImportInv
<1>2. DOMAIN <<>> = {}
  OBVIOUS
<1>3. a.candles # <<>>
  BY <1>1, <1>2 DEF AcceptedOK
<1>4. DatasetOK(a.ds) /\ datasets[a.ds].published \in BOOLEAN
  BY <1>1 DEF ImportInv, AcceptedOK, DatasetRow
<1>. QED
  BY <1>1, <1>3, <1>4 DEF AcceptedOK, DatasetOK

\* A step that changes one row of the catalog.
LEMMA CatalogStep ==
    ASSUME ImportInv, NEW p \in Procs, NEW o \in ImportOp, op' = [op EXCEPT ![p] = o],
           ImportOpOK(o)',
           NEW d \in DatasetIds, NEW r \in DatasetRow, datasets' = [datasets EXCEPT ![d] = r],
           r.candles \in {<<>>, AppendedCandles(d)},
           ~r.published => r.candles = <<>>,
           r.published => r.raw \in raws,
           datasets[d].published => r.published,
           \/ r.candles = datasets[d].candles
           \/ /\ datasets[d].candles = <<>>
              /\ \A q \in Procs : q # p /\ op[q].at = "append" => Its(op[q]) # d,
           o.at = "append" =>
              \A q \in Procs : q # p /\ op[q].at = "append" => Its(op[q]) # Its(o),
           conflicts' \in [Procs -> SUBSET DatasetIds],
           \A a \in accepted : a.ds \notin conflicts'[a.proc],
           UNCHANGED <<file, raced, raws, cp, accepted>>
    PROVE  ImportInv'
<1>1. /\ datasets' \in [DatasetIds -> DatasetRow] /\ datasets'[d] = r
      /\ \A k \in DatasetIds : k # d => datasets'[k] = datasets[k]
  BY DEF ImportInv
<1>2. \A k \in DatasetIds : DatasetOK(k)'
  BY <1>1 DEF ImportInv, DatasetOK
<1>3. \A k \in DatasetIds : datasets[k].published => datasets'[k].published
  BY <1>1
<1>4. ASSUME NEW q \in Procs, q # p, op[q].at = "append"
      PROVE  datasets'[Its(op[q])].candles = datasets[Its(op[q])].candles
  <2>1. Its(op[q]) \in DatasetIds
    BY <1>4 DEF ImportInv, ImportOpOK
  <2>. QED
    BY <1>1, <1>4, <2>1
<1>5. ASSUME NEW a \in accepted PROVE datasets'[a.ds].candles = datasets[a.ds].candles
  BY <1>1, AcceptedHasCandles
<1>6. \A a \in accepted' : AcceptedOK(a)'
  BY <1>5, SameAcceptances
<1>7. cp' \in [Jobs -> Checkpoint] /\ \A j \in Jobs : CheckpointOK(j)'
  BY <1>3, SameCheckpoints
<1>8. /\ file' \in [Payloads -> {"absent", "torn", "whole"}]
      /\ raws' = raws /\ raws' \subseteq Payloads
      /\ raced' = raced /\ raced' \subseteq Payloads
  BY DEF ImportInv
<1>. QED
  BY <1>1, <1>2, <1>3, <1>4, <1>6, <1>7, <1>8, ImportStep

\* publish_dataset: the dataset is new, so nobody appends to it and nobody has it.
LEMMA PublishDatasetKeeps ==
    ASSUME ImportInv, NEW p \in Procs, PublishDataset(p)
    PROVE  ImportInv'
<1>1. op[p].at = "publish" /\ ImportOpOK(op[p])
  BY DEF PublishDataset, ImportInv
<1>2. PICK y \in Payloads : y = op[p].payload
  BY <1>1 DEF ImportOpOK, ImportPlaces
<1>3. PICK d \in DatasetIds : d = DatasetOf(y)
  BY <1>1, <1>2 DEF ImportOpOK, Its
<1>4. CASE Published(d) \/ y \notin raws
  <2>1. Ends(p) /\ UNCHANGED <<file, raced, raws, datasets, cp, conflicts, accepted>>
    BY <1>2, <1>3, <1>4 DEF PublishDataset
  <2>. QED
    BY <2>1, IdleImport, OpMoves DEF Ends
<1>5. CASE ~(Published(d) \/ y \notin raws)
  <2>1. PICK r : r = [Unpublished EXCEPT !.published = TRUE, !.raw = y]
    OBVIOUS
  <2>2. r \in DatasetRow /\ r.published = TRUE /\ r.raw = y /\ r.candles = <<>>
    BY <2>1 DEF Unpublished, DatasetRow, Statuses
  <2>3. /\ datasets' = [datasets EXCEPT ![d] = r] /\ Goes(p, "append")
        /\ UNCHANGED <<file, raced, raws, cp, conflicts, accepted>>
    BY <1>2, <1>3, <1>5, <2>1 DEF PublishDataset
  <2>4. PICK q \in ImportPlaces : q = "append" /\ Goes(p, q)
    BY <2>3 DEF ImportPlaces
  <2>5. PICK o \in ImportOp : /\ op' = [op EXCEPT ![p] = o] /\ o.at = q
                              /\ o.payload = y /\ o.job = op[p].job
    BY <1>2, <2>4, GoesTo
  <2>6. datasets'[d] = r
    BY <2>3 DEF ImportInv
  <2>7. ImportOpOK(o)'
    BY <1>3, <2>2, <2>4, <2>5, <2>6 DEF ImportOpOK, ImportPlaces, Its
  <2>8. datasets[d].published = FALSE /\ datasets[d].candles = <<>>
    <3>1. datasets[d] \in DatasetRow /\ DatasetOK(d) /\ ~datasets[d].published
      BY <1>5 DEF ImportInv, Published
    <3>. QED
      BY <3>1 DEF DatasetOK, DatasetRow
  <2>9. \A k \in Procs : op[k].at = "append" => Its(op[k]) # d
    BY <2>8 DEF ImportInv, ImportOpOK
  <2>10. Its(o) = d
    BY <1>3, <2>5 DEF Its
  <2>11. /\ conflicts' \in [Procs -> SUBSET DatasetIds]
         /\ \A a \in accepted : a.ds \notin conflicts'[a.proc]
    BY <2>3 DEF ImportInv, AcceptedOK
  <2>12. y \in raws
    BY <1>5
  <2>. QED
    BY <2>2, <2>3, <2>5, <2>7, <2>8, <2>9, <2>10, <2>11, <2>12, CatalogStep
<1>. QED
  BY <1>4, <1>5

\* append_candles: the dataset had no candles, so nobody has accepted it, and the
\* conflicts that the process remembers come in time.
LEMMA AppendCandlesKeeps ==
    ASSUME ImportInv, NEW p \in Procs, AppendCandles(p)
    PROVE  ImportInv'
<1>1. op[p].at = "append" /\ ImportOpOK(op[p])
  BY DEF AppendCandles, ImportInv
<1>2. PICK y \in Payloads : y = op[p].payload
  BY <1>1 DEF ImportOpOK, ImportPlaces
<1>3. PICK d \in DatasetIds : /\ d = DatasetOf(y) /\ d = Its(op[p])
                              /\ datasets[d].published /\ datasets[d].candles = <<>>
  BY <1>1, <1>2 DEF ImportOpOK, Its
<1>4. PICK s \in DatasetRow : s = datasets[d]
  BY DEF ImportInv
<1>5. PICK r : r = [s EXCEPT !.candles = AppendedCandles(d)]
  OBVIOUS
<1>6. r \in DatasetRow /\ r.published = s.published /\ r.raw = s.raw /\ r.candles = AppendedCandles(d)
  BY <1>5 DEF DatasetRow
<1>7. /\ datasets' = [datasets EXCEPT ![d] = r]
      /\ conflicts' = [conflicts EXCEPT ![p] = IF HasConflict(d) THEN @ \cup {d} ELSE @]
      /\ IF op[p].job = NoJob THEN Ends(p) ELSE Goes(p, "save")
      /\ UNCHANGED <<file, raced, raws, cp, accepted>>
  BY <1>2, <1>3, <1>4, <1>5 DEF AppendCandles
<1>8. datasets'[d] = r
  BY <1>7 DEF ImportInv
<1>9. \A q \in Procs : q # p /\ op[q].at = "append" => Its(op[q]) # d
  BY <1>1, <1>3 DEF ImportInv, OneAppender
<1>10. conflicts' \in [Procs -> SUBSET DatasetIds]
  BY <1>7 DEF ImportInv
<1>11. ASSUME NEW a \in accepted PROVE a.ds \notin conflicts'[a.proc]
  <2>1. a.ds # d /\ a.proc \in Procs
    BY <1>3, AcceptedHasCandles
  <2>2. a.ds \notin conflicts[a.proc]
    BY DEF ImportInv, AcceptedOK
  <2>3. conflicts'[a.proc] \subseteq conflicts[a.proc] \cup {d}
    BY <1>7, <2>1 DEF ImportInv
  <2>. QED
    BY <2>1, <2>2, <2>3
<1>12. DatasetOK(d)
  BY DEF ImportInv
<1>13. /\ r.candles \in {<<>>, AppendedCandles(d)} /\ r.published /\ r.raw \in raws
  BY <1>3, <1>4, <1>6, <1>12 DEF DatasetOK
<1>14. PICK o \in ImportOp : op' = [op EXCEPT ![p] = o] /\ o.at # "append" /\ ImportOpOK(o)'
  <2>1. CASE op[p].job = NoJob
    <3>1. op' = [op EXCEPT ![p] = Idle]
      BY <1>7, <2>1 DEF Ends
    <3>2. ImportOpOK(Idle)'
      BY IdleImport DEF ImportOpOK, ImportPlaces
    <3>. QED
      BY <3>1, <3>2, IdleImport
  <2>2. CASE op[p].job # NoJob
    <3>1. PICK q \in ImportPlaces : q = "save" /\ Goes(p, q)
      BY <1>7, <2>2 DEF ImportPlaces
    <3>2. PICK o \in ImportOp : /\ op' = [op EXCEPT ![p] = o] /\ o.at = q
                                /\ o.payload = y /\ o.job = op[p].job
      BY <1>2, <3>1, GoesTo
    <3>3. op[p].job \in Jobs
      BY <2>2 DEF ImportInv, ImportOp
    <3>4. ImportOpOK(o)'
      BY <1>3, <1>8, <1>13, <3>1, <3>2, <3>3 DEF ImportOpOK, ImportPlaces, Its
    <3>. QED
      BY <3>1, <3>2, <3>4
  <2>. QED
    BY <2>1, <2>2
<1>. QED
  BY <1>3, <1>6, <1>7, <1>9, <1>10, <1>11, <1>13, <1>14, CatalogStep

\* The verdict of the quarantine is written to the row.
LEMMA PersistQualityReportKeeps ==
    ASSUME ImportInv, NEW p \in Procs, PersistQualityReport(p)
    PROVE  ImportInv'
<1>1. PICK d \in DatasetIds : d = op[p].payload
  BY DEF PersistQualityReport, ImportInv, ImportOpOK
<1>2. PICK k \in Statuses : k = op[p].status
  BY DEF ImportInv, ImportOp
<1>3. PICK s \in DatasetRow : s = datasets[d]
  BY DEF ImportInv
<1>4. PICK r : r = [s EXCEPT !.quality = k]
  OBVIOUS
<1>5. r \in DatasetRow /\ r.published = s.published /\ r.raw = s.raw /\ r.candles = s.candles
  BY <1>4 DEF DatasetRow
<1>6. /\ datasets' = [datasets EXCEPT ![d] = r] /\ op' = [op EXCEPT ![p] = Idle]
      /\ UNCHANGED <<file, raced, raws, cp, conflicts, accepted>>
  BY <1>1, <1>2, <1>3, <1>4 DEF PersistQualityReport, Ends
<1>7. DatasetOK(d)
  BY DEF ImportInv
<1>8. /\ r.candles \in {<<>>, AppendedCandles(d)}
      /\ ~r.published => r.candles = <<>>
      /\ r.published => r.raw \in raws
  BY <1>3, <1>5, <1>7 DEF DatasetOK
<1>9. ImportOpOK(Idle)'
  BY IdleImport DEF ImportOpOK, ImportPlaces
<1>10. /\ conflicts' \in [Procs -> SUBSET DatasetIds]
       /\ \A a \in accepted : a.ds \notin conflicts'[a.proc]
  BY <1>6 DEF ImportInv, AcceptedOK
<1>. QED
  BY <1>3, <1>5, <1>6, <1>8, <1>9, <1>10, IdleImport, CatalogStep


\* require_research_dataset: what is accepted now is whole, and not known for conflicts.
LEMMA RequireResearchDatasetKeeps ==
    ASSUME ImportInv, NEW p \in Procs, NEW d \in DatasetIds, NEW t \in 1..LastDay,
           RequireResearchDataset(p, d, t)
    PROVE  ImportInv'
<1>1. PICK c \in BOOLEAN : c = (d \in conflicts[p])
  BY (d \in conflicts[p]) \in BOOLEAN, Zenon
<1>2. PICK candles : candles = datasets[d].candles
  OBVIOUS
<1>3. candles \in {<<>>, AppendedCandles(d)}
  BY <1>2 DEF ImportInv, DatasetOK
<1>4. PICK status \in Statuses : status = EvaluateDatasetQuality(candles, c, t)
  BY QualityIsStatus
<1>5. PICK o : o = [Idle EXCEPT !.at = "persist", !.payload = d, !.status = status]
  OBVIOUS
<1>6. o \in ImportOp /\ o.at = "persist" /\ o.payload = d
  BY <1>5 DEF Idle, ImportOp
<1>7. PICK new : new = [proc |-> p, ds |-> d, day |-> t, candles |-> candles]
  OBVIOUS
<1>8. /\ op' = [op EXCEPT ![p] = o]
      /\ accepted' = IF AssessQuarantine(status) THEN {new} ELSE accepted
      /\ UNCHANGED <<file, raced, raws, datasets, cp, conflicts>>
  BY <1>1, <1>2, <1>4, <1>5, <1>7 DEF RequireResearchDataset, Begins
<1>9. ImportOpOK(o)'
  BY <1>6 DEF ImportOpOK, ImportPlaces
<1>10. \A a \in accepted' : AcceptedOK(a)'
  <2>1. CASE AssessQuarantine(status)
    <3>1. /\ ~c /\ candles = AppendedCandles(d) /\ DOMAIN candles # {}
          /\ Min(DaysOf(d))..t \subseteq DOMAIN candles
      BY <1>3, <1>4, <2>1, ValidIsWhole
    <3>2. accepted' = {new}
      BY <1>8, <2>1
    <3>3. new.proc = p /\ new.ds = d /\ new.day = t /\ new.candles = candles
      BY <1>7
    <3>4. candles = datasets'[d].candles /\ d \notin conflicts'[p]
      BY <1>1, <1>2, <1>8, <3>1
    <3>5. AcceptedOK(new)'
      BY <3>1, <3>3, <3>4 DEF AcceptedOK
    <3>. QED
      BY <3>2, <3>5
  <2>2. CASE ~AssessQuarantine(status)
    <3>1. UNCHANGED <<accepted, datasets, conflicts>>
      BY <1>8, <2>2
    <3>2. \A a \in accepted : a.ds \notin conflicts'[a.proc]
      BY <3>1 DEF ImportInv, AcceptedOK
    <3>. QED
      BY <3>1, <3>2, SameAcceptances
  <2>. QED
    BY <2>1, <2>2
<1>11. /\ datasets' \in [DatasetIds -> DatasetRow]
       /\ \A k \in DatasetIds : DatasetOK(k)'
       /\ \A k \in DatasetIds : datasets[k].published => datasets'[k].published
  BY <1>8, SameDatasets
<1>12. cp' \in [Jobs -> Checkpoint] /\ \A j \in Jobs : CheckpointOK(j)'
  BY <1>8, <1>11, SameCheckpoints
<1>13. /\ file' \in [Payloads -> {"absent", "torn", "whole"}]
       /\ raws' = raws /\ raws' \subseteq Payloads
       /\ raced' = raced /\ raced' \subseteq Payloads
       /\ conflicts' \in [Procs -> SUBSET DatasetIds]
  BY <1>8 DEF ImportInv
<1>. QED
  BY <1>6, <1>8, <1>9, <1>10, <1>11, <1>12, <1>13, ImportStep

\* A killed process forgets its conflicts and may leave a torn checkpoint.
LEMMA CrashImportKeeps ==
    ASSUME ImportInv, NEW p \in Procs, CrashImport(p)
    PROVE  ImportInv'
<1>1. /\ op' = [op EXCEPT ![p] = Idle] /\ conflicts' = [conflicts EXCEPT ![p] = {}]
      /\ UNCHANGED <<file, raced, raws, datasets, accepted>>
  BY DEF CrashImport
<1>2. ImportOpOK(Idle)'
  BY IdleImport DEF ImportOpOK, ImportPlaces
<1>3. conflicts' \in [Procs -> SUBSET DatasetIds]
  BY <1>1 DEF ImportInv
<1>4. ASSUME NEW a \in accepted PROVE a.ds \notin conflicts'[a.proc]
  <2>1. a.proc \in Procs /\ a.ds \notin conflicts[a.proc]
    BY DEF ImportInv, AcceptedOK
  <2>2. conflicts'[a.proc] \subseteq conflicts[a.proc]
    BY <1>1, <2>1 DEF ImportInv
  <2>. QED
    BY <2>1, <2>2
<1>5. \A a \in accepted' : AcceptedOK(a)'
  BY <1>1, <1>4, SameAcceptances
<1>6. /\ datasets' \in [DatasetIds -> DatasetRow]
      /\ \A k \in DatasetIds : DatasetOK(k)'
      /\ \A k \in DatasetIds : datasets[k].published => datasets'[k].published
  BY <1>1, SameDatasets
<1>7. cp' \in [Jobs -> Checkpoint] /\ \A j \in Jobs : CheckpointOK(j)'
  <2>1. CASE UNCHANGED cp
    BY <1>1, <1>6, <2>1, SameCheckpoints
  <2>2. CASE /\ op[p].at \in {"checkpoint", "save"}
             /\ cp' = [cp EXCEPT ![op[p].job] = [NoCheckpoint EXCEPT !.phase = "torn"]]
    <3>1. PICK j \in Jobs : j = op[p].job
      BY <2>2 DEF ImportInv, ImportOpOK
    <3>2. PICK c : c = [NoCheckpoint EXCEPT !.phase = "torn"]
      OBVIOUS
    <3>3. c \in Checkpoint /\ c.phase = "torn"
      BY <3>2 DEF NoCheckpoint, Checkpoint
    <3>. QED
      BY <1>1, <2>2, <3>1, <3>2, <3>3, CheckpointWritten
  <2>. QED
    BY <2>1, <2>2 DEF CrashImport
<1>8. /\ file' \in [Payloads -> {"absent", "torn", "whole"}]
      /\ raws' = raws /\ raws' \subseteq Payloads
      /\ raced' = raced /\ raced' \subseteq Payloads
  BY <1>1 DEF ImportInv
<1>. QED
  BY <1>1, <1>2, <1>3, <1>5, <1>6, <1>7, <1>8, IdleImport, ImportStep

\* The state of the import in every step: what files, rows, checkpoints, operations in
\* flight and acceptances may rely on.
THEOREM ImportInvariant == ImportSpec => []ImportInv
<1>1. ImportInv /\ [ImportNext]_importVars => ImportInv'
  <2> SUFFICES ASSUME ImportInv, [ImportNext]_importVars PROVE ImportInv'
    OBVIOUS
  <2>1. CASE UNCHANGED importVars
    <3>1. UNCHANGED <<file, raced, raws, datasets, cp, conflicts, op, accepted>>
      BY <2>1 DEF importVars
    <3>2. \A d \in DatasetIds : DatasetOK(d)'
      BY <3>1 DEF ImportInv, DatasetOK
    <3>3. \A j \in Jobs : CheckpointOK(j)'
      BY <3>1 DEF ImportInv, CheckpointOK
    <3>4. \A p \in Procs : ImportOpOK(op[p])'
      BY <3>1 DEF ImportInv, ImportOpOK
    <3>5. OneAppender' /\ \A a \in accepted' : AcceptedOK(a)'
      BY <3>1 DEF ImportInv, OneAppender, AcceptedOK
    <3>. QED
      BY <3>1, <3>2, <3>3, <3>4, <3>5 DEF ImportInv
  <2>2. CASE ImportNext
    BY <2>2, ImportFromRawPayloadKeeps, StoreExistingKeeps, StoreDecidedKeeps, StoreOpensKeeps,
       StoreWritesKeeps, RegisterRawArtifactKeeps, SaveRawCheckpointKeeps, NormalizeKeeps,
       PublishDatasetKeeps, AppendCandlesKeeps, SavePublishedCheckpointKeeps, ResumeKeeps,
       RenormalizeKeeps, RequireResearchDatasetKeeps, PersistQualityReportKeeps,
       CrashImportKeeps DEF ImportNext
  <2>. QED
    BY <2>1, <2>2
<1>. QED
  BY <1>1, ImportInvInit, PTL DEF ImportSpec

\* Files, catalog and checkpoints stay in step over every crash, and the quarantine hands
\* out only whole datasets, for every set of processes, jobs and payloads and for any
\* number of calls and crashes.
THEOREM ImportSound == ImportSpec => []ImportsAreSound
<1>1. ImportInv => ImportTypeOK
  <2> SUFFICES ASSUME ImportInv PROVE ImportTypeOK
    OBVIOUS
  <2>1. ASSUME NEW d \in DatasetIds
        PROVE  /\ datasets[d].published \in BOOLEAN
               /\ datasets[d].quality \in Statuses
               /\ datasets[d].candles \in {<<>>, AppendedCandles(d)}
    <3>1. datasets[d] \in DatasetRow /\ DatasetOK(d)
      BY DEF ImportInv
    <3>. QED
      BY <3>1 DEF DatasetRow, DatasetOK
  <2>2. ASSUME NEW j \in Jobs
        PROVE  /\ cp[j].phase \in {"none", "torn", "raw_stored", "published"}
               /\ cp[j].payload \in Payloads \cup {<<>>}
               /\ cp[j].ds \in DatasetIds \cup {<<>>}
    <3>1. cp[j] \in Checkpoint
      BY DEF ImportInv
    <3>. QED
      BY <3>1 DEF Checkpoint
  <2>3. ASSUME NEW p \in Procs PROVE conflicts[p] \subseteq DatasetIds /\ op[p].status \in Statuses
    <3>1. op[p] \in ImportOp /\ conflicts[p] \in SUBSET DatasetIds
      BY DEF ImportInv
    <3>. QED
      BY <3>1 DEF ImportOp
  <2>4. /\ file \in [Payloads -> {"absent", "torn", "whole"}]
        /\ raws \subseteq Payloads /\ raced \subseteq Payloads
    BY DEF ImportInv
  <2>. QED
    BY <2>1, <2>2, <2>3, <2>4 DEF ImportTypeOK
<1>2. ImportInv => AcceptedIsWhole /\ ImporterRefusesConflicts
  BY DEF ImportInv, AcceptedOK, AcceptedIsWhole, ImporterRefusesConflicts
<1>3. ImportInv => CheckpointIsBacked
  <2> SUFFICES ASSUME ImportInv, NEW j \in Jobs
               PROVE  /\ cp[j].phase = "raw_stored" => cp[j].payload \in raws
                      /\ cp[j].phase = "published" =>
                            Published(cp[j].ds) /\ datasets[cp[j].ds].raw \in raws
    BY DEF CheckpointIsBacked
  <2>1. CheckpointOK(j) /\ \A d \in DatasetIds : DatasetOK(d)
    BY DEF ImportInv
  <2>. QED
    BY <2>1 DEF CheckpointOK, DatasetOK, Published
<1>4. ImportInv => PublishedIsReplayable
  BY DEF ImportInv, DatasetOK, Published, PublishedIsReplayable
<1>. QED
  BY <1>1, <1>2, <1>3, <1>4, ImportInvariant, PTL DEF ImportsAreSound

-----------------------------------------------------------------------------
(* The folds of the walk-forward plan.                                     *)

\* A set of natural numbers has a least one.
LEMMA LeastExists ==
    ASSUME NEW S, S \subseteq Nat, S # {}
    PROVE  \E n \in S : \A m \in S : n <= m
<1>1. PICK n \in S : \A m \in S : ~ (<<m, n>> \in OpToRel(<, Nat))
  BY WFMin, NatLessThanWellFounded, Zenon
<1>2. \A m \in S : ~ (m < n)
  BY <1>1 DEF OpToRel
<1>. QED
  BY <1>2

\* The calendar.
LEMMA CalendarGrows ==
    ASSUME NEW i \in 1 .. Len(MonthStarts), NEW j \in 1 .. Len(MonthStarts), i < j
    PROVE  MonthStarts[i] < MonthStarts[j]
<1> DEFINE N == Len(MonthStarts)
           Bad == {k \in 1 .. N : i < k /\ ~(MonthStarts[i] < MonthStarts[k])}
<1>1. N \in Nat /\ \A k \in 1 .. N : MonthStarts[k] \in Int
  BY CalendarOK
<1>2. \A k \in 1 .. N - 1 : MonthStarts[k] < MonthStarts[k + 1]
  BY CalendarOK
<1> HIDE DEF N
<1>3. ASSUME Bad # {} PROVE FALSE
  <2>0. Bad \subseteq Nat
    BY <1>1
  <2>1. PICK k \in Bad : \A m \in Bad : k <= m
    BY <1>3, <2>0, LeastExists
  <2>2. k \in 1 .. N /\ i < k /\ ~(MonthStarts[i] < MonthStarts[k]) /\ i \in 1 .. N
    BY <2>1 DEF N
  <2> DEFINE p == k - 1
  <2>3. p \in 1 .. N /\ p \in 1 .. N - 1 /\ p + 1 = k /\ i <= p /\ ~(k <= p)
    BY <1>1, <2>2
  <2>4. MonthStarts[p] < MonthStarts[k]
    BY <1>2, <2>3
  <2>5. p \notin Bad
    BY <2>1, <2>3
  <2>6. i = p \/ MonthStarts[i] < MonthStarts[p]
    BY <1>1, <2>2, <2>3, <2>5
  <2>. QED
    BY <1>1, <2>2, <2>3, <2>4, <2>6
<1>. QED
  BY <1>3 DEF N

\* The month in which the warm-up begins, and the day after its last month.
Warm(q) == MonthStarts[FirstMonthFrom(q.start) + q.months]
WarmUp(q, k) ==
    /\ k = FirstMonthFrom(q.start) /\ k \in Months /\ MonthStart(k) >= q.start
    /\ \A j \in Months : MonthStart(j) >= q.start => k <= j
    /\ k + q.months \in 1 .. Len(MonthStarts)
    /\ EarliestEvalStart(q.start, q.months) = MonthStarts[k + q.months]
    /\ MonthStarts[k + q.months] \in Int /\ MonthStarts[k + q.months] > q.start

\* The search finds it.
LEMMA WarmUpFound ==
    ASSUME NEW q \in PlanRequests, q.months >= 1
    PROVE  \E k \in Nat : WarmUp(q, k)
<1>1. /\ q.start \in Int /\ q.months \in Int /\ Len(MonthStarts) \in Nat
      /\ \A k \in 1 .. Len(MonthStarts) : MonthStarts[k] \in Int
  BY RequestsOK, CalendarOK
<1>2. PICK c \in Months : MonthStart(c) >= q.start /\ c + q.months <= Len(MonthStarts)
  BY RequestsOK
<1> DEFINE C == {j \in Months : MonthStart(j) >= q.start}
<1>3. C \subseteq Nat /\ c \in C
  BY <1>1, <1>2 DEF Months
<1>4. PICK n \in C : \A m \in C : n <= m
  BY <1>3, LeastExists
<1>5. \E k \in Months : MonthStart(k) >= q.start /\ \A j \in Months : MonthStart(j) >= q.start => k <= j
  BY <1>4
<1> DEFINE k == FirstMonthFrom(q.start)
<1>6. k \in Months /\ MonthStart(k) >= q.start /\ \A j \in Months : MonthStart(j) >= q.start => k <= j
  BY <1>5 DEF FirstMonthFrom
<1> HIDE DEF k
<1>7. k \in Nat /\ k \in 1 .. Len(MonthStarts) /\ c \in Int
  BY <1>1, <1>2, <1>6 DEF Months
<1>8. k <= c
  BY <1>2, <1>6
<1>9. k + q.months \in 1 .. Len(MonthStarts) /\ k < k + q.months
  BY <1>1, <1>2, <1>7, <1>8
<1>10. MonthStarts[k] < MonthStarts[k + q.months]
  BY <1>7, <1>9, CalendarGrows
<1>11. EarliestEvalStart(q.start, q.months) = MonthStarts[k + q.months]
  <2>1. k + q.months - 1 + 1 = k + q.months
    BY <1>1, <1>7
  <2>2. EarliestEvalStart(q.start, q.months) = MonthStarts[k + q.months - 1 + 1] - 1 + 1
    BY DEF EarliestEvalStart, MonthEnd, k
  <2>. QED
    BY <1>1, <1>9, <2>1, <2>2
<1>12. MonthStarts[k + q.months] > q.start
  <2>1. MonthStarts[k] \in Int /\ MonthStarts[k + q.months] \in Int /\ MonthStarts[k] >= q.start
    BY <1>1, <1>6, <1>7, <1>9 DEF MonthStart
  <2>. QED
    BY <1>1, <1>10, <2>1
<1>. QED
  BY <1>1, <1>6, <1>7, <1>9, <1>11, <1>12 DEF WarmUp, k

\* The whole months between the start of the range and a day.
LEMMA WholeMonths ==
    ASSUME NEW q \in PlanRequests, q.months >= 1, NEW k \in Nat, WarmUp(q, k), NEW day \in Int
    PROVE  /\ day >= MonthStarts[k + q.months] => Cardinality(Whole(q.start, day - 1)) >= q.months
           /\ day < MonthStarts[k + q.months] => Cardinality(Whole(q.start, day - 1)) < q.months
<1> DEFINE N == Len(MonthStarts)
           m == q.months
           W == Whole(q.start, day - 1)
<1>1. /\ q.start \in Int /\ m \in Int /\ m >= 1 /\ N \in Nat
      /\ \A j \in 1 .. N : MonthStarts[j] \in Int
  BY RequestsOK, CalendarOK
<1>2. /\ k \in 1 .. N /\ k + m \in 1 .. N /\ MonthStarts[k] >= q.start
      /\ \A j \in Months : MonthStarts[j] >= q.start => k <= j
  BY <1>1 DEF WarmUp, Months, MonthStart
<1>3. \A j : j \in W <=> j \in 1 .. N - 1 /\ MonthStarts[j] >= q.start /\ MonthStarts[j + 1] - 1 <= day - 1
  BY DEF Whole, Months, MonthStart, MonthEnd
<1>4. IsFiniteSet(W) /\ Cardinality(W) \in Nat
  <2>1. IsFiniteSet(1 .. N - 1)
    BY <1>1, FS_Interval
  <2>2. W \in SUBSET (1 .. N - 1)
    BY <1>3
  <2>. QED
    BY <2>1, <2>2, FS_Subset, FS_CardinalityType
<1> HIDE DEF N, m, W
<1>5. ASSUME day >= MonthStarts[k + m] PROVE Cardinality(W) >= m
  <2> DEFINE I == k .. k + m - 1
  <2>1. Cardinality(I) = m
    BY <1>1, FS_Interval
  <2>2. ASSUME NEW j \in I PROVE j \in W
    <3>1. j \in 1 .. N - 1 /\ j \in 1 .. N /\ j + 1 \in 1 .. N /\ k <= j /\ j + 1 <= k + m
      BY <1>1, <1>2
    <3>2. MonthStarts[j] >= q.start
      <4>1. k = j \/ MonthStarts[k] < MonthStarts[j]
        BY <1>1, <1>2, <3>1, CalendarGrows DEF N
      <4>. QED
        BY <1>1, <1>2, <3>1, <4>1
    <3>3. j + 1 = k + m \/ MonthStarts[j + 1] < MonthStarts[k + m]
      BY <1>1, <1>2, <3>1, CalendarGrows DEF N
    <3>4. MonthStarts[j + 1] - 1 <= day - 1
      BY <1>1, <1>2, <1>5, <3>1, <3>3
    <3>. QED
      BY <1>3, <3>1, <3>2, <3>4
  <2> HIDE DEF I
  <2>3. I \in SUBSET W
    BY <2>2
  <2>4. Cardinality(I) <= Cardinality(W)
    BY <1>4, <2>3, FS_Subset
  <2>. QED
    BY <1>4, <2>1, <2>4
<1>6. ASSUME day < MonthStarts[k + m] PROVE Cardinality(W) < m
  <2> DEFINE I == k .. k + m - 2
  <2>1. Cardinality(I) = m - 1 /\ IsFiniteSet(I)
    BY <1>1, FS_Interval
  <2>2. ASSUME NEW j \in W PROVE j \in I
    <3>1. /\ j \in 1 .. N - 1 /\ j \in 1 .. N /\ j + 1 \in 1 .. N /\ MonthStarts[j] >= q.start
          /\ MonthStarts[j + 1] - 1 <= day - 1
      BY <1>1, <1>3
    <3>2. k <= j
      BY <1>2, <3>1 DEF Months, N
    <3>3. ASSUME ~(j + 1 < k + m) PROVE FALSE
      <4>1. k + m = j + 1 \/ MonthStarts[k + m] < MonthStarts[j + 1]
        BY <1>1, <1>2, <3>1, <3>3, CalendarGrows DEF N
      <4>. QED
        BY <1>1, <1>2, <1>6, <3>1, <4>1
    <3>. QED
      BY <1>1, <3>1, <3>2, <3>3
  <2> HIDE DEF I
  <2>3. W \in SUBSET I
    BY <2>2
  <2>4. Cardinality(W) <= Cardinality(I)
    BY <2>1, <2>3, FS_Subset
  <2>. QED
    BY <1>1, <1>4, <2>1, <2>4
<1>. QED
  BY <1>5, <1>6 DEF m, W

\* The evaluable days of a request, and the fold lengths without and with the odd day.
Total(q) == q.end - FirstEvalStart(q) + 1
Base(q) == Total(q) \div q.folds
Rest(q) == Total(q) % q.folds

\* The first day of fold i, in closed form.
Ahead(q, i) == FirstEvalStart(q) + (i - 1) * Base(q) + (IF i - 1 <= Rest(q) THEN i - 1 ELSE Rest(q))

\* An accepted request in numbers.
Accepted(q) ==
    /\ q.start \in Int /\ q.end \in Int /\ q.folds \in Nat /\ q.folds >= 1 /\ q.embargo \in Nat
    /\ q.months \in Int /\ q.months >= 1 /\ q.days \subseteq Int
    /\ FirstEvalStart(q) \in Int /\ FirstEvalStart(q) > q.start
    /\ Total(q) \in Int /\ Total(q) >= q.folds /\ q.end = FirstEvalStart(q) + Total(q) - 1
    /\ Base(q) \in Nat /\ Base(q) >= 1 /\ Rest(q) \in Nat /\ Rest(q) < q.folds
    /\ Total(q) = q.folds * Base(q) + Rest(q)

\* Where the search before the loop ends.
LEMMA FirstDay ==
    ASSUME NEW q \in PlanRequests, ~RequestRefused(q), NEW k \in Nat, WarmUp(q, k)
    PROVE  /\ FirstEvalStart(q) \in Int /\ FirstEvalStart(q) >= MonthStarts[k + q.months]
           /\ \A n \in q.days : FirstEvalStart(q) - q.start >= n
           /\ \A day \in Int : day < FirstEvalStart(q) =>
                 day < MonthStarts[k + q.months] \/ \E n \in q.days : day - q.start < n
<1> DEFINE w == MonthStarts[k + q.months]
<1>1. w \in Int /\ EarliestEvalStart(q.start, q.months) = w
  BY DEF WarmUp
<1>2. q.start \in Int /\ q.days \subseteq Int /\ \A m, n \in q.days : m = n
  BY RequestsOK
<1> HIDE DEF w
<1>3. FirstEvalStart(q) =
        IF \E n \in q.days : q.start + n > w THEN q.start + (CHOOSE n \in q.days : TRUE) ELSE w
  BY <1>1 DEF FirstEvalStart
<1>4. CASE \E n \in q.days : q.start + n > w
  <2>1. PICK n \in q.days : q.start + n > w
    BY <1>4
  <2>2. (CHOOSE x \in q.days : TRUE) \in q.days
    BY <2>1
  <2>3. FirstEvalStart(q) = q.start + n /\ n \in Int /\ \A x \in q.days : x = n
    BY <1>2, <1>3, <1>4, <2>1, <2>2
  <2>. QED
    BY <1>1, <1>2, <2>1, <2>3 DEF w
<1>5. CASE ~ \E n \in q.days : q.start + n > w
  <2>1. FirstEvalStart(q) = w
    BY <1>3, <1>5
  <2>2. \A n \in q.days : n \in Int /\ ~(q.start + n > w)
    BY <1>2, <1>5
  <2>. QED
    BY <1>1, <1>2, <2>1, <2>2 DEF w
<1>. QED
  BY <1>4, <1>5

\* The numbers of an accepted request.
LEMMA AcceptedNumbers ==
    ASSUME NEW q \in PlanRequests, ~RequestRefused(q)
    PROVE  Accepted(q)
<1>1. /\ q.start \in Int /\ q.end \in Int /\ q.folds \in Int /\ q.embargo \in Int /\ q.months \in Int
      /\ q.days \subseteq Int
  BY RequestsOK
<1>2. q.folds >= 1 /\ q.embargo >= 0 /\ q.months >= 1 /\ ~(q.end - FirstEvalStart(q) + 1 < q.folds)
  BY <1>1 DEF RequestRefused
<1>3. PICK k \in Nat : WarmUp(q, k)
  BY <1>2, WarmUpFound
<1>4. FirstEvalStart(q) \in Int /\ FirstEvalStart(q) > q.start
  <2>1. FirstEvalStart(q) \in Int /\ FirstEvalStart(q) >= MonthStarts[k + q.months]
    BY <1>3, FirstDay
  <2>2. MonthStarts[k + q.months] \in Int /\ MonthStarts[k + q.months] > q.start
    BY <1>3 DEF WarmUp
  <2>. QED
    BY <1>1, <2>1, <2>2
<1>5. Total(q) \in Int /\ Total(q) >= q.folds /\ q.end = FirstEvalStart(q) + Total(q) - 1
  BY <1>1, <1>2, <1>4 DEF Total
<1>6. ASSUME NEW t \in Int, NEW f \in Int, f >= 1, t >= f
      PROVE  /\ t \div f \in Nat /\ t \div f >= 1 /\ t % f \in Nat /\ t % f < f
             /\ t = f * (t \div f) + (t % f)
  <2>1. PICK d \in Int : d = t \div f
    BY <1>6
  <2>2. PICK m \in Int : m = t % f /\ 0 <= m /\ m < f
    BY <1>6
  <2>3. t = f * d + m
    BY <1>6, <2>1, <2>2
  <2>4. d >= 1
    <3>1. ASSUME d <= 0 PROVE FALSE
      <4>1. f * d <= 0
        BY <1>6, <3>1
      <4>. QED
        BY <1>6, <2>2, <2>3, <4>1
    <3>. QED
      BY <3>1
  <2>. QED
    BY <2>1, <2>2, <2>3, <2>4
<1>7. /\ Base(q) \in Nat /\ Base(q) >= 1 /\ Rest(q) \in Nat /\ Rest(q) < q.folds
      /\ Total(q) = q.folds * Base(q) + Rest(q)
  BY <1>1, <1>2, <1>5, <1>6 DEF Base, Rest
<1>. QED
  BY <1>1, <1>2, <1>4, <1>5, <1>7 DEF Accepted

\* The length of a fold, and where the next one begins.
LEMMA AheadSteps ==
    ASSUME NEW q, Accepted(q), NEW i \in 1 .. q.folds
    PROVE  /\ FoldLength(q, i) \in Nat /\ FoldLength(q, i) >= 1
           /\ FoldLength(q, i) \in {Base(q), Base(q) + 1}
           /\ Ahead(q, i) \in Int /\ Ahead(q, i + 1) = Ahead(q, i) + FoldLength(q, i)
<1>1. FoldLength(q, i) = Base(q) + (IF i <= Rest(q) THEN 1 ELSE 0)
  BY DEF FoldLength, Base, Rest, Total
<1> DEFINE b == Base(q)
           r == Rest(q)
           f == FirstEvalStart(q)
<1>2. b \in Nat /\ b >= 1 /\ r \in Nat /\ f \in Int /\ i \in Nat /\ i >= 1
  BY DEF Accepted
<1>3. /\ Ahead(q, i) = f + (i - 1) * b + (IF i - 1 <= r THEN i - 1 ELSE r)
      /\ Ahead(q, i + 1) = f + (i + 1 - 1) * b + (IF i + 1 - 1 <= r THEN i + 1 - 1 ELSE r)
  BY DEF Ahead
<1>4. FoldLength(q, i) = b + (IF i <= r THEN 1 ELSE 0)
  BY <1>1
<1> HIDE DEF b, r, f
<1>5. (i + 1 - 1) * b = (i - 1) * b + b /\ (i - 1) * b \in Int
  BY <1>2
<1>6. FoldLength(q, i) \in {b, b + 1}
  BY <1>2, <1>4
<1>. QED
  BY <1>2, <1>3, <1>4, <1>5, <1>6 DEF b

\* The loop's running start is the closed form.
LEMMA EvalStarts ==
    ASSUME NEW q, Accepted(q), NEW i \in 1 .. q.folds
    PROVE  EvalStart(q, i) = Ahead(q, i)
<1> DEFINE I == 1 .. i
           Eq(g) == g = [k \in I |-> IF k = 1 THEN FirstEvalStart(q) ELSE g[k - 1] + FoldLength(q, k - 1)]
           a == [k \in I |-> Ahead(q, k)]
           start == CHOOSE g : Eq(g)
<1>1. i \in Nat /\ q.folds \in Nat /\ \A k \in I : k \in 1 .. q.folds
  BY DEF Accepted
<1>2. Ahead(q, 1) = FirstEvalStart(q)
  <2>1. FirstEvalStart(q) \in Int /\ Base(q) \in Int /\ Rest(q) \in Nat
    BY DEF Accepted
  <2>. QED
    BY <2>1 DEF Ahead
<1>3. \A k \in I : k # 1 => k - 1 \in I /\ Ahead(q, k) = Ahead(q, k - 1) + FoldLength(q, k - 1)
  <2>1. SUFFICES ASSUME NEW k \in I, k # 1
                 PROVE  k - 1 \in I /\ Ahead(q, k) = Ahead(q, k - 1) + FoldLength(q, k - 1)
    OBVIOUS
  <2>2. k - 1 \in I /\ k - 1 \in 1 .. q.folds /\ k - 1 + 1 = k
    BY <1>1, <2>1
  <2>. QED
    BY <2>2, AheadSteps
<1>4. Eq(a)
  <2>1. \A k \in I : a[k] = IF k = 1 THEN FirstEvalStart(q) ELSE a[k - 1] + FoldLength(q, k - 1)
    BY <1>2, <1>3
  <2>. QED
    BY <2>1
<1>5. Eq(start)
  <2> HIDE DEF Eq, a
  <2>. QED
    BY <1>4
<1>6. EvalStart(q, i) = start[i]
  BY DEF EvalStart
<1> HIDE DEF start
<1>7. \A k \in I : start[k] = IF k = 1 THEN FirstEvalStart(q) ELSE start[k - 1] + FoldLength(q, k - 1)
  BY <1>5
<1> DEFINE Bad == {k \in I : start[k] # Ahead(q, k)}
<1>8. ASSUME Bad # {} PROVE FALSE
  <2>1. Bad \subseteq Nat
    BY <1>1
  <2>2. PICK k \in Bad : \A m \in Bad : k <= m
    BY <1>8, <2>1, LeastExists
  <2>3. k \in I /\ start[k] # Ahead(q, k) /\ k \in Nat
    BY <2>1, <2>2
  <2>4. k # 1
    BY <1>2, <1>7, <2>3
  <2>5. k - 1 \in I /\ Ahead(q, k) = Ahead(q, k - 1) + FoldLength(q, k - 1)
    BY <1>3, <2>3, <2>4
  <2>6. k - 1 \notin Bad
    <3>1. ~(k <= k - 1)
      BY <2>3
    <3>. QED
      BY <2>2, <3>1
  <2>7. start[k - 1] = Ahead(q, k - 1)
    BY <2>5, <2>6
  <2>. QED
    BY <1>7, <2>3, <2>4, <2>5, <2>7
<1>9. i \in I
  BY <1>1
<1>. QED
  BY <1>6, <1>8, <1>9

\* The folds follow one another, are not empty, and the last one ends with the range.
Tiled(q, es, len) ==
    /\ \A i \in 1 .. q.folds : es[i] \in Int /\ len[i] \in Nat /\ len[i] >= 1
    /\ \A i, j \in 1 .. q.folds : len[i] <= len[j] + 1
    /\ es[1] = FirstEvalStart(q) /\ es[q.folds] + len[q.folds] = q.end + 1
    /\ \A i \in 1 .. q.folds : i # 1 => es[i] = es[i - 1] + len[i - 1]
    /\ \A i, j \in 1 .. q.folds : i < j => es[i] + len[i] <= es[j]

\* Where the folds begin and how long they are.
LEMMA FoldsFollow ==
    ASSUME NEW q, Accepted(q)
    PROVE  Tiled(q, [i \in 1 .. q.folds |-> EvalStart(q, i)], [i \in 1 .. q.folds |-> FoldLength(q, i)])
<1> DEFINE I == 1 .. q.folds
           es == [i \in I |-> EvalStart(q, i)]
           len == [i \in I |-> FoldLength(q, i)]
<1>1. q.folds \in Nat /\ q.folds >= 1 /\ 1 \in I /\ q.folds \in I
  BY DEF Accepted
<1>2. \A i \in I : es[i] = Ahead(q, i)
  BY EvalStarts
<1>3. \A i \in I : es[i] \in Int /\ len[i] \in Nat /\ len[i] >= 1
  BY <1>2, AheadSteps
<1>4. \A i, j \in I : len[i] <= len[j] + 1
  <2>1. Base(q) \in Nat
    BY DEF Accepted
  <2>2. \A i \in I : len[i] = Base(q) \/ len[i] = Base(q) + 1
    BY AheadSteps
  <2> HIDE DEF len, I
  <2>. QED
    BY <2>1, <2>2
<1>5. \A i \in I : Ahead(q, i + 1) = es[i] + len[i]
  BY <1>2, AheadSteps
<1>6. es[1] = FirstEvalStart(q)
  <2>1. FirstEvalStart(q) \in Int /\ Base(q) \in Int /\ Rest(q) \in Nat
    BY DEF Accepted
  <2>2. Ahead(q, 1) = FirstEvalStart(q)
    BY <2>1 DEF Ahead
  <2>. QED
    BY <1>1, <1>2, <2>2
<1>7. es[q.folds] + len[q.folds] = q.end + 1
  <2> DEFINE n == q.folds
             b == Base(q)
             r == Rest(q)
             f == FirstEvalStart(q)
  <2>1. /\ n \in Nat /\ b \in Nat /\ r \in Nat /\ r < n /\ f \in Int /\ q.end \in Int
        /\ Total(q) = n * b + r /\ q.end = f + Total(q) - 1
    BY DEF Accepted
  <2>2. Ahead(q, n + 1) = f + (n + 1 - 1) * b + (IF n + 1 - 1 <= r THEN n + 1 - 1 ELSE r)
    BY <2>1 DEF Ahead
  <2>3. Ahead(q, n + 1) = es[n] + len[n]
    BY <1>1, <1>5
  <2> HIDE DEF n, b, r, f, es, len
  <2>4. Ahead(q, n + 1) = f + n * b + r
    BY <2>1, <2>2
  <2>5. n * b \in Int
    BY <2>1
  <2>6. es[n] + len[n] = q.end + 1
    BY <2>1, <2>3, <2>4, <2>5
  <2>. QED
    BY <2>6 DEF n
<1>8. \A i \in I : i # 1 => i - 1 \in I /\ es[i] = es[i - 1] + len[i - 1]
  <2>1. SUFFICES ASSUME NEW i \in I, i # 1 PROVE i - 1 \in I /\ es[i] = es[i - 1] + len[i - 1]
    OBVIOUS
  <2>2. i - 1 \in I /\ i - 1 + 1 = i
    BY <1>1, <2>1
  <2> HIDE DEF I, es, len
  <2>. QED
    BY <1>2, <1>5, <2>2
<1> HIDE DEF es, len
<1>9. ASSUME NEW i \in I, NEW j \in I, i < j PROVE es[i] + len[i] <= es[j]
  <2> DEFINE Bad == {k \in I : i < k /\ ~(es[i] + len[i] <= es[k])}
  <2>1. ASSUME Bad # {} PROVE FALSE
    <3>1. Bad \subseteq Nat
      BY <1>1
    <3>2. PICK k \in Bad : \A m \in Bad : k <= m
      BY <2>1, <3>1, LeastExists
    <3>3. k \in I /\ k \in Nat /\ i \in Nat /\ i >= 1 /\ i < k /\ ~(es[i] + len[i] <= es[k]) /\ k # 1 /\ ~(k <= k - 1)
      BY <1>1, <3>2
    <3>4. k - 1 \in I /\ es[k] = es[k - 1] + len[k - 1] /\ k - 1 \notin Bad
      BY <1>8, <3>2, <3>3
    <3>5. i = k - 1 \/ es[i] + len[i] <= es[k - 1]
      BY <3>3, <3>4
    <3>6. es[i] \in Int /\ len[i] \in Nat /\ es[k] \in Int /\ es[k - 1] \in Int /\ len[k - 1] \in Nat
      BY <1>3, <3>3, <3>4
    <3>. QED
      BY <3>3, <3>4, <3>5, <3>6
  <2>. QED
    BY <1>9, <2>1
<1>. QED
  BY <1>3, <1>4, <1>6, <1>7, <1>8, <1>9 DEF Tiled, es, len

\* A plan that is not refused, fold by fold.
Planned(q, fs, es, len) ==
    /\ DOMAIN fs = 1 .. q.folds
    /\ \A i \in 1 .. q.folds :
          /\ fs[i].evalStart = es[i] /\ fs[i].evalEnd = es[i] + len[i] - 1
          /\ fs[i].featureStart = q.start /\ fs[i].labelEnd = es[i] - q.embargo - 1

\* The days of such a plan.
LEMMA PlanTiles ==
    ASSUME NEW q, Accepted(q), NEW es, NEW len, Tiled(q, es, len), NEW fs, Planned(q, fs, es, len)
    PROVE  LET EvalDays(f) == f.evalStart .. f.evalEnd
           IN  /\ UNION {EvalDays(fs[i]) : i \in DOMAIN fs} = fs[1].evalStart .. q.end
               /\ \A i, j \in DOMAIN fs :
                     /\ i # j => EvalDays(fs[i]) \cap EvalDays(fs[j]) = {}
                     /\ Cardinality(EvalDays(fs[i])) <= Cardinality(EvalDays(fs[j])) + 1
                     /\ EvalDays(fs[i]) \subseteq ChildDays(q, fs[i])
                     /\ i < j => EvalDays(fs[j]) \cap ChildDays(q, fs[i]) = {}
                     /\ i <= j => \A d \in EvalDays(fs[j]) : d - fs[i].labelEnd > q.embargo
<1> DEFINE I == 1 .. q.folds
           Days(i) == es[i] .. es[i] + len[i] - 1
           EvalDays(f) == f.evalStart .. f.evalEnd
<1>1. /\ q.folds \in Nat /\ 1 \in I /\ q.folds \in I /\ q.start \in Int /\ q.end \in Int /\ q.embargo \in Nat
      /\ FirstEvalStart(q) \in Int /\ FirstEvalStart(q) > q.start
  BY DEF Accepted
<1>2. /\ \A i \in I : es[i] \in Int /\ len[i] \in Nat /\ len[i] >= 1
      /\ \A i, j \in I : len[i] <= len[j] + 1
      /\ es[1] = FirstEvalStart(q) /\ es[q.folds] + len[q.folds] = q.end + 1
      /\ \A i \in I : i # 1 => es[i] = es[i - 1] + len[i - 1]
      /\ \A i, j \in I : i < j => es[i] + len[i] <= es[j]
  BY DEF Tiled
<1>3. DOMAIN fs = I /\ \A i \in I : /\ EvalDays(fs[i]) = Days(i) /\ fs[i].evalStart = es[i]
                                    /\ fs[i].evalEnd = es[i] + len[i] - 1
                                    /\ fs[i].featureStart = q.start /\ fs[i].labelEnd = es[i] - q.embargo - 1
  BY DEF Planned
<1>4. \A i \in I : es[i] >= FirstEvalStart(q) /\ es[i] + len[i] <= q.end + 1
  <2>1. SUFFICES ASSUME NEW i \in I PROVE es[i] >= FirstEvalStart(q) /\ es[i] + len[i] <= q.end + 1
    OBVIOUS
  <2>2. i = 1 \/ 1 < i
    BY <1>1
  <2>3. i = q.folds \/ i < q.folds
    BY <1>1
  <2>4. es[i] >= FirstEvalStart(q)
    BY <1>1, <1>2, <2>2
  <2>5. es[i] + len[i] <= q.end + 1
    BY <1>1, <1>2, <2>3
  <2>. QED
    BY <2>4, <2>5
<1>5. ASSUME NEW d \in FirstEvalStart(q) .. q.end PROVE \E i \in I : d \in Days(i)
  <2> DEFINE L == {i \in I : d < es[i] + len[i]}
  <2>1. L \subseteq Nat /\ q.folds \in L
    BY <1>1, <1>2
  <2>2. PICK i \in L : \A m \in L : i <= m
    BY <2>1, LeastExists
  <2>3. i \in I /\ i \in Nat /\ d < es[i] + len[i] /\ ~(i <= i - 1)
    BY <1>1, <2>2
  <2>4. es[i] <= d
    <3>1. CASE i = 1
      BY <1>1, <1>2, <3>1
    <3>2. CASE i # 1
      <4>1. i - 1 \in I /\ i - 1 \notin L
        BY <1>1, <2>2, <2>3, <3>2
      <4>2. ~(d < es[i - 1] + len[i - 1])
        BY <4>1
      <4>3. es[i] = es[i - 1] + len[i - 1] /\ es[i] \in Int
        BY <1>2, <2>3, <3>2
      <4>. QED
        BY <1>1, <4>2, <4>3
    <3>. QED
      BY <3>1, <3>2
  <2>5. es[i] \in Int /\ len[i] \in Nat /\ d \in Int
    BY <1>1, <1>2, <2>3
  <2>. QED
    BY <2>3, <2>4, <2>5
<1>6. \A i \in I : \A d \in Days(i) : d \in FirstEvalStart(q) .. q.end
  BY <1>1, <1>2, <1>4
<1>7. UNION {EvalDays(fs[i]) : i \in DOMAIN fs} = fs[1].evalStart .. q.end
  <2>1. UNION {EvalDays(fs[i]) : i \in DOMAIN fs} = UNION {Days(i) : i \in I}
    BY <1>3
  <2>2. fs[1].evalStart = FirstEvalStart(q)
    BY <1>1, <1>2, <1>3
  <2> HIDE DEF Days, EvalDays, I
  <2>3. UNION {Days(i) : i \in I} = FirstEvalStart(q) .. q.end
    BY <1>5, <1>6
  <2>. QED
    BY <2>1, <2>2, <2>3
<1>8. ASSUME NEW i \in I, NEW j \in I
      PROVE  /\ i # j => Days(i) \cap Days(j) = {}
             /\ Cardinality(Days(i)) <= Cardinality(Days(j)) + 1
             /\ Days(i) \subseteq ChildDays(q, fs[i])
             /\ i < j => Days(j) \cap ChildDays(q, fs[i]) = {}
             /\ i <= j => \A d \in Days(j) : d - fs[i].labelEnd > q.embargo
  <2>1. /\ es[i] \in Int /\ es[j] \in Int /\ len[i] \in Nat /\ len[j] \in Nat /\ len[i] >= 1 /\ len[j] >= 1
        /\ len[i] <= len[j] + 1 /\ i \in Int /\ j \in Int
        /\ i < j => es[i] + len[i] <= es[j]
        /\ j < i => es[j] + len[j] <= es[i]
    BY <1>1, <1>2
  <2>2. ChildDays(q, fs[i]) = q.start .. es[i] + len[i] - 1 /\ fs[i].labelEnd = es[i] - q.embargo - 1
    BY <1>3 DEF ChildDays
  <2>3. es[i] >= q.start
    BY <1>1, <1>4, <2>1
  <2>4. i # j => Days(i) \cap Days(j) = {}
    BY <2>1
  <2>5. Cardinality(Days(i)) <= Cardinality(Days(j)) + 1
    <3>1. \A a \in Int, n \in Nat : n >= 1 => Cardinality(a .. a + n - 1) = n
      BY FS_Interval
    <3>. QED
      BY <2>1, <3>1
  <2>6. Days(i) \subseteq ChildDays(q, fs[i])
    BY <1>1, <2>1, <2>2, <2>3
  <2>7. ASSUME i < j, NEW d \in Days(j) PROVE d \notin ChildDays(q, fs[i])
    <3>1. d \in Int /\ d >= es[j] /\ es[i] + len[i] <= es[j]
      BY <2>1, <2>7
    <3>2. ~(d <= es[i] + len[i] - 1)
      BY <2>1, <3>1
    <3>. QED
      BY <1>1, <2>1, <2>2, <3>2
  <2>8. ASSUME i <= j, NEW d \in Days(j) PROVE d - fs[i].labelEnd > q.embargo
    <3>1. d \in Int /\ d >= es[j] /\ es[i] <= es[j]
      BY <2>1, <2>8
    <3>2. d - (es[i] - q.embargo - 1) > q.embargo
      BY <1>1, <2>1, <3>1
    <3>. QED
      BY <2>2, <3>2
  <2>. QED
    BY <2>4, <2>5, <2>6, <2>7, <2>8
<1>9. \A i, j \in DOMAIN fs :
         /\ i # j => EvalDays(fs[i]) \cap EvalDays(fs[j]) = {}
         /\ Cardinality(EvalDays(fs[i])) <= Cardinality(EvalDays(fs[j])) + 1
         /\ EvalDays(fs[i]) \subseteq ChildDays(q, fs[i])
         /\ i < j => EvalDays(fs[j]) \cap ChildDays(q, fs[i]) = {}
         /\ i <= j => \A d \in EvalDays(fs[j]) : d - fs[i].labelEnd > q.embargo
  <2> HIDE DEF Days, EvalDays
  <2>. QED
    BY <1>3, <1>8
<1>. QED
  BY <1>7, <1>9

\* The folds tile the range.
LEMMA FoldsTile ==
    ASSUME request \in PlanRequests
    PROVE  FoldsTileTheRange
<1> DEFINE q == request
           fs == PlanWalkForwardFolds(q)
           es == [i \in 1 .. q.folds |-> EvalStart(q, i)]
           len == [i \in 1 .. q.folds |-> FoldLength(q, i)]
<1>1. ASSUME fs # <<>>
      PROVE  LET EvalDays(f) == f.evalStart .. f.evalEnd
             IN  /\ UNION {EvalDays(fs[i]) : i \in DOMAIN fs} = fs[1].evalStart .. q.end
                 /\ \A i, j \in DOMAIN fs :
                       /\ i # j => EvalDays(fs[i]) \cap EvalDays(fs[j]) = {}
                       /\ Cardinality(EvalDays(fs[i])) <= Cardinality(EvalDays(fs[j])) + 1
                       /\ EvalDays(fs[i]) \subseteq ChildDays(q, fs[i])
                       /\ i < j => EvalDays(fs[j]) \cap ChildDays(q, fs[i]) = {}
                       /\ i <= j => \A d \in EvalDays(fs[j]) : d - fs[i].labelEnd > q.embargo
  <2>1. ~RequestRefused(q) /\ fs = [i \in 1 .. q.folds |-> Fold(q, i)]
    BY <1>1 DEF PlanWalkForwardFolds
  <2>2. Accepted(q)
    BY <2>1, AcceptedNumbers
  <2>3. Tiled(q, es, len)
    BY <2>2, FoldsFollow
  <2>4. Planned(q, fs, es, len)
    <3>1. DOMAIN fs = 1 .. q.folds /\ \A i \in 1 .. q.folds : fs[i] = Fold(q, i)
      BY <2>1
    <3>2. \A i \in 1 .. q.folds : es[i] = EvalStart(q, i) /\ len[i] = FoldLength(q, i)
      OBVIOUS
    <3> HIDE DEF fs, q, es, len
    <3>3. ASSUME NEW i \in 1 .. q.folds
          PROVE  /\ fs[i].evalStart = es[i] /\ fs[i].evalEnd = es[i] + len[i] - 1
                 /\ fs[i].featureStart = q.start /\ fs[i].labelEnd = es[i] - q.embargo - 1
      <4>1. fs[i] = [evalStart |-> es[i], evalEnd |-> es[i] + len[i] - 1,
                     featureStart |-> q.start, featureEnd |-> es[i] - 1,
                     labelStart |-> q.start, labelEnd |-> es[i] - q.embargo - 1,
                     embargoStart |-> es[i] - q.embargo, embargoEnd |-> es[i] - 1]
        BY <3>1, <3>2 DEF Fold
      <4>. QED
        BY <4>1
    <3>. QED
      BY <3>1, <3>3 DEF Planned
  <2> HIDE DEF fs, es, len, q
  <2>. QED
    BY <2>2, <2>3, <2>4, PlanTiles
<1>. QED
  BY <1>1 DEF FoldsTileTheRange

\* The warm-up is the earliest, and the checks in the loop repeat what the search found.
LEMMA WarmUpEarliest ==
    ASSUME request \in PlanRequests
    PROVE  WarmUpIsTheEarliest
<1> DEFINE q == request
           F == FirstEvalStart(q)
           warm(day) == /\ Cardinality(Whole(q.start, day - 1)) >= q.months
                        /\ \A n \in q.days : day - q.start >= n
<1>1. SUFFICES ASSUME ~RequestRefused(q)
               PROVE  /\ warm(F)
                      /\ \A day \in q.start .. F - 1 : ~warm(day)
                      /\ \A i \in 1 .. q.folds : FoldRefused(q, i) => Fold(q, i).labelEnd < q.start
  BY DEF WarmUpIsTheEarliest
<1>2. Accepted(q)
  BY <1>1, AcceptedNumbers
<1>3. /\ q.months \in Int /\ q.months >= 1 /\ q.start \in Int /\ q.days \subseteq Int /\ F \in Int /\ F > q.start
      /\ q.folds \in Nat
  BY <1>2 DEF Accepted
<1>4. PICK k \in Nat : WarmUp(q, k)
  BY <1>3, WarmUpFound
<1> DEFINE w == MonthStarts[k + q.months]
<1>5. w \in Int
  BY <1>4 DEF WarmUp
<1>6. /\ F >= w /\ \A n \in q.days : F - q.start >= n
      /\ \A day \in Int : day < F => day < w \/ \E n \in q.days : day - q.start < n
  BY <1>1, <1>4, FirstDay
<1>7. \A day \in Int : /\ day >= w => Cardinality(Whole(q.start, day - 1)) >= q.months
                       /\ day < w => Cardinality(Whole(q.start, day - 1)) < q.months
  BY <1>3, <1>4, WholeMonths
<1>8. \A a : Cardinality(Whole(q.start, a)) \in Nat
  <2>1. SUFFICES ASSUME NEW a PROVE Cardinality(Whole(q.start, a)) \in Nat
    OBVIOUS
  <2>2. IsFiniteSet(Months)
    BY CalendarOK, FS_Interval DEF Months
  <2>3. Whole(q.start, a) \in SUBSET Months
    BY DEF Whole
  <2>. QED
    BY <2>2, <2>3, FS_Subset, FS_CardinalityType
<1> HIDE DEF w, F, q
<1>9. warm(F)
  BY <1>3, <1>6, <1>7
<1>10. ASSUME NEW day \in q.start .. F - 1 PROVE ~warm(day)
  <2>1. day \in Int /\ day < F
    BY <1>3
  <2>2. CASE day < w
    <3>1. Cardinality(Whole(q.start, day - 1)) < q.months /\ Cardinality(Whole(q.start, day - 1)) \in Nat
      BY <1>7, <1>8, <2>1, <2>2
    <3>. QED
      BY <1>3, <3>1
  <2>3. CASE \E n \in q.days : day - q.start < n
    <3>1. PICK n \in q.days : day - q.start < n
      BY <2>3
    <3>2. n \in Int /\ ~(day - q.start >= n)
      BY <1>3, <2>1, <3>1
    <3>. QED
      BY <3>1, <3>2
  <2>. QED
    BY <1>6, <2>1, <2>2, <2>3
<1>11. ASSUME NEW i \in 1 .. q.folds, FoldRefused(q, i) PROVE Fold(q, i).labelEnd < q.start
  <2> DEFINE f == Fold(q, i)
             es == EvalStart(q, i)
  <2>1. f.featureStart = q.start /\ f.featureEnd = es - 1 /\ f.labelStart = q.start
    BY DEF Fold
  <2>2. es \in Int /\ es >= F
    <3> DEFINE starts == [j \in 1 .. q.folds |-> EvalStart(q, j)]
               len == [j \in 1 .. q.folds |-> FoldLength(q, j)]
    <3>1. Tiled(q, starts, len)
      BY <1>2, FoldsFollow
    <3>2. starts[i] = es /\ 1 \in 1 .. q.folds /\ (i = 1 \/ 1 < i)
      BY <1>3
    <3> HIDE DEF starts, len, es
    <3>3. /\ starts[i] \in Int /\ starts[1] = F /\ starts[1] \in Int /\ len[1] \in Nat
          /\ 1 < i => starts[1] + len[1] <= starts[i]
      BY <3>1, <3>2 DEF Tiled, F
    <3>. QED
      BY <3>2, <3>3
  <2> HIDE DEF f, es
  <2>3. ~(CountCompletedMonthlyCandles(f.featureStart, f.featureEnd) < q.months)
    <3>1. ~(es - 1 < q.start)
      BY <1>3, <2>2
    <3>2. CountCompletedMonthlyCandles(q.start, es - 1) = Cardinality(Whole(q.start, es - 1))
      BY <3>1 DEF CountCompletedMonthlyCandles, Whole
    <3>3. Cardinality(Whole(q.start, es - 1)) >= q.months /\ Cardinality(Whole(q.start, es - 1)) \in Nat
      BY <1>3, <1>5, <1>6, <1>7, <1>8, <2>2
    <3>. QED
      BY <1>3, <2>1, <3>2, <3>3
  <2>4. ~ \E n \in q.days : f.featureEnd - f.featureStart + 1 < n
    <3>1. ASSUME NEW n \in q.days PROVE ~(f.featureEnd - f.featureStart + 1 < n)
      <4>1. n \in Int /\ F - q.start >= n
        BY <1>3, <1>6
      <4>. QED
        BY <1>3, <2>1, <2>2, <4>1
    <3>. QED
      BY <3>1
  <2>. QED
    BY <1>11, <2>1, <2>3, <2>4 DEF FoldRefused, f
<1>. QED
  BY <1>9, <1>10, <1>11

\* Every plan is the one asked for (plan_walk_forward_folds), for every calendar and every
\* request: the folds tile the evaluable days, none of them sees what it evaluates or what a
\* later one does, and they begin on the earliest day that the warm-up allows.
THEOREM PlansSound == WalkForwardInit => PlansAreSound
BY FoldsTile, WarmUpEarliest DEF WalkForwardInit, PlansAreSound

=============================================================================
