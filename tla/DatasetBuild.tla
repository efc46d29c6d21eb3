----------------------------- MODULE DatasetBuild -----------------------------
(***************************************************************************)
(* From recordings to what the trainers read: the scripts 02 to 09 with     *)
(* feature_engineering.py, run one after the other by the two batches,      *)
(* 13_run_batch_dataset.py and 18_collect_normal_extended.py, which record  *)
(* their runs first (CollectRun).  Every script is a process that reads and *)
(* writes files below data/; a script that fails ends the batch.            *)
(***************************************************************************)
EXTENDS CollectRun

CONSTANTS
  SplitTag,   \* the split_tag of each row, "" for none
  Modes,      \* the --mode of 13 that are used
  Cleans,     \* whether --clean is given: {TRUE}, {FALSE} or both
  MaxBatches  \* bound on the batches

SplitNames == {"train", "val", "test"}

ASSUME SplitAssumption == SplitTag \in [Runs -> SplitNames \union {""}]
ASSUME ModesAssumption == /\ Modes \subseteq {"all", "collect-export", "rebuild-only"}
                          /\ Cleans \subseteq BOOLEAN
                          /\ MaxBatches \in Nat

VARIABLES
  batch,     \* the batch that is running
  batches,   \* batches started so far
  dirs,      \* the runs of script 18 that have a directory below data/raw
  catalog,   \* run_catalog: the metadata of each run imported
  spans,     \* interim/spans: spans_<run>
  cleaned,   \* interim/spans: spans_<run>_clean
  features,  \* trace_features and window_features
  labelled,  \* trace_features_labeled and window_features_labeled
  payloads,  \* rca/graph_payloads, by run
  tensors,   \* rca/graph_tensors, by run
  splits     \* splits/<name>_runs.txt

interim == <<spans, cleaned>>
processed == <<catalog, features, labelled, payloads, tensors>>
dataVars == <<batch, batches, dirs, interim, processed, splits>>
vars == <<collectVars, dataVars>>

Tables == {"trace", "window"}

\* A row of a feature table: a trace, or the traces of one phase of a run.
Feature == [run : Runs, at : 1 .. MaxClock, phase : Moments \union {"steady"},
            moments : SUBSET Moments]

NoGraph == [at |-> 0]

Empty == [t \in Tables |-> {}]

NoBatch == [pc |-> "none", script |-> "none", mode |-> "none", clean |-> FALSE, stop |-> FALSE,
            selected |-> {}, todo |-> {}, done |-> {}, failed |-> {}, stage |-> 0,
            since |-> 0, undisturbed |-> TRUE]

-----------------------------------------------------------------------------
(* feature_engineering.py *)

Imported == {r \in Runs : catalog[r] # NoMeta}

\* The label of a run the catalog has; the left join gives the others none.
Label(r) == IF r \in Imported /\ Fault(r) # "none" THEN 1 ELSE 0

\* Fault: the end of the fault is not looked at.
Phase_NoEnd(r, t, m) ==
  CASE r \notin Imported  -> "steady"
    [] r \in Imported /\ ~catalog[r].window -> IF Label(r) = 1 THEN "active" ELSE "steady"
    [] r \in Imported /\ catalog[r].window  -> IF t.at < catalog[r].at \/ m = "pre" THEN "pre" ELSE "active"

\* _phase_for_trace compares a trace with the window its row has now: traces of
\* an earlier recording are before that window.
Phase(r, t, m) ==
  CASE r \notin Imported  -> "steady"
    [] r \in Imported /\ ~catalog[r].window -> IF Label(r) = 1 THEN "active" ELSE "steady"
    [] r \in Imported /\ catalog[r].window  -> IF t.at < catalog[r].at THEN "pre" ELSE m

\* label_feature_table.
IsAnomaly(f) ==
  /\ Label(f.run) = 1
  /\ f.phase = "active" \/ (f.phase = "steady" /\ Fault(f.run) # "none")

Cleaned == {r \in Runs : cleaned[r] # NoTraces}

\* build_trace_features: one row for each trace.
TraceFeatures ==
  UNION {{[run |-> r, at |-> cleaned[r].at, phase |-> Phase(r, cleaned[r], m), moments |-> {m}] :
            m \in cleaned[r].moments} : r \in Cleaned}

\* build_window_features: one row for the traces of a phase, whose window_id is
\* that of the file and the phase.
WindowFeatures ==
  UNION {LET P(m) == Phase(r, cleaned[r], m) IN
         {[run |-> r, at |-> cleaned[r].at, phase |-> P(m),
           moments |-> {k \in cleaned[r].moments : P(k) = P(m)}] : m \in cleaned[r].moments} :
         r \in Cleaned}

\* The window a service graph of run r is built of: its active traces.
ActiveTraces(r) == {m \in cleaned[r].moments : Phase(r, cleaned[r], m) = "active"}

HasGraph(r) == r \in Cleaned /\ Label(r) = 1 /\ ActiveTraces(r) # {}

\* Fault: only services that show in the window become nodes.
Graph_NoRootNode(r) ==
  [at |-> cleaned[r].at, moments |-> ActiveTraces(r),
   root |-> cleaned[r].seen /\ "active" \in ActiveTraces(r)]

\* build_service_graphs: the target becomes a node even when it does not show in
\* the window, so root_cause_node_index is one of the nodes.
Graph(r) ==
  [at |-> cleaned[r].at, moments |-> ActiveTraces(r),
   root |-> Target(r) # None \/ (cleaned[r].seen /\ "active" \in ActiveTraces(r))]

-----------------------------------------------------------------------------
(* 09_make_splits.py *)

\* round() of n * num / den: the nearest integer, either one when there are two
\* (n * ratio is a floating-point product).
IsRounded(k, n, num, den) == 2 * (den * k - n * num) \in -den .. den

Least(a, b) == IF a < b THEN a ELSE b
Most(a, b) == IF a > b THEN a ELSE b

\* Fault: the split may leave train empty.
SplitCounts_NoFloor(n) ==
  {c \in [train : 0 .. n, val : 0 .. n] :
     /\ \E k \in 0 .. n : IsRounded(k, n, 7, 10) /\ c.train = IF n >= 3 THEN k ELSE n - 1
     /\ \E k \in 0 .. n : /\ IsRounded(k, n, 15, 100)
                          /\ c.val = Least(IF n >= 6 THEN k ELSE 0, n - c.train)}

\* How many of n runs of one scenario go to train and to val: 70 and 15 percent.
SplitCounts(n) ==
  {c \in [train : 0 .. n, val : 0 .. n] :
     /\ \E k \in 0 .. n : /\ IsRounded(k, n, 7, 10)
                          /\ c.train = Least(n, IF n >= 3 THEN Most(1, k) ELSE Most(1, n - 1))
     /\ \E k \in 0 .. n : /\ IsRounded(k, n, 15, 100)
                          /\ c.val = Least(IF n >= 6 THEN k ELSE 0, n - c.train)}

\* The runs of a scenario in a shuffled order.
Shuffles(group) ==
  {s \in [1 .. Cardinality(group) -> group] : \A i, j \in DOMAIN s : s[i] = s[j] => i = j}

\* The slices of a shuffled order.
Slices(s, c) ==
  [train |-> {s[i] : i \in {k \in DOMAIN s : k <= c.train}},
   val   |-> {s[i] : i \in {k \in DOMAIN s : c.train < k /\ k <= c.train + c.val}},
   test  |-> {s[i] : i \in {k \in DOMAIN s : c.train + c.val < k}}]

Untagged == {r \in Imported : SplitTag[r] = ""}

\* The untagged runs by fault type and root cause.
Groups == {{r \in Untagged : rows[r].fault = f} : f \in FaultRows} \ {{}}

\* Each group is divided; the runs with a valid tag go where it says.
SplitChoices ==
  LET Of(g) == {Slices(s, c) : s \in Shuffles(g), c \in SplitCounts(Cardinality(g))}
      All == {d \in [Groups -> UNION {Of(g) : g \in Groups}] : \A g \in Groups : d[g] \in Of(g)}
  IN {[x \in SplitNames |-> {r \in Imported : SplitTag[r] = x}
                              \union UNION {d[g][x] : g \in Groups}] : d \in All}

-----------------------------------------------------------------------------
(* The scripts that build the data set, on the runs of "part": a script that   *)
(* fails has done some of them.                                              *)

\* The rows of the metadata file the batch hands to script 02, and those of them
\* whose trace_file is found: 13 looks where 12 saves, 18 looks below data/raw,
\* where no file has that name.
Importable ==
  IF batch.script = "script 18" THEN {} ELSE {r \in Runs \ Extended : exports[r] # NoTraces}

RowMeta(r) == [at |-> rows[r].at, window |-> rows[r].window]

RawImported(part) ==
  [r \in Runs |-> IF r \in part \intersect Importable
                  THEN [traces |-> exports[r], meta |-> RowMeta(r)] ELSE raw[r]]

\* A run with metadata and a trace with spans; without one the spans of an
\* earlier recording stay.
Parsed(part) ==
  [r \in Runs |-> IF /\ r \in part
                     /\ raw[r].meta # NoMeta
                     /\ raw[r].traces # NoTraces
                     /\ raw[r].traces.moments # {}
                  THEN raw[r].traces ELSE spans[r]]

\* clean_spans drops incomplete traces, all of a moment among them, and spans,
\* all of the target among them.
Cleanings(part) ==
  {[r \in Runs |-> IF r \in part /\ spans[r] # NoTraces
                   THEN [spans[r] EXCEPT
                           !.moments = @ \intersect k[r],
                           !.seen = @ /\ "active" \in k[r]]
                   ELSE cleaned[r]] : k \in [Runs -> Coverages]}

GraphsBuilt(part) ==
  [r \in Runs |-> IF r \in part /\ HasGraph(r) THEN Graph(r) ELSE payloads[r]]

\* Every payload there is, of whatever build.
TensorsBuilt(part) ==
  [r \in Runs |-> IF r \in part /\ payloads[r] # NoGraph THEN payloads[r] ELSE tensors[r]]

At9(stage) == batch.pc = "rebuild" /\ batch.stage = stage

Done9 == batch' = [batch EXCEPT !.stage = @ + 1, !.pc = IF batch.stage = 9 THEN "rebuilt" ELSE @]

notData == <<collectVars, batches, dirs>>

\* 02_import_legacy_dataset.py: the catalog is written anew.
Import ==
  /\ At9(1)
  /\ raw' = RawImported(Runs)
  /\ catalog' = [r \in Runs |-> IF r \in Importable THEN RowMeta(r) ELSE NoMeta]
  /\ Done9
  /\ UNCHANGED <<cluster, job, rows, exports, failures, clock, batches, dirs,
                 interim, features, labelled, payloads, tensors, splits>>

\* 03_parse_traces.py.
ParseTraces ==
  /\ At9(2)
  /\ spans' = Parsed(Runs)
  /\ Done9
  /\ UNCHANGED <<notData, cleaned, processed, splits>>

\* 04_clean_spans.py.
CleanSpans ==
  /\ At9(3)
  /\ cleaned' \in Cleanings(Runs)
  /\ Done9
  /\ UNCHANGED <<notData, spans, processed, splits>>

\* 05_build_trace_features.py, 05b_build_window_features.py: tables of all the
\* cleaned spans there are.
BuildFeatures(stage, table, content) ==
  /\ At9(stage)
  /\ features' = [features EXCEPT ![table] = content]
  /\ Done9
  /\ UNCHANGED <<notData, interim, catalog, labelled, payloads, tensors, splits>>

\* 06_label_anomaly.py: both tables.
LabelFeatures ==
  /\ At9(6)
  /\ labelled' = [t \in Tables |-> {[row |-> f, is_anomaly |-> IsAnomaly(f)] : f \in features[t]}]
  /\ Done9
  /\ UNCHANGED <<notData, interim, catalog, features, payloads, tensors, splits>>

\* 07_build_service_graphs.py.  A catalog without rows has no run_id column: the
\* first table of spans makes the script fail.
BuildGraphs ==
  /\ At9(7)
  /\ IF Imported = {} /\ \E r \in Cleaned : cleaned[r].moments # {}
     THEN batch' = [batch EXCEPT !.pc = "died"] /\ UNCHANGED payloads
     ELSE payloads' = GraphsBuilt(Runs) /\ Done9
  /\ UNCHANGED <<notData, interim, catalog, features, labelled, tensors, splits>>

\* 08_export_graph_dataset.py.
ExportTensors ==
  /\ At9(8)
  /\ tensors' = TensorsBuilt(Runs)
  /\ Done9
  /\ UNCHANGED <<notData, interim, catalog, features, labelled, payloads, splits>>

\* 09_make_splits.py.
MakeSplits ==
  /\ At9(9)
  /\ splits' \in SplitChoices
  /\ Done9
  /\ UNCHANGED <<notData, interim, processed>>

\* A script fails, having done some of the runs; run_python raises and the
\* batch ends.
ScriptFails ==
  /\ batch.pc = "rebuild"
  /\ failures < MaxFailures
  /\ failures' = failures + 1
  /\ batch' = [batch EXCEPT !.pc = "died"]
  /\ \E part \in SUBSET Runs :
       /\ raw' = IF At9(1) THEN RawImported(part) ELSE raw
       /\ spans' = IF At9(2) THEN Parsed(part) ELSE spans
       /\ cleaned' \in IF At9(3) THEN Cleanings(part) ELSE {cleaned}
       /\ payloads' = IF At9(7) THEN GraphsBuilt(part) ELSE payloads
       /\ tensors' = IF At9(8) THEN TensorsBuilt(part) ELSE tensors
  /\ UNCHANGED <<cluster, job, rows, exports, clock, batches, dirs,
                 catalog, features, labelled, splits>>

-----------------------------------------------------------------------------
(* The batches *)

Over == batch.pc \in {"none", "rebuilt", "finished", "died"}

Undisturbed == \A s \in Services : ~Disturbed(s)

\* main of 13_run_batch_dataset.py: the rows that are selected are recorded in
\* the file's order, unless the data set is only rebuilt.
StartBatch ==
  /\ Over
  /\ batches < MaxBatches
  /\ batches' = batches + 1
  /\ \E mode \in Modes, selected \in SUBSET (Runs \ Extended) \ {{}},
        clean \in Cleans, stop \in BOOLEAN :
       /\ mode # "rebuild-only" => clock + Cardinality(selected) <= MaxClock
       /\ batch' = [NoBatch EXCEPT
                      !.pc = "collect", !.script = "script 13", !.mode = mode, !.clean = clean,
                      !.stop = stop, !.selected = selected, !.since = clock,
                      !.todo = IF mode = "rebuild-only" THEN {} ELSE selected,
                      !.undisturbed = Undisturbed]
  /\ UNCHANGED <<collectVars, dirs, interim, processed, splits>>

\* main of 18_collect_normal_extended.py: run ids no directory of data/raw has
\* (find_next_seq).
StartExtended ==
  /\ Over
  /\ batches < MaxBatches
  /\ batches' = batches + 1
  /\ \E rebuild \in {m \in {"all", "collect-export"} : m \in Modes} :
       LET fresh == Extended \ dirs IN
       /\ fresh # {} /\ clock + Cardinality(fresh) <= MaxClock
       /\ batch' = [NoBatch EXCEPT
                      !.pc = "collect", !.script = "script 18", !.mode = rebuild,
                      !.selected = fresh, !.todo = fresh, !.since = clock,
                      !.undisturbed = Undisturbed]
  /\ UNCHANGED <<collectVars, dirs, interim, processed, splits>>

NextRun ==
  /\ batch.pc = "collect" /\ job = NoJob
  /\ \E r \in batch.todo :
       /\ StartRun(r, IF batch.script = "script 18" THEN "script 18" ELSE "script 11")
       /\ batch' = [batch EXCEPT !.todo = @ \ {r}]
       /\ dirs' = dirs \union ({r} \intersect Extended)
  /\ UNCHANGED <<batches, interim, processed, splits>>

\* Fault: the run is forgotten before it is noted.
RunEnds_ForgetsFirst ==
  /\ job.pc \in {"done", "failed", "skipped"}
  /\ job' = NoJob
  /\ batch' = CASE job.pc = "done"    -> [batch EXCEPT !.done = @ \union {job'.run}]
                 [] job.pc = "skipped" -> batch
                 [] job.pc = "failed"  -> [batch EXCEPT !.failed = @ \union {job'.run},
                                                       !.pc = IF batch.stop THEN "died" ELSE @]
  /\ UNCHANGED <<cluster, files, failures, clock, batches, dirs, interim, processed, splits>>

\* A run that fails is noted and the next one is taken, or the batch ends.
RunEnds ==
  /\ job.pc \in {"done", "failed", "skipped"}
  /\ job' = NoJob
  /\ batch' = CASE job.pc = "done"    -> [batch EXCEPT !.done = @ \union {job.run}]
                 [] job.pc = "skipped" -> batch
                 [] job.pc = "failed"  -> [batch EXCEPT !.failed = @ \union {job.run},
                                                       !.pc = IF batch.stop THEN "died" ELSE @]
  /\ UNCHANGED <<cluster, files, failures, clock, batches, dirs, interim, processed, splits>>

Recorded == batch.pc = "collect" /\ batch.todo = {} /\ job = NoJob

\* Fault: the data set is rebuilt although a run failed.
Rebuilds_Ungated == batch.mode # "collect-export"

Rebuilds == batch.mode # "collect-export" /\ batch.failed = {}

AfterRuns == [batch EXCEPT !.pc = IF Rebuilds THEN "rebuild" ELSE "finished", !.stage = 1]

\* The end of the recordings.  The metadata file script 18 writes now names trace
\* files that do not exist (see Importable).
EndRecording ==
  /\ Recorded /\ ~(batch.clean /\ Rebuilds)
  /\ batch' = AfterRuns
  /\ UNCHANGED <<collectVars, batches, dirs, interim, processed, splits>>

NoRaw == [r \in Runs |-> [traces |-> NoTraces, meta |-> NoMeta]]

\* clean_local_dataset_roots: data/raw, data/interim, data/processed, data/splits.
CleanRoots ==
  /\ Recorded /\ batch.clean /\ Rebuilds
  /\ batch' = AfterRuns
  /\ raw' = NoRaw
  /\ spans' = [r \in Runs |-> NoTraces]
  /\ cleaned' = [r \in Runs |-> NoTraces]
  /\ catalog' = [r \in Runs |-> NoMeta]
  /\ features' = Empty /\ labelled' = Empty
  /\ payloads' = [r \in Runs |-> NoGraph]
  /\ tensors' = [r \in Runs |-> NoGraph]
  /\ splits' = [x \in SplitNames |-> {}]
  /\ dirs' = {}
  /\ UNCHANGED <<cluster, job, rows, exports, failures, clock, batches>>

Init ==
  /\ CollectInit
  /\ batch = NoBatch /\ batches = 0 /\ dirs = {}
  /\ catalog = [r \in Runs |-> NoMeta]
  /\ spans = [r \in Runs |-> NoTraces]
  /\ cleaned = [r \in Runs |-> NoTraces]
  /\ features = Empty /\ labelled = Empty
  /\ payloads = [r \in Runs |-> NoGraph]
  /\ tensors = [r \in Runs |-> NoGraph]
  /\ splits = [x \in SplitNames |-> {}]

Rebuild ==
  \/ Import \/ ParseTraces \/ CleanSpans
  \/ BuildFeatures(4, "trace", TraceFeatures)
  \/ BuildFeatures(5, "window", WindowFeatures)
  \/ LabelFeatures \/ BuildGraphs \/ ExportTensors \/ MakeSplits
  \/ ScriptFails

Next ==
  \/ StartBatch \/ StartExtended
  \/ NextRun \/ (CollectStep /\ UNCHANGED dataVars) \/ RunEnds
  \/ EndRecording \/ CleanRoots
  \/ Rebuild

Spec == Init /\ [][Next]_vars

-----------------------------------------------------------------------------
(* Properties *)

\* The types of the variables the batches decide by; the records of the cluster
\* and the tables of the data set are sets of the shapes defined above.
TypeOK ==
  /\ config \in [Services -> Config]
  /\ replicas \in [Services -> Nat]
  /\ job.run \in Runs \union {None}
  /\ rows \in [Runs -> Row]
  /\ \A r \in Runs : /\ {raw[r].traces, exports[r], spans[r], cleaned[r]}
                            \subseteq Recording \union {NoTraces}
                     /\ {raw[r].meta, catalog[r]} \subseteq Meta \union {NoMeta}
  /\ \A t \in Tables : features[t] \subseteq Feature
  /\ batch.stage \in 0 .. 10 /\ batch.todo \union batch.done \union batch.failed \subseteq Runs
  /\ splits \in [SplitNames -> SUBSET Runs]

Rebuilt == batch.pc = "rebuilt"

\* When script 11 has finished a run of a fault, the target is configured as it
\* was found, whatever an earlier run left behind (11_collect_run.py).
CompletedRunRestores ==
  (job.kind = "script 11" /\ job.pc \in {"export", "done"} /\ Target(job.run) # None)
  => config[Target(job.run)] = job.found

\* Between runs no fault is in force, unless some command failed: every
\* injection undoes what it did, and what it did only (11_collect_run.py).
LeftoversNeedFailure == failures = 0 /\ Idle => Undisturbed

\* After a batch that records, cleans and rebuilds, started on an undisturbed
\* cluster, a row of a feature table is labelled an anomaly exactly when all its
\* traces are of the time a fault of its own run was injected, and no fault of
\* another run was in force then (13, 02 to 06; _phase_for_trace and
\* label_feature_table).
LabelsTellTheTruth ==
  (Rebuilt /\ batch.mode = "all" /\ batch.clean /\ batch.undisturbed)
  => \A t \in Tables : \A l \in labelled[t] : l.row.run \in batch.selected =>
       LET c == cleaned[l.row.run] IN
       /\ l.is_anomaly <=> c.injected /\ l.row.moments = {"active"}
       /\ l.row.at = c.at /\ ~c.foreign

\* After a rebuild that cleaned, the graphs a trainer of root causes reads are of
\* runs of the catalog, built from the traces data/raw has now, and name a root
\* cause that is one of their nodes (07, 08, build_service_graphs).
GraphsAreCurrent ==
  (Rebuilt /\ batch.clean) =>
    \A r \in Runs : tensors[r] # NoGraph =>
      /\ r \in Imported /\ tensors[r].at = raw[r].traces.at
      /\ tensors[r].root /\ tensors[r] = payloads[r]

\* After a rebuild the splits divide the catalog, and a scenario without tags is
\* trained on, and tested on when it has more than one run (09_make_splits.py).
SplitsCoverCatalog ==
  Rebuilt =>
    /\ UNION {splits[x] : x \in SplitNames} = Imported
    /\ \A x, y \in SplitNames : x # y => splits[x] \intersect splits[y] = {}
    /\ \A g \in Groups : /\ g \intersect splits["train"] # {}
                         /\ Cardinality(g) > 1 => g \intersect splits["test"] # {}

\* A batch of script 13 that records and rebuilds ends with every run it selected
\* in the catalog, the row, the metadata and the traces all of one recording this
\* batch made (13, 11, 12, 02).
SelectedRunsImported ==
  (Rebuilt /\ batch.mode = "all" /\ batch.script = "script 13") =>
    \A r \in batch.selected :
      /\ r \in Imported /\ catalog[r] = raw[r].meta /\ catalog[r] = RowMeta(r)
      /\ raw[r].traces.at = rows[r].at /\ rows[r].at > batch.since
=============================================================================
