------------------------------ MODULE Retraining ------------------------------
(***************************************************************************)
(* What is built around the training scripts: the runs of the Airflow DAG   *)
(* (aiops_retraining_candidate_lifecycle.py) and of                         *)
(* tools/run_feedback_retraining_cycle.py, which train an anomaly and an    *)
(* RCA candidate and bundle them for review, the promotion of a candidate,  *)
(* and the two services that load the files of a model directory while      *)
(* others may be writing them.                                              *)
(***************************************************************************)
EXTENDS Training

CONSTANTS
  Flows,      \* the runs of the DAG and of the script
  FlowKinds,  \* what a run may be: "dag", "script"
  FlowDir,    \* the directory a run trains each task into, named after the run
  MaxRestarts \* bound on the starts of the services

ASSUME FlowsAssumption ==
  /\ FlowKinds \subseteq {"dag", "script"}
  /\ FlowDir \in [Flows -> [Tasks -> Dirs]]
  /\ \A w \in Flows, t \in Tasks : TaskOf[FlowDir[w][t]] = t
  /\ \A v, w \in Flows, t \in Tasks : FlowDir[v][t] = FlowDir[w][t] => v = w
ASSUME BoundsAssumption == MaxRestarts \in Nat

VARIABLES
  flow,       \* where each run is and its attempts
  production, \* the directory in production, by task ("" for none)
  server,     \* the anomaly service and the RCA service
  restarts    \* starts of the services so far

flowVars == <<flow, production>>
serveVars == <<server, restarts>>
vars == <<trainVars, flowVars, serveVars>>

NoFlow == [pc |-> "none", of |-> "", anomaly |-> 0, rca |-> 0]

-----------------------------------------------------------------------------
(* The runs *)

\* start and validate_training_inputs: when an input is missing the run fails.
\* The feedback of a run is exported next (DashboardStore).
StartFlow(w) ==
  /\ flow[w].pc = "none"
  /\ \E k \in FlowKinds : flow' = [flow EXCEPT ![w].pc = "export", ![w].of = k]
  /\ UNCHANGED <<trainVars, production, serveVars>>

ExportFeedback(w) ==
  /\ flow[w].pc = "export"
  /\ \E pc \in {"train", "failed"} : flow' = [flow EXCEPT ![w].pc = pc]
  /\ UNCHANGED <<trainVars, production, serveVars>>

\* One of the two trainings of a run starts.  The tasks of the DAG do not wait for
\* each other; the script trains the RCA model when the anomaly model is done.
StartTraining(w, t) ==
  /\ flow[w].pc = "train" /\ flow[w][t] = 0
  /\ flow[w].of = "script" /\ t = "rca" => flow[w].anomaly # 0 /\ att[flow[w].anomaly].pc = "done"
  /\ IF t = "anomaly" THEN StartAnomaly(FlowDir[w][t]) ELSE StartRca(FlowDir[w][t])
  /\ flow' = [flow EXCEPT ![w][t] = attempts + 1]
  /\ UNCHANGED <<production, serveVars>>

Died(w, t) == flow[w][t] # 0 /\ att[flow[w][t]].pc = "dead"

\* Fault: the run waits for both of its trainings to fail.
FlowFails_Both(w) ==
  /\ flow[w].pc = "train"
  /\ \A t \in Tasks : Died(w, t)
  /\ flow' = [flow EXCEPT ![w].pc = "failed"]
  /\ UNCHANGED <<trainVars, production, serveVars>>

\* _run_python raises for a training that failed; retries is 0.  The script ends
\* there, and the DAG runs the other training to its end as well.
FlowFails(w) ==
  /\ flow[w].pc = "train"
  /\ \E t \in Tasks : Died(w, t)
  /\ flow[w].of = "dag" => \A t \in Tasks : flow[w][t] # 0 /\ ~Running(flow[w][t])
  /\ flow' = [flow EXCEPT ![w].pc = "failed"]
  /\ UNCHANGED <<trainVars, production, serveVars>>

\* Fault: the bundle does not wait for the RCA candidate.
Trained_AnomalyOnly(w) == flow[w].anomaly # 0 /\ att[flow[w].anomaly].pc = "done"

Trained(w) == \A t \in Tasks : flow[w][t] # 0 /\ att[flow[w][t]].pc = "done"

\* build_registry_review_bundle; then the run waits at manual_promotion_gate, and
\* the script ends.
BuildBundle(w) ==
  /\ flow[w].pc = "train" /\ Trained(w)
  /\ flow' = [flow EXCEPT ![w].pc = "bundled"]
  /\ UNCHANGED <<trainVars, production, serveVars>>

\* A failed run of the DAG is cleared in Airflow, all of it or its failed tasks: the
\* same logical date gives the same directories.
ClearFlow(w) ==
  /\ flow[w].of = "dag" /\ flow[w].pc = "failed"
  /\ attempts < MaxAttempts
  /\ \/ flow' = [flow EXCEPT ![w] = [@ EXCEPT !.pc = "export", !.anomaly = 0, !.rca = 0]]
     \/ /\ \E t \in Tasks : Died(w, t)
        /\ flow' = [flow EXCEPT ![w] =
             [t \in DOMAIN @ |-> IF t = "pc" THEN "train"
                                ELSE IF t \in Tasks /\ Died(w, t) THEN 0
                                ELSE @[t]]]
  /\ UNCHANGED <<trainVars, production, serveVars>>

\* promote_model: see ModelRegistry.
Promote(d) ==
  /\ candidates[d] # 0 /\ production[TaskOf[d]] # d
  /\ production' = [production EXCEPT ![TaskOf[d]] = d]
  /\ UNCHANGED <<trainVars, flow, serveVars>>

-----------------------------------------------------------------------------
(* The services: anomaly_service/model_loader.py, rca_service/model_loader.py  *)

NoServer == [pc |-> "down", dir |-> "", config |-> 0, rest |-> {}, seen |-> {}]

\* Every attempt in d has run to its end.
Quiet(d) == \A a \in Of(d) : att[a].pc = "done"

\* The attempts that have left what a reader of d finds; none when it may not last.
Settled(d) == IF Quiet(d) THEN Of(d) ELSE {}

\* _resolve_default_artifact_dir, load_model_registry: the production model, or a
\* candidate when there is none.
Resolved(t) ==
  IF production[t] # "" THEN {production[t]}
  ELSE {d \in Dirs : TaskOf[d] = t /\ candidates[d] # 0}

\* The service starts: it resolves the directory; without one it does not come up.
StartServer(t) ==
  /\ restarts < MaxRestarts
  /\ restarts' = restarts + 1
  /\ \E d \in Resolved(t) : server' = [server EXCEPT ![t] = [NoServer EXCEPT !.pc = "resolved", !.dir = d]]
  /\ UNCHANGED <<trainVars, flowVars>>

Readable(d, S) == \A f \in S : content[d][f] \notin {NoFile, Torn}

\* inference_config.json is read before all others; the RCA service reads it at the
\* first request.
ReadConfig(t) ==
  /\ server[t].pc = "resolved"
  /\ LET d == server[t].dir IN
     server' = [server EXCEPT ![t] =
       IF Readable(d, {"config"})
       THEN [@ EXCEPT !.pc = "config", !.config = content[d].config, !.seen = Settled(d)]
       ELSE NoServer]
  /\ UNCHANGED <<trainVars, flowVars, restarts>>

\* The files the configuration names: those of the attempt that wrote it.
Named(t, a) ==
  IF t = "rca" THEN {"model_config", "weights"}
  ELSE {"columns", "imputer"} \union
       (IF Cardinality(att[a].models) = 2 THEN {"model_xgb", "model_lgbm"} ELSE {"model"})

\* load_artifacts, to its end.  The RCA service keeps what it has loaded in
\* MODEL_CACHE for as long as it runs.
LoadModel(t) ==
  /\ server[t].pc = "config"
  /\ LET d == server[t].dir
         S == Named(t, server[t].config)
         seen == server[t].seen
     IN server' = [server EXCEPT ![t] =
          IF Readable(d, S)
          THEN [@ EXCEPT !.pc = "up", !.rest = {content[d][f] : f \in S},
                         !.seen = IF seen = Settled(d) THEN seen ELSE {}]
          ELSE NoServer]
  /\ UNCHANGED <<trainVars, flowVars, restarts>>

-----------------------------------------------------------------------------

Init ==
  /\ TrainInit
  /\ flow = [w \in Flows |-> NoFlow]
  /\ production = [t \in Tasks |-> ""]
  /\ server = [t \in Tasks |-> NoServer]
  /\ restarts = 0

FlowStep(w) ==
  \/ StartFlow(w) \/ ExportFeedback(w)
  \/ \E t \in Tasks : StartTraining(w, t)
  \/ FlowFails(w) \/ BuildBundle(w)

ServeStep(t) == ReadConfig(t) \/ LoadModel(t)

Next ==
  \/ \E a \in Attempts : (TrainStep(a) \/ Die(a)) /\ UNCHANGED <<flowVars, serveVars>>
  \/ \E w \in Flows : FlowStep(w) \/ ClearFlow(w)
  \/ \E d \in Dirs : Promote(d)
  \/ \E t \in Tasks : StartServer(t) \/ ServeStep(t)

Spec == Init /\ [][Next]_vars

\* A training process runs on until it ends or is killed, and Airflow's scheduler
\* starts and ends the tasks of its runs.
Fairness ==
  /\ \A a \in Attempts : WF_vars(TrainStep(a) /\ UNCHANGED <<flowVars, serveVars>>)
  /\ \A w \in Flows : WF_vars(ExportFeedback(w)) /\ WF_vars(FlowFails(w)) /\ WF_vars(BuildBundle(w))
  /\ \A w \in Flows, t \in Tasks : WF_vars(StartTraining(w, t))

FairSpec == Spec /\ Fairness

-----------------------------------------------------------------------------
(* Properties *)

TypeOK ==
  /\ attempts \in 0 .. MaxAttempts
  /\ \A a \in Attempts : /\ att[a].device # "" => Len(att[a].scores) <= Epochs
                         /\ att[a].best \in 0 .. Epochs /\ att[a].kept \in 0 .. Epochs
                         /\ att[a].written \in 0 .. 8 /\ att[a].models \subseteq Fits
                         /\ a > attempts => att[a] = NoAttempt
  /\ content \in [Dirs -> [Files -> Attempts \union {NoFile, Torn}]]
  /\ candidates \in [Dirs -> 0 .. MaxAttempts]
  /\ \A w \in Flows : flow[w].anomaly \in 0 .. attempts /\ flow[w].rca \in 0 .. attempts
  /\ production \in [Tasks -> Dirs \union {""}]

\* The model an attempt saves scores at least as much as every model it fitted; an
\* ensemble is of one model of each kind (27_train_anomaly.py main).
ChosenIsBest ==
  \A a \in Attempts : att[a].models # {} /\ att[a].scores # <<>> =>
    LET t == att[a]
        fitted == {i \in DOMAIN t.scores : t.scores[i] # Failed}
    IN /\ t.models \subseteq fitted
       /\ \A i \in fitted :
            IF Cardinality(t.models) = 2 THEN t.scores[i] <= t.ensemble
            ELSE \A m \in t.models : t.scores[i] <= t.scores[m]
       /\ Cardinality(t.models) = 2 => {Kinds[m] : m \in t.models} = {"xgb", "lgbm"}

\* The RCA script stops after Epochs epochs or as soon as Patience of them have not
\* been better than the best one, which is the first of the highest score; on a
\* device that is not the CPU its parameters are those it saves (28 main).
StopsAtPatience ==
  \A a \in Attempts : att[a].pc = "write" /\ att[a].best # 0 /\ att[a].scores # <<>> =>
    LET t == att[a]
        n == Len(t.scores)
    IN /\ n = Epochs \/ n = t.best + Patience
       /\ n <= t.best + Patience
       /\ \A i \in 1 .. n : t.scores[i] < t.scores[t.best] \/ (t.scores[i] = t.scores[t.best] /\ t.best <= i)
       /\ t.device = "cuda" => t.kept = t.best

\* best_model.pt holds the parameters of the epoch metrics.json calls the best one.
SavedModelIsBest ==
  \A a \in Attempts : att[a].pc = "write" /\ att[a].best # 0 => att[a].kept = att[a].best

\* A directory whose attempts all ended, one after the other, is registered, and has
\* every file its configuration names, of the attempt that registered it last
\* (27 and 28: set_stage comes after the files, and nothing is kept of the attempt before).
RegisteredIsComplete ==
  \A d \in Dirs : Settled(d) # {} =>
    /\ candidates[d] # 0
    /\ \A f \in {"config", "metrics", "manifest"} \union Named(TaskOf[d], candidates[d]) :
         content[d][f] = candidates[d]

\* A service that loads a directory while no attempt is at work in it, and where none
\* has failed, serves a model whose files are all of one attempt (the model_loader
\* modules, which read the files one by one).
LoadedIsOneAttempt ==
  \A t \in Tasks : server[t].pc = "up" /\ server[t].seen # {} => server[t].rest = {server[t].config}

\* What is bundled for review are two candidates, both complete and registered by
\* the run itself, unless a cleared or later attempt works on them again
\* (the DAG's candidate_training >> review_bundle; the script's order).
BundleHasBothCandidates ==
  \A w \in Flows, t \in Tasks : flow[w].pc = "bundled" =>
    /\ flow[w][t] # 0 /\ att[flow[w][t]].pc = "done"
    /\ candidates[FlowDir[w][t]] = flow[w][t]

\* A run that is started ends, with a bundle or failed, whatever becomes of its
\* trainings: no task waits for one that never comes (the DAG's chain of tasks).
EveryRunEnds ==
  \A w \in Flows : flow[w].pc # "none" ~> (flow[w].pc \in {"bundled", "failed"} \/ attempts = MaxAttempts)
=============================================================================
