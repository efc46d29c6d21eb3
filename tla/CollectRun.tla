------------------------------ MODULE CollectRun ------------------------------
(***************************************************************************)
(* Recording one run of the system for the data set: the scripts            *)
(* 11_collect_run.py (inject a fault, take it back, note the times),        *)
(* 12_export_jaeger_run.py (save the traces of those times) and the         *)
(* collect_one_run of 18_collect_normal_extended.py (the same for a normal  *)
(* run, in one process).  All of them change the cluster by kubectl         *)
(* commands, any of which may fail, and none takes back what it did when a  *)
(* later command fails.                                                     *)
(***************************************************************************)
EXTENDS Integers, FiniteSets

CONSTANTS
  Runs,        \* the run ids of the metadata file
  Extended,    \* those of them that script 18 plans
  Services,    \* the deployments of the system
  Frontend,    \* the only target http-500 has an injector for
  None,        \* no service, no run
  FaultRows,   \* the <<fault_type, fault_target_service>> a row may have
  Replicas0,   \* the replica counts a deployment may start with
  Coverages,   \* the moments of a recording that its traces may cover
  PodKills,    \* pod_kill_repeats
  MaxFailures, \* bound on the commands that fail
  MaxClock     \* bound on the recordings

Stresses == {"cpu-stress", "memory-stress"}
Proxied == {"latency-injection", "timeout"}
FaultTypes == {"none", "pod-kill", "replica-drop", "http-500"} \union Stresses \union Proxied

ASSUME RunsAssumption ==
  IsFiniteSet(Runs) /\ None \notin Runs \union Services /\ Extended \subseteq Runs
ASSUME RowsAssumption ==
  /\ FaultRows \subseteq FaultTypes \X (Services \union {None})
  /\ \A f \in FaultRows : /\ f[1] = "none" <=> f[2] = None
                          /\ f[1] = "http-500" => f[2] = Frontend
ASSUME ReplicasAssumption == Replicas0 \subseteq Nat \ {0}
ASSUME BoundsAssumption == PodKills \in Nat \ {0} /\ MaxFailures \in Nat /\ MaxClock \in Nat

VARIABLES
  config,    \* what each deployment and its service are configured to
  replicas,  \* spec.replicas of each deployment
  proxies,   \* the fault proxy pods that exist
  job,       \* the collection that is running
  rows,      \* the metadata file: what a run's row says
  raw,       \* data/raw/<run>: its traces and its run_meta.json
  exports,   \* the trace files of script 12
  failures,  \* commands that failed so far
  clock      \* recordings so far; it stands for the time

cluster == <<config, replicas, proxies>>
files == <<rows, raw, exports>>
collectVars == <<cluster, job, files, failures, clock>>

\* The moments of a recording relative to its fault.
Moments == {"pre", "active", "recovery"}

ASSUME CoveragesAssumption == Coverages \subseteq SUBSET Moments

\* The resources that are stressed, a bad environment, and where the service's
\* selector points.
Config == [resources : SUBSET Stresses, badEnv : BOOLEAN, selector : {"app"} \union Proxied]

Deployed == [resources |-> {}, badEnv |-> FALSE, selector |-> "app"]

\* A row: its scenario, the time of its recording (0: none) and whether it has
\* fault_start_time and fault_end_time.
Row == [fault : FaultRows, at : 0 .. MaxClock, window : BOOLEAN]

\* The traces of a recording: its time, the moments they cover, whether the
\* target shows in the active ones, whether a fault was injected, and whether
\* some other fault was in force, which nothing in the files tells.
Recording == [at : 1 .. MaxClock, moments : SUBSET Moments, seen : BOOLEAN,
              injected : BOOLEAN, foreign : BOOLEAN]

NoTraces == [at |-> 0]

Meta == [at : 0 .. MaxClock, window : BOOLEAN]

NoMeta == [at |-> -1]

NoJob == [run |-> None, pc |-> "none", kind |-> "none", kept |-> Deployed, keptReplicas |-> 1,
          kills |-> 0, found |-> Deployed, foreign |-> FALSE]

Fault(r) == rows[r].fault[1]
Target(r) == rows[r].fault[2]

Disturbed(s) == config[s] # Deployed \/ replicas[s] = 0

At(step) == job.pc = step

Ok(step) ==
  /\ job' = [job EXCEPT !.pc = step]
  /\ UNCHANGED failures

Fails ==
  /\ failures < MaxFailures
  /\ failures' = failures + 1
  /\ job' = [job EXCEPT !.pc = "failed"]

\* A checked kubectl command that changes a deployment's configuration: when it
\* fails, or the wait for its rollout does, the change may or may not be made.
Configure(s, c, step) ==
  /\ \/ config' = [config EXCEPT ![s] = c] /\ Ok(step)
     \/ config' \in {config, [config EXCEPT ![s] = c]} /\ Fails
  /\ UNCHANGED <<replicas, proxies, files, clock>>

\* scale_deployment, likewise.
ScaleDeployment(s, n, step) ==
  /\ \/ replicas' = [replicas EXCEPT ![s] = n] /\ Ok(step)
     \/ replicas' \in {replicas, [replicas EXCEPT ![s] = n]} /\ Fails
  /\ UNCHANGED <<config, proxies, files, clock>>

-----------------------------------------------------------------------------
(* 11_collect_run.py *)

CollectInit ==
  /\ config = [s \in Services |-> Deployed]
  /\ replicas \in [Services -> Replicas0]
  /\ proxies = {}
  /\ job = NoJob
  /\ \E f \in [Runs -> FaultRows] :
       /\ \A r \in Extended : f[r] = <<"none", None>>
       /\ rows = [r \in Runs |-> [fault |-> f[r], at |-> 0, window |-> FALSE]]
  /\ raw = [r \in Runs |-> [traces |-> NoTraces, meta |-> NoMeta]]
  /\ exports = [r \in Runs |-> NoTraces]
  /\ failures = 0
  /\ clock = 0

FirstStep(r) == IF Fault(r) = "pod-kill" THEN "scale" ELSE "load"

\* The start of a collection, and what the target is configured to then.
StartRun(r, kind) ==
  /\ clock < MaxClock
  /\ job' = [NoJob EXCEPT !.run = r, !.kind = kind,
                          !.pc = IF kind = "script 18" THEN "load" ELSE FirstStep(r),
                          !.found = IF kind = "script 18" \/ Target(r) = None
                                    THEN Deployed ELSE config[Target(r)]]
  /\ UNCHANGED <<cluster, files, failures, clock>>

ScaleForPodKill ==
  /\ At("scale")
  /\ ScaleDeployment(Target(job.run), 1, "load")

\* disable_builtin_loadgen, start_loadgen and the warm-up.  The pods that make the
\* load leave no trace in the data, so they are not kept.
StartLoadgen ==
  /\ At("load")
  /\ Ok("start") \/ Fails
  /\ UNCHANGED <<cluster, files, clock>>

\* The step after start_time, by fault type.
FaultStep(r) ==
  CASE Fault(r) = "none"         -> "end"
    [] Fault(r) = "pod-kill"     -> "kill"
    [] Fault(r) = "replica-drop" -> "drop"
    [] Fault(r) = "http-500"     -> "setenv"
    [] Fault(r) \in Stresses     -> "capture"
    [] Fault(r) \in Proxied      -> "proxy"

\* start_time.  What disturbs the system now disturbs the whole recording.
RecordStart ==
  /\ At("start")
  /\ clock' = clock + 1
  /\ job' = [job EXCEPT
       !.pc = IF job.kind = "script 18" THEN "fetch" ELSE FaultStep(job.run),
       !.foreign = \E s \in Services : Disturbed(s)]
  /\ UNCHANGED <<cluster, files, failures>>

\* get_first_pod_name, delete pod, wait_for_replacement_pod.
KillPod ==
  /\ At("kill")
  /\ \/ /\ job' = [job EXCEPT !.kills = @ + 1,
                              !.pc = IF job.kills + 1 < PodKills THEN "kill" ELSE "end"]
        /\ UNCHANGED failures
     \/ Fails
  /\ UNCHANGED <<cluster, files, clock>>

DropReplicas ==
  /\ At("drop")
  /\ ScaleDeployment(Target(job.run), 0, "undrop")

\* Fault: the count of the fault again.
UndropReplicas_ToDropped ==
  /\ At("undrop")
  /\ ScaleDeployment(Target(job.run), 0, "end")

\* Back to one replica, whatever there were.
UndropReplicas ==
  /\ At("undrop")
  /\ ScaleDeployment(Target(job.run), 1, "end")

\* scale_and_capture_original.
CaptureOriginal ==
  /\ At("capture")
  /\ LET s == Target(job.run)
         one == [replicas EXCEPT ![s] = 1]
     IN \/ /\ replicas' = one
           /\ job' = [job EXCEPT !.pc = "stress", !.kept = config[s], !.keptReplicas = replicas[s]]
           /\ UNCHANGED failures
        \/ replicas' \in {replicas, one} /\ Fails
  /\ UNCHANGED <<config, proxies, files, clock>>

\* cpu_stress_resources and memory_stress_resources keep the other resource.
StressResources ==
  /\ At("stress")
  /\ Configure(Target(job.run),
               [config[Target(job.run)] EXCEPT !.resources = @ \union {Fault(job.run)}],
               "unstress")

\* Fault: the limits in force are captured when they are to be restored.
UnstressResources_CapturesLate ==
  /\ At("unstress")
  /\ Configure(Target(job.run), config[Target(job.run)],
               IF job.keptReplicas = 1 THEN "end" ELSE "unscale")

UnstressResources ==
  /\ At("unstress")
  /\ Configure(Target(job.run),
               [config[Target(job.run)] EXCEPT !.resources = job.kept.resources],
               IF job.keptReplicas = 1 THEN "end" ELSE "unscale")

RestoreReplicas ==
  /\ At("unscale")
  /\ ScaleDeployment(Target(job.run), job.keptReplicas, "end")

\* The selector is read first; then the proxy pod, which may be left of an
\* earlier run, is made anew.
CreateFaultProxy ==
  /\ At("proxy")
  /\ LET p == <<Target(job.run), Fault(job.run)>> IN
       \/ /\ proxies' = proxies \union {p}
          /\ job' = [job EXCEPT !.pc = "swap", !.kept = config[Target(job.run)]]
          /\ UNCHANGED failures
       \/ proxies' \in {proxies, proxies \ {p}, proxies \union {p}} /\ Fails
  /\ UNCHANGED <<config, replicas, files, clock>>

SwapSelector ==
  /\ At("swap")
  /\ Configure(Target(job.run),
               [config[Target(job.run)] EXCEPT !.selector = Fault(job.run)], "unswap")

UnswapSelector ==
  /\ At("unswap")
  /\ Configure(Target(job.run),
               [config[Target(job.run)] EXCEPT !.selector = job.kept.selector], "unproxy")

\* delete_fault_proxy_pod is not checked.
DeleteFaultProxy ==
  /\ At("unproxy")
  /\ proxies' \in {proxies, proxies \ {<<Target(job.run), Fault(job.run)>>}}
  /\ Ok("end")
  /\ UNCHANGED <<config, replicas, files, clock>>

\* The environment is read, then CURRENCY_SERVICE_ADDR is set to a wrong address.
SetBadEnv ==
  /\ At("setenv")
  /\ LET s == Target(job.run)
         bad == [config EXCEPT ![s].badEnv = TRUE]
     IN \/ /\ config' = bad
           /\ job' = [job EXCEPT !.pc = "unsetenv", !.kept = config[s]]
           /\ UNCHANGED failures
        \/ config' \in {config, bad} /\ Fails
  /\ UNCHANGED <<replicas, proxies, files, clock>>

RestoreEnv ==
  /\ At("unsetenv")
  /\ Configure(Target(job.run),
               [config[Target(job.run)] EXCEPT !.badEnv = job.kept.badEnv], "end")

\* end_time and stop_loadgen, which is not checked; the whole file is saved.
FinishRun ==
  /\ At("end")
  /\ rows' = [rows EXCEPT ![job.run].at = clock,
                          ![job.run].window = Fault(job.run) # "none"]
  /\ Ok("export")
  /\ UNCHANGED <<cluster, raw, exports, clock>>

-----------------------------------------------------------------------------
(* 12_export_jaeger_run.py *)

\* What Jaeger may return for the recording that just ended: any part of it.
Fetched(r) ==
  {t \in Recording :
     /\ t.at = clock
     /\ t.injected = (Fault(r) # "none")
     /\ t.moments \in {c \intersect (IF t.injected THEN Moments ELSE {"pre"}) : c \in Coverages}
     /\ t.seen => "active" \in t.moments
     /\ t.foreign = job.foreign}

\* fetch_jaeger_payload, then the trace file, then the row's statistics.
ExportTraces ==
  /\ At("export")
  /\ \/ /\ \E t \in Fetched(job.run) : exports' = [exports EXCEPT ![job.run] = t]
        /\ Ok("done")
     \/ Fails /\ UNCHANGED exports
  /\ UNCHANGED <<cluster, rows, raw, clock>>

-----------------------------------------------------------------------------
(* 18_collect_normal_extended.py: collect_one_run *)

\* The traces go straight to data/raw, with a run_meta.json of a normal run.
\* When Jaeger does not answer, the run counts neither as done nor as failed.
FetchAndSave ==
  /\ At("fetch")
  /\ \/ /\ \E t \in Fetched(job.run) :
             raw' = [raw EXCEPT ![job.run] = [traces |-> t,
                                              meta |-> [at |-> clock, window |-> FALSE]]]
        /\ Ok("done")
     \/ /\ Ok("skipped")
        /\ UNCHANGED raw
  /\ UNCHANGED <<cluster, rows, exports, clock>>

-----------------------------------------------------------------------------

InjectFault ==
  \/ KillPod
  \/ DropReplicas \/ UndropReplicas
  \/ CaptureOriginal \/ StressResources \/ UnstressResources \/ RestoreReplicas
  \/ CreateFaultProxy \/ SwapSelector \/ UnswapSelector \/ DeleteFaultProxy
  \/ SetBadEnv \/ RestoreEnv

CollectStep ==
  \/ ScaleForPodKill \/ StartLoadgen \/ RecordStart
  \/ InjectFault
  \/ FinishRun \/ ExportTraces \/ FetchAndSave

Idle == job.pc \in {"none", "done", "failed", "skipped"}

\* One run after the other, on one cluster, in any order.
CollectNext ==
  \/ CollectStep
  \/ /\ Idle
     /\ \E r \in Runs : StartRun(r, IF r \in Extended THEN "script 18" ELSE "script 11")

CollectSpec == CollectInit /\ [][CollectNext]_collectVars
=============================================================================
