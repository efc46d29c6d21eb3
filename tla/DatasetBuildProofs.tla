-------------------------- MODULE DatasetBuildProofs --------------------------
(***************************************************************************)
(* What the recording of runs keeps of the cluster, whatever fails, what    *)
(* the files of a data set say of the runs that were recorded, and what the *)
(* splits give every scenario, proved for any runs, deployments, scenarios  *)
(* and bounds.                                                              *)
(***************************************************************************)
EXTENDS DatasetBuild, FiniteSetTheorems, TLAPS

Steps == {"none", "done", "failed", "skipped", "scale", "load", "start", "kill", "drop",
          "undrop", "capture", "stress", "unstress", "unscale", "proxy", "swap", "unswap",
          "unproxy", "setenv", "unsetenv", "end", "export", "fetch"}

JobType == [run : Runs \union {None}, pc : Steps, kind : {"none", "script 11", "script 18"},
            kept : Config, keptReplicas : Nat, kills : Nat, found : Config, foreign : BOOLEAN]

BatchType == [pc : {"none", "collect", "rebuild", "rebuilt", "finished", "died"},
              script : {"none", "script 13", "script 18"},
              mode : {"none", "all", "collect-export", "rebuild-only"},
              clean : BOOLEAN, stop : BOOLEAN, selected : SUBSET Runs, todo : SUBSET Runs,
              done : SUBSET Runs, failed : SUBSET Runs, stage : Nat, since : Nat,
              undisturbed : BOOLEAN]

RowType == [fault : FaultRows, at : Nat, window : BOOLEAN]

\* What the collection of runs reads of the state keeps its type.
CollectTypes ==
  /\ config \in [Services -> Config]
  /\ replicas \in [Services -> Nat]
  /\ rows \in [Runs -> RowType]
  /\ job \in JobType
  /\ failures \in Nat
  /\ clock \in Nat
  /\ batch \in BatchType

\* A collection is at a step of its scenario.
StepSound ==
  /\ job.kind = "none" => job.pc = "none"
  /\ job.pc = "none" => job = NoJob
  /\ job.kind = "script 18" => job.pc \in {"load", "start", "fetch", "done", "skipped", "failed"}
  /\ job.kind = "script 11" => job.pc \notin {"none", "fetch", "skipped"}
  /\ job.pc # "none" => job.run \in Runs
  /\ job.pc \in {"capture", "stress", "unstress", "unscale"} => Fault(job.run) \in Stresses
  /\ job.pc \in {"proxy", "swap", "unswap", "unproxy"} => Fault(job.run) \in Proxied
  /\ job.pc \in {"setenv", "unsetenv"} => Fault(job.run) = "http-500"
  /\ job.pc \in {"drop", "undrop"} => Fault(job.run) = "replica-drop"
  /\ job.pc \in {"kill", "scale"} => Fault(job.run) = "pod-kill"

\* The target's configuration while its fault is injected.
Faulty(c) ==
  CASE job.pc = "unstress" -> [c EXCEPT !.resources = @ \union {Fault(job.run)}]
    [] job.pc = "unswap"   -> [c EXCEPT !.selector = Fault(job.run)]
    [] job.pc = "unsetenv" -> [c EXCEPT !.badEnv = TRUE]

Injected == {"unstress", "unswap", "unsetenv"}

\* The steps at which a run remembers its target's configuration to restore it.
Keeping == Injected \union {"stress", "swap"}

\* A run that goes on knows what its target was, and what it made of it.
TargetSound ==
  (job.kind = "script 11" /\ job.pc # "failed" /\ Target(job.run) # None) =>
    /\ job.pc \in Keeping => job.kept = job.found
    /\ config[Target(job.run)] = IF job.pc \in Injected THEN Faulty(job.found) ELSE job.found

\* No command has failed, or no run of the batch, which began with nothing disturbed.
Calm ==
  \/ failures = 0
  \/ /\ batch.pc = "collect" /\ batch.undisturbed /\ batch.failed = {}
     /\ job.pc # "failed"

\* As long as it is calm only the target of the run is disturbed, and it was not when
\* the run began.
ClusterSound ==
  Calm =>
    /\ job.found = Deployed
    /\ job.pc \in {"stress", "unstress", "unscale"} => job.keptReplicas > 0
    /\ \A s \in Services :
         /\ config[s] = Deployed \/ (job.pc \in Injected /\ s = Target(job.run))
         /\ replicas[s] > 0 \/ (job.pc = "undrop" /\ s = Target(job.run))

CollectInv == CollectTypes /\ StepSound /\ TargetSound /\ ClusterSound

\* A collection runs in the batch that started it.
JobInBatch == job.pc # "none" => batch.pc = "collect"

-----------------------------------------------------------------------------
(* Facts about rows, collections and configurations. *)

\* A run's scenario is one of FaultRows.
LEMMA RowFacts ==
  ASSUME CollectTypes, NEW r \in Runs
  PROVE  /\ rows[r].fault \in FaultRows
         /\ Fault(r) \in FaultTypes
         /\ Target(r) \in Services \union {None}
         /\ Fault(r) = "none" <=> Target(r) = None
  <1>1. rows[r] \in RowType
    BY DEF CollectTypes
  <1>2. rows[r].fault \in FaultRows
    BY <1>1 DEF RowType
  <1>3. rows[r].fault \in FaultTypes \X (Services \union {None})
    BY <1>2, RowsAssumption
  <1> QED BY <1>2, <1>3, RowsAssumption DEF Fault, Target

\* What setting the step of a collection leaves.
LEMMA JobStep ==
  ASSUME NEW j \in JobType, NEW p \in Steps, NEW k, k = [j EXCEPT !.pc = p]
  PROVE  /\ k \in JobType
         /\ k.pc = p /\ k.run = j.run /\ k.kind = j.kind /\ k.found = j.found
         /\ k.kept = j.kept /\ k.keptReplicas = j.keptReplicas
  BY DEF JobType

\* A change of the target, and its restoration, give the configuration there was.
LEMMA ConfigStep ==
  ASSUME NEW c \in Config, NEW f
  PROVE  /\ f \in Stresses => /\ [c EXCEPT !.resources = @ \union {f}] \in Config
                              /\ [[c EXCEPT !.resources = @ \union {f}]
                                    EXCEPT !.resources = c.resources] = c
         /\ f \in Proxied => /\ [c EXCEPT !.selector = f] \in Config
                             /\ [[c EXCEPT !.selector = f] EXCEPT !.selector = c.selector] = c
         /\ [c EXCEPT !.badEnv = TRUE] \in Config
         /\ [[c EXCEPT !.badEnv = TRUE] EXCEPT !.badEnv = c.badEnv] = c
  BY DEF Config

\* What a restoration from any remembered configuration gives is a configuration.
LEMMA ConfigRestored ==
  ASSUME NEW c \in Config, NEW k \in Config
  PROVE  /\ [c EXCEPT !.resources = k.resources] \in Config
         /\ [c EXCEPT !.selector = k.selector] \in Config
         /\ [c EXCEPT !.badEnv = k.badEnv] \in Config
  BY DEF Config

\* A deployment as it was deployed.
LEMMA DeployedType == Deployed \in Config /\ NoJob \in JobType
  BY DEF Deployed, Config, NoJob, JobType, Steps

-----------------------------------------------------------------------------
(* The shapes of a step. *)

Kept == rows' = rows /\ batch' = batch

\* A command that fails.
LEMMA FailingStep ==
  ASSUME CollectInv, Kept, Fails, clock' = clock, job.pc # "none",
         config' \in [Services -> Config], replicas' \in [Services -> Nat]
  PROVE  CollectInv'
  <1> USE DEF CollectInv, Kept
  <1>0. job \in JobType /\ failures \in Nat /\ job' = [job EXCEPT !.pc = "failed"]
        /\ failures' = failures + 1
    BY DEF Fails, CollectTypes
  <1>1. job' \in JobType /\ job'.pc = "failed" /\ job'.run = job.run /\ job'.kind = job.kind
    <2>1. "failed" \in Steps
      BY DEF Steps
    <2> QED BY ONLY <1>0, <2>1, JobStep
  <1>2. CollectTypes'
    BY <1>0, <1>1 DEF CollectTypes
  <1>3. StepSound'
    BY <1>1 DEF StepSound, Fault
  <1>4. TargetSound'
    BY <1>1 DEF TargetSound
  <1>5. ClusterSound'
    BY <1>0, <1>1 DEF ClusterSound, Calm
  <1> QED BY <1>2, <1>3, <1>4, <1>5

\* A step that leaves the configurations alone, away from the injected ones.
LEMMA QuietStep ==
  ASSUME CollectInv, Kept, config' = config, clock' \in Nat, failures' = failures,
         replicas' \in [Services -> Nat],
         job' \in JobType, job'.run = job.run, job'.kind = job.kind, job'.found = job.found,
         job.pc \notin Injected, job.pc # "failed",
         job'.pc \notin Injected \union {"failed"},
         job'.pc \in Keeping => job'.kept = job'.found,
         job'.pc \in {"stress", "unscale"} => (job'.keptReplicas > 0 \/ ~Calm),
         Calm => \A s \in Services :
            replicas'[s] > 0 \/ (job'.pc = "undrop" /\ s = Target(job.run)),
         StepSound'
  PROVE  CollectInv'
  <1> USE DEF CollectInv, Kept
  <1>1. CollectTypes'
    BY DEF CollectTypes
  <1>2. TargetSound'
    BY DEF TargetSound, Target
  <1>3. ClusterSound'
    <2>1. Calm' => Calm
      BY DEF Calm
    <2> QED BY <2>1 DEF ClusterSound, Target, Injected
  <1> QED BY <1>1, <1>2, <1>3

-----------------------------------------------------------------------------
(* One lemma per action of a collection. *)

\* A run at a step of a fault has a target.
LEMMA Targeted ==
  ASSUME CollectTypes, StepSound,
         job.pc \in {"scale", "kill", "drop", "undrop", "capture", "stress", "unstress", "unscale",
                     "proxy", "swap", "unswap", "unproxy", "setenv", "unsetenv"}
  PROVE  /\ job.kind = "script 11" /\ job.run \in Runs
         /\ Target(job.run) \in Services /\ Target(job.run) # None
  <1>1. job.run \in Runs /\ Fault(job.run) # "none"
    BY DEF StepSound, Stresses, Proxied
  <1>2. job.kind = "script 11"
    <2>1. job.kind \in {"none", "script 11", "script 18"}
      BY DEF CollectTypes, JobType
    <2> QED BY <2>1 DEF StepSound
  <1> QED BY <1>1, <1>2, RowFacts

\* start_loadgen.
LEMMA LoadStep ==
  ASSUME CollectInv, Kept, StartLoadgen
  PROVE  CollectInv'
  <1> USE DEF CollectInv, Kept
  <1>0. /\ job \in JobType /\ replicas \in [Services -> Nat] /\ clock \in Nat /\ job.pc = "load"
        /\ config' = config /\ replicas' = replicas /\ rows' = rows /\ clock' = clock
        /\ config \in [Services -> Config]
    BY DEF StartLoadgen, At, CollectTypes, cluster, files
  <1>1. CASE Fails
    BY <1>0, <1>1, FailingStep
  <1>2. CASE Ok("start")
    <2>1. "start" \in Steps
      BY DEF Steps
    <2>2. job' = [job EXCEPT !.pc = "start"] /\ failures' = failures
      BY <1>2 DEF Ok
    <2>3. /\ job' \in JobType /\ job'.pc = "start" /\ job'.run = job.run
          /\ job'.kind = job.kind /\ job'.found = job.found
      BY ONLY <1>0, <2>1, <2>2, JobStep
    <2>4. StepSound'
      BY <1>0, <2>3 DEF StepSound
    <2> QED BY <1>0, <2>2, <2>3, <2>4, QuietStep DEF Injected, Keeping, ClusterSound
  <1> QED BY <1>1, <1>2 DEF StartLoadgen

\* start_time.
LEMMA StartStep ==
  ASSUME CollectInv, Kept, RecordStart
  PROVE  CollectInv'
  <1> USE DEF CollectInv, Kept
  <1> DEFINE p == IF job.kind = "script 18" THEN "fetch" ELSE FaultStep(job.run)
             b == \E s \in Services : Disturbed(s)
  <1>0. /\ job \in JobType /\ replicas \in [Services -> Nat] /\ clock' \in Nat /\ job.pc = "start"
        /\ config' = config /\ replicas' = replicas /\ rows' = rows /\ failures' = failures
        /\ job' = [job EXCEPT !.pc = p, !.foreign = b]
    BY DEF RecordStart, At, CollectTypes, cluster, files
  <1>1. job.run \in Runs /\ Fault(job.run) \in FaultTypes
    BY <1>0, RowFacts DEF StepSound
  <1>2. p \in {"end", "kill", "drop", "setenv", "capture", "proxy", "fetch"}
    BY <1>1 DEF FaultStep, FaultTypes
  <1>3. p \in Steps /\ b \in BOOLEAN
    BY <1>2 DEF Steps
  <1>4. /\ job' \in JobType /\ job'.pc = p /\ job'.run = job.run
        /\ job'.kind = job.kind /\ job'.found = job.found
    <2> HIDE DEF p, b
    <2> QED BY <1>0, <1>3 DEF JobType
  <1>5. StepSound'
    <2>1. Fault(job.run)' = Fault(job.run)
      BY <1>0, <1>4 DEF Fault
    <2>2. job.kind \in {"none", "script 11", "script 18"}
      BY <1>0 DEF JobType
    <2>3. CASE job.kind = "script 18"
      <3>1. p = "fetch"
        BY <2>3
      <3> HIDE DEF p
      <3> QED BY <1>0, <1>1, <1>4, <2>3, <3>1 DEF StepSound
    <2>4. CASE job.kind = "script 11"
      <3>1. p = FaultStep(job.run)
        BY <2>4
      <3>2. p \in {"end", "kill", "drop", "setenv", "capture", "proxy"}
        BY <1>1, <3>1 DEF FaultStep, FaultTypes
      <3>3. /\ p = "kill" => Fault(job.run) = "pod-kill"
            /\ p = "drop" => Fault(job.run) = "replica-drop"
            /\ p = "setenv" => Fault(job.run) = "http-500"
            /\ p = "capture" => Fault(job.run) \in Stresses
            /\ p = "proxy" => Fault(job.run) \in Proxied
        BY <1>1, <3>1 DEF FaultStep, FaultTypes, Stresses, Proxied
      <3> HIDE DEF p
      <3> QED BY <1>1, <1>4, <2>1, <2>4, <3>2, <3>3 DEF StepSound
    <2> QED BY <1>0, <2>2, <2>3, <2>4 DEF StepSound
  <1> QED
    <2> HIDE DEF p, b
    <2> QED BY <1>0, <1>2, <1>4, <1>5, QuietStep DEF Injected, Keeping, ClusterSound

\* Killing the target's pod.
LEMMA KillStep ==
  ASSUME CollectInv, Kept, KillPod
  PROVE  CollectInv'
  <1> USE DEF CollectInv, Kept
  <1> DEFINE p == IF job.kills + 1 < PodKills THEN "kill" ELSE "end"
  <1>0. /\ job \in JobType /\ replicas \in [Services -> Nat] /\ clock \in Nat /\ job.pc = "kill"
        /\ config' = config /\ replicas' = replicas /\ rows' = rows /\ clock' = clock
        /\ config \in [Services -> Config]
    BY DEF KillPod, At, CollectTypes, cluster, files
  <1>1. CASE Fails
    BY <1>0, <1>1, FailingStep
  <1>2. CASE /\ job' = [job EXCEPT !.kills = @ + 1, !.pc = p]
             /\ UNCHANGED failures
    <2>1. p \in {"kill", "end"} /\ p \in Steps
      BY DEF Steps
    <2>3. /\ job' \in JobType /\ job'.pc = p /\ job'.run = job.run
          /\ job'.kind = job.kind /\ job'.found = job.found
      <3>0. job.kills \in Nat
        BY <1>0 DEF JobType
      <3>1. job.kills + 1 \in Nat
        BY <3>0
      <3> HIDE DEF p
      <3> QED BY ONLY <1>0, <1>2, <2>1, <3>1 DEF JobType
    <2>4. StepSound'
      <3> HIDE DEF p
      <3> QED BY <1>0, <2>1, <2>3 DEF StepSound, Fault
    <2> HIDE DEF p
    <2> QED BY <1>0, <1>2, <2>1, <2>3, <2>4, QuietStep DEF Injected, Keeping, ClusterSound
  <1> QED BY <1>1, <1>2 DEF KillPod

\* The traces of script 12.
LEMMA ExportStep ==
  ASSUME CollectInv, Kept, ExportTraces
  PROVE  CollectInv'
  <1> USE DEF CollectInv, Kept
  <1>0. /\ job \in JobType /\ replicas \in [Services -> Nat] /\ clock \in Nat /\ job.pc = "export"
        /\ config' = config /\ replicas' = replicas /\ rows' = rows /\ clock' = clock
        /\ config \in [Services -> Config]
    BY DEF ExportTraces, At, CollectTypes, cluster
  <1>1. CASE Fails
    BY <1>0, <1>1, FailingStep
  <1>2. CASE Ok("done")
    <2>1. "done" \in Steps
      BY DEF Steps
    <2>2. job' = [job EXCEPT !.pc = "done"] /\ failures' = failures
      BY <1>2 DEF Ok
    <2>3. /\ job' \in JobType /\ job'.pc = "done" /\ job'.run = job.run
          /\ job'.kind = job.kind /\ job'.found = job.found
      BY ONLY <1>0, <2>1, <2>2, JobStep
    <2>4. StepSound'
      BY <1>0, <2>3 DEF StepSound
    <2> QED BY <1>0, <2>2, <2>3, <2>4, QuietStep DEF Injected, Keeping, ClusterSound
  <1> QED BY <1>1, <1>2 DEF ExportTraces

\* The traces of script 18.
LEMMA FetchStep ==
  ASSUME CollectInv, Kept, FetchAndSave
  PROVE  CollectInv'
  <1> USE DEF CollectInv, Kept
  <1>0. /\ job \in JobType /\ replicas \in [Services -> Nat] /\ clock \in Nat /\ job.pc = "fetch"
        /\ config' = config /\ replicas' = replicas /\ rows' = rows /\ clock' = clock
    BY DEF FetchAndSave, At, CollectTypes, cluster
  <1>1. job.kind = "script 18"
    BY <1>0 DEF StepSound, JobType
  <1>2. ASSUME NEW p \in {"done", "skipped"}, Ok(p)
        PROVE  CollectInv'
    <2>1. p \in Steps
      BY DEF Steps
    <2>2. job' = [job EXCEPT !.pc = p] /\ failures' = failures
      BY <1>2 DEF Ok
    <2>3. /\ job' \in JobType /\ job'.pc = p /\ job'.run = job.run
          /\ job'.kind = job.kind /\ job'.found = job.found
      BY ONLY <1>0, <2>1, <2>2, JobStep
    <2>4. StepSound'
      BY <1>0, <1>1, <2>3 DEF StepSound
    <2> QED BY <1>0, <2>2, <2>3, <2>4, QuietStep DEF Injected, Keeping, ClusterSound
  <1> QED BY <1>2 DEF FetchAndSave

\* scale_deployment of the target, away from the injected configurations.
LEMMA ScaleStep ==
  ASSUME CollectInv, Kept, NEW n \in Nat, NEW p \in {"load", "undrop", "end"},
         ScaleDeployment(Target(job.run), n, p),
         job.kind = "script 11", Target(job.run) \in Services, job.run \in Runs,
         job.pc \notin Injected \union {"failed", "none"},
         p = "undrop" => Fault(job.run) = "replica-drop",
         n > 0 \/ p = "undrop" \/ ~Calm
  PROVE  CollectInv'
  <1> USE DEF CollectInv, Kept
  <1> DEFINE s == Target(job.run)
             new == [replicas EXCEPT ![s] = n]
  <1>0. /\ job \in JobType /\ replicas \in [Services -> Nat] /\ clock \in Nat
        /\ config' = config /\ rows' = rows /\ clock' = clock
        /\ config \in [Services -> Config] /\ new \in [Services -> Nat]
    BY DEF ScaleDeployment, CollectTypes, files
  <1>1. CASE replicas' \in {replicas, new} /\ Fails
    BY <1>0, <1>1, FailingStep
  <1>2. CASE replicas' = new /\ Ok(p)
    <2>1. p \in Steps
      BY DEF Steps
    <2>2. job' = [job EXCEPT !.pc = p] /\ failures' = failures
      BY <1>2 DEF Ok
    <2>3. /\ job' \in JobType /\ job'.pc = p /\ job'.run = job.run
          /\ job'.kind = job.kind /\ job'.found = job.found
      BY ONLY <1>0, <2>1, <2>2, JobStep
    <2>4. StepSound'
      BY <1>0, <2>3 DEF StepSound, Fault
    <2>5. Calm => \A t \in Services :
            replicas'[t] > 0 \/ (job'.pc = "undrop" /\ t = Target(job.run))
      BY <1>0, <1>2, <2>3 DEF ClusterSound
    <2> QED BY <1>0, <1>2, <2>2, <2>3, <2>4, <2>5, QuietStep DEF Injected, Keeping
  <1> QED BY <1>1, <1>2 DEF ScaleDeployment

\* The four scalings of 11_collect_run.py outside a capture.
LEMMA ScalingSteps ==
  ASSUME CollectInv, Kept, ScaleForPodKill \/ DropReplicas \/ UndropReplicas \/ RestoreReplicas
  PROVE  CollectInv'
  <1> USE DEF CollectInv, At
  <1>1. /\ job.kind = "script 11" /\ Target(job.run) \in Services /\ job.run \in Runs
        /\ job.pc \in {"scale", "drop", "undrop", "unscale"}
    BY Targeted DEF ScaleForPodKill, DropReplicas, UndropReplicas, RestoreReplicas
  <1>2. CASE ScaleForPodKill
    <2>1. ScaleDeployment(Target(job.run), 1, "load")
      BY <1>2 DEF ScaleForPodKill
    <2>2. job.pc \notin Injected \union {"failed", "none"}
      BY <1>1 DEF Injected
    <2>3. 1 \in Nat /\ 1 > 0
      OBVIOUS
    <2> QED BY ONLY CollectInv, Kept, <1>1, <2>1, <2>2, <2>3, ScaleStep
  <1>3. CASE DropReplicas
    <2>1. ScaleDeployment(Target(job.run), 0, "undrop") /\ Fault(job.run) = "replica-drop"
      BY <1>3 DEF DropReplicas, StepSound
    <2>2. job.pc \notin Injected \union {"failed", "none"}
      BY <1>1 DEF Injected
    <2> QED BY <1>1, <2>1, <2>2, ScaleStep
  <1>4. CASE UndropReplicas
    <2>1. ScaleDeployment(Target(job.run), 1, "end")
      BY <1>4 DEF UndropReplicas
    <2>2. job.pc \notin Injected \union {"failed", "none"}
      BY <1>1 DEF Injected
    <2>3. 1 \in Nat /\ 1 > 0
      OBVIOUS
    <2> QED BY ONLY CollectInv, Kept, <1>1, <2>1, <2>2, <2>3, ScaleStep
  <1>5. CASE RestoreReplicas
    <2>1. job.keptReplicas \in Nat
      BY DEF CollectTypes, JobType
    <2>2. job.keptReplicas > 0 \/ ~Calm
      BY <1>5 DEF RestoreReplicas, ClusterSound
    <2> QED BY <1>1, <1>5, <2>1, <2>2, ScaleStep DEF RestoreReplicas, Injected
  <1> QED BY <1>2, <1>3, <1>4, <1>5

\* scale_and_capture_original: what is captured is what the run found.
LEMMA CaptureStep ==
  ASSUME CollectInv, Kept, CaptureOriginal
  PROVE  CollectInv'
  <1> USE DEF CollectInv, Kept
  <1> DEFINE s == Target(job.run)
             one == [replicas EXCEPT ![s] = 1]
  <1>0. /\ job \in JobType /\ replicas \in [Services -> Nat] /\ clock \in Nat
        /\ config' = config /\ rows' = rows /\ clock' = clock /\ job.pc = "capture"
        /\ config \in [Services -> Config] /\ one \in [Services -> Nat]
    BY DEF CaptureOriginal, At, CollectTypes, files
  <1>1. job.kind = "script 11" /\ s \in Services /\ s # None /\ job.run \in Runs
    BY <1>0, Targeted
  <1>2. CASE replicas' \in {replicas, one} /\ Fails
    BY <1>0, <1>2, FailingStep
  <1>3. CASE /\ replicas' = one
             /\ job' = [job EXCEPT !.pc = "stress", !.kept = config[s], !.keptReplicas = replicas[s]]
             /\ UNCHANGED failures
    <2>1. config[s] \in Config /\ replicas[s] \in Nat
      BY <1>0, <1>1
    <2>2. /\ job' \in JobType /\ job'.pc = "stress" /\ job'.run = job.run
          /\ job'.kind = job.kind /\ job'.found = job.found
          /\ job'.kept = config[s] /\ job'.keptReplicas = replicas[s]
      <3>1. "stress" \in Steps
        BY DEF Steps
      <3> HIDE DEF s
      <3> QED BY ONLY <1>0, <1>3, <2>1, <3>1 DEF JobType
    <2>3. StepSound'
      BY <1>0, <1>1, <2>2 DEF StepSound, Fault
    <2>4. job'.kept = job'.found
      BY <1>0, <1>1, <2>2 DEF TargetSound, Injected
    <2>5. job'.keptReplicas > 0 \/ ~Calm
      BY <1>0, <1>1, <2>2 DEF ClusterSound
    <2>6. Calm => \A t \in Services : replicas'[t] > 0
      BY <1>0, <1>3 DEF ClusterSound
    <2> QED BY <1>0, <1>3, <2>2, <2>3, <2>4, <2>5, <2>6, QuietStep DEF Injected, Keeping
  <1> QED BY <1>2, <1>3 DEF CaptureOriginal

\* The proxy pod; what is remembered is what the run found.
LEMMA ProxyStep ==
  ASSUME CollectInv, Kept, CreateFaultProxy
  PROVE  CollectInv'
  <1> USE DEF CollectInv, Kept
  <1> DEFINE s == Target(job.run)
  <1>0. /\ job \in JobType /\ replicas \in [Services -> Nat] /\ clock \in Nat
        /\ config' = config /\ replicas' = replicas /\ rows' = rows /\ clock' = clock
        /\ job.pc = "proxy" /\ config \in [Services -> Config]
    BY DEF CreateFaultProxy, At, CollectTypes, files
  <1>1. job.kind = "script 11" /\ s \in Services /\ s # None /\ job.run \in Runs
    BY <1>0, Targeted
  <1>2. CASE Fails
    BY <1>0, <1>2, FailingStep
  <1>3. CASE /\ job' = [job EXCEPT !.pc = "swap", !.kept = config[s]]
             /\ UNCHANGED failures
    <2>1. config[s] \in Config
      BY <1>0, <1>1
    <2>2. /\ job' \in JobType /\ job'.pc = "swap" /\ job'.run = job.run
          /\ job'.kind = job.kind /\ job'.found = job.found /\ job'.kept = config[s]
      <3>1. "swap" \in Steps
        BY DEF Steps
      <3> HIDE DEF s
      <3> QED BY ONLY <1>0, <1>3, <2>1, <3>1 DEF JobType
    <2>3. StepSound'
      BY <1>0, <1>1, <2>2 DEF StepSound, Fault
    <2>4. job'.kept = job'.found
      BY <1>0, <1>1, <2>2 DEF TargetSound, Injected
    <2> QED BY <1>0, <1>3, <2>2, <2>3, <2>4, QuietStep DEF Injected, Keeping, ClusterSound
  <1> QED BY <1>2, <1>3 DEF CreateFaultProxy

\* The proxy pod is deleted, or not.
LEMMA UnproxyStep ==
  ASSUME CollectInv, Kept, DeleteFaultProxy
  PROVE  CollectInv'
  <1> USE DEF CollectInv, Kept
  <1>0. /\ job \in JobType /\ replicas \in [Services -> Nat] /\ clock \in Nat
        /\ config' = config /\ replicas' = replicas /\ rows' = rows /\ clock' = clock
        /\ job.pc = "unproxy" /\ job' = [job EXCEPT !.pc = "end"] /\ failures' = failures
    BY DEF DeleteFaultProxy, At, Ok, CollectTypes, files
  <1>1. job.kind = "script 11" /\ job.run \in Runs
    BY <1>0, Targeted
  <1>2. /\ job' \in JobType /\ job'.pc = "end" /\ job'.run = job.run
        /\ job'.kind = job.kind /\ job'.found = job.found
    <2>1. "end" \in Steps
      BY DEF Steps
    <2> QED BY ONLY <1>0, <2>1, JobStep
  <1>3. StepSound'
    BY <1>0, <1>1, <1>2 DEF StepSound
  <1> QED BY <1>0, <1>2, <1>3, QuietStep DEF Injected, Keeping, ClusterSound

\* The target's configuration changes, to what the run's next step expects of it.
LEMMA ChangeStep ==
  ASSUME CollectInv, Kept, NEW c \in Config, Target(job.run) \in Services,
         job.kind = "script 11", config' = [config EXCEPT ![Target(job.run)] = c],
         replicas' = replicas, clock' = clock, failures' = failures,
         job' \in JobType, job'.run = job.run, job'.kind = job.kind, job'.found = job.found,
         job.pc \notin {"failed", "undrop"},
         job'.pc \notin {"failed", "undrop"},
         job'.pc \in Keeping => job'.kept = job'.found,
         job'.pc \in {"stress", "unstress", "unscale"} =>
            (job'.keptReplicas > 0 \/ ~Calm),
         c = IF job'.pc \in Injected THEN Faulty(job.found)' ELSE job.found,
         StepSound'
  PROVE  CollectInv'
  <1> USE DEF CollectInv, Kept
  <1>1. CollectTypes'
    BY DEF CollectTypes
  <1>2. config'[Target(job.run)] = c /\ \A t \in Services : t # Target(job.run) => config'[t] = config[t]
    BY DEF CollectTypes
  <1>3. Target(job.run)' = Target(job.run)
    BY DEF Target
  <1>4. TargetSound'
    BY <1>2, <1>3 DEF TargetSound
  <1>5. ClusterSound'
    <2>1. Calm' => Calm
      BY DEF Calm
    <2> QED BY <1>2, <1>3, <2>1 DEF ClusterSound
  <1> QED BY <1>1, <1>4, <1>5

\* A checked command that changes the target's configuration.
LEMMA ConfigureStep ==
  ASSUME CollectInv, Kept, NEW c \in Config,
         NEW p \in {"unstress", "end", "unscale", "unswap", "unproxy", "unsetenv"},
         Target(job.run) \in Services, job.run \in Runs, job.kind = "script 11",
         Configure(Target(job.run), c, p),
         job.pc \notin {"failed", "undrop", "none"},
         p \in Injected => job.kept = job.found,
         p \in {"unstress", "unscale"} => job.keptReplicas > 0 \/ ~Calm,
         p = "unstress" => /\ Fault(job.run) \in Stresses
                           /\ c = [job.found EXCEPT !.resources = @ \union {Fault(job.run)}],
         p = "unswap" => /\ Fault(job.run) \in Proxied
                         /\ c = [job.found EXCEPT !.selector = Fault(job.run)],
         p = "unsetenv" => FALSE,
         p \notin Injected => c = job.found,
         p = "unscale" => Fault(job.run) \in Stresses,
         p = "unproxy" => Fault(job.run) \in Proxied
  PROVE  CollectInv'
  <1> USE DEF CollectInv, Kept
  <1> DEFINE s == Target(job.run)
             new == [config EXCEPT ![s] = c]
  <1>0. /\ job \in JobType /\ replicas \in [Services -> Nat] /\ replicas' = replicas
        /\ rows' = rows /\ clock' = clock
        /\ config \in [Services -> Config] /\ new \in [Services -> Config]
    BY DEF Configure, CollectTypes, files
  <1>1. CASE config' \in {config, new} /\ Fails
    BY <1>0, <1>1, FailingStep
  <1>2. CASE config' = new /\ Ok(p)
    <2>1. p \in Steps
      BY DEF Steps
    <2>2. job' = [job EXCEPT !.pc = p] /\ failures' = failures
      BY <1>2 DEF Ok
    <2>3. /\ job' \in JobType /\ job'.pc = p /\ job'.run = job.run
          /\ job'.kind = job.kind /\ job'.found = job.found
          /\ job'.kept = job.kept /\ job'.keptReplicas = job.keptReplicas
      BY ONLY <1>0, <2>1, <2>2, JobStep
    <2>4. StepSound'
      BY <1>0, <2>3 DEF StepSound, Fault, Injected
    <2>5. c = IF job'.pc \in Injected THEN Faulty(job.found)' ELSE job.found
      BY <1>0, <2>3 DEF Faulty, Fault, Injected
    <2>6. job'.pc \in Keeping => job'.kept = job'.found
      BY <2>3 DEF Keeping, Injected
    <2>7. job'.pc \in {"stress", "unstress", "unscale"} => job'.keptReplicas > 0 \/ ~Calm
      BY <2>3
    <2> QED BY <1>0, <1>2, <2>2, <2>3, <2>4, <2>5, <2>6, <2>7, ChangeStep
  <1> QED BY <1>1, <1>2 DEF Configure

\* What a run knows of its target while it injects a fault.
LEMMA Knows ==
  ASSUME CollectInv, job.pc \in Keeping
  PROVE  /\ job.kept = job.found /\ job.found \in Config
         /\ config[Target(job.run)] = IF job.pc \in Injected THEN Faulty(job.found) ELSE job.found
         /\ job.keptReplicas \in Nat
         /\ job.pc \in {"stress", "unstress"} => job.keptReplicas > 0 \/ ~Calm
  <1>1. job.found \in Config /\ job.keptReplicas \in Nat
    BY DEF CollectInv, CollectTypes, JobType
  <1>2. job.pc \in {"stress", "unstress", "swap", "unswap", "unsetenv"}
    BY DEF Keeping, Injected
  <1>3. job.kind = "script 11" /\ Target(job.run) # None
    BY <1>2, Targeted DEF CollectInv
  <1> QED BY <1>1, <1>2, <1>3 DEF CollectInv, TargetSound, ClusterSound

\* The stress of a resource and its end.
LEMMA StressSteps ==
  ASSUME CollectInv, Kept, StressResources \/ UnstressResources
  PROVE  CollectInv'
  <1> DEFINE s == Target(job.run)
             f == Fault(job.run)
  <1>0. job.pc \in {"stress", "unstress"} /\ job.pc \notin {"failed", "undrop", "none"}
    BY DEF StressResources, UnstressResources, At
  <1>1. job.kind = "script 11" /\ s \in Services /\ job.run \in Runs /\ f \in Stresses
    BY <1>0, Targeted DEF CollectInv, StepSound
  <1>2. /\ job.kept = job.found /\ job.found \in Config
        /\ config[s] = IF job.pc \in Injected THEN Faulty(job.found) ELSE job.found
        /\ job.keptReplicas > 0 \/ ~Calm
    BY <1>0, Knows DEF Keeping, Injected
  <1>3. CASE StressResources
    <2> DEFINE c == [job.found EXCEPT !.resources = @ \union {f}]
    <2>1. c \in Config
      BY <1>1, <1>2, ConfigStep
    <2>2. job.pc = "stress" /\ config[s] = job.found
      BY <1>2, <1>3 DEF StressResources, At, Injected
    <2>3. Configure(s, c, "unstress")
      BY <1>3, <2>2 DEF StressResources
    <2>4. "unstress" \in Injected
      BY DEF Injected
    <2> QED BY <1>0, <1>1, <1>2, <2>1, <2>3, <2>4, ConfigureStep
  <1>4. CASE UnstressResources
    <2> DEFINE c == [[job.found EXCEPT !.resources = @ \union {f}]
                       EXCEPT !.resources = job.found.resources]
               p == IF job.keptReplicas = 1 THEN "end" ELSE "unscale"
    <2>1. c = job.found
      BY <1>1, <1>2, ConfigStep
    <2>2. config[s] = [job.found EXCEPT !.resources = @ \union {f}]
      BY <1>2, <1>4 DEF UnstressResources, At, Injected, Faulty
    <2>3. Configure(s, c, p)
      BY <1>2, <1>4, <2>2 DEF UnstressResources
    <2>4. p \in {"end", "unscale"} /\ p \notin Injected
      BY DEF Injected
    <2> HIDE DEF c, p
    <2> QED BY <1>0, <1>1, <1>2, <2>1, <2>3, <2>4, ConfigureStep
  <1> QED BY <1>3, <1>4

\* The service's selector is pointed at the proxy, and back.
LEMMA SwapSteps ==
  ASSUME CollectInv, Kept, SwapSelector \/ UnswapSelector
  PROVE  CollectInv'
  <1> DEFINE s == Target(job.run)
             f == Fault(job.run)
  <1>0. job.pc \in {"swap", "unswap"} /\ job.pc \notin {"failed", "undrop", "none"}
    BY DEF SwapSelector, UnswapSelector, At
  <1>1. job.kind = "script 11" /\ s \in Services /\ job.run \in Runs /\ f \in Proxied
    BY <1>0, Targeted DEF CollectInv, StepSound
  <1>2. /\ job.kept = job.found /\ job.found \in Config
        /\ config[s] = IF job.pc \in Injected THEN Faulty(job.found) ELSE job.found
    BY <1>0, Knows DEF Keeping, Injected
  <1>3. CASE SwapSelector
    <2> DEFINE c == [job.found EXCEPT !.selector = f]
    <2>1. c \in Config
      BY <1>1, <1>2, ConfigStep
    <2>2. job.pc = "swap" /\ config[s] = job.found
      BY <1>2, <1>3 DEF SwapSelector, At, Injected
    <2>3. Configure(s, c, "unswap")
      BY <1>3, <2>2 DEF SwapSelector
    <2>4. "unswap" \in Injected
      BY DEF Injected
    <2> QED BY <1>0, <1>1, <1>2, <2>1, <2>3, <2>4, ConfigureStep
  <1>4. CASE UnswapSelector
    <2> DEFINE c == [[job.found EXCEPT !.selector = f] EXCEPT !.selector = job.found.selector]
    <2>1. c = job.found
      BY <1>1, <1>2, ConfigStep
    <2>2. config[s] = [job.found EXCEPT !.selector = f]
      BY <1>2, <1>4 DEF UnswapSelector, At, Injected, Faulty
    <2>3. Configure(s, c, "unproxy")
      BY <1>2, <1>4, <2>2 DEF UnswapSelector
    <2>4. "unproxy" \notin Injected
      BY DEF Injected
    <2> HIDE DEF c
    <2> QED BY <1>0, <1>1, <1>2, <2>1, <2>3, <2>4, ConfigureStep
  <1> QED BY <1>3, <1>4

\* The wrong address; what is remembered is what the run found.
LEMMA SetEnvStep ==
  ASSUME CollectInv, Kept, SetBadEnv
  PROVE  CollectInv'
  <1> USE DEF CollectInv, Kept
  <1> DEFINE s == Target(job.run)
             c == [job.found EXCEPT !.badEnv = TRUE]
             bad == [config EXCEPT ![s] = c]
  <1>0. /\ job \in JobType /\ replicas \in [Services -> Nat] /\ clock \in Nat
        /\ replicas' = replicas /\ rows' = rows /\ clock' = clock
        /\ job.pc = "setenv" /\ config \in [Services -> Config] /\ job.found \in Config
    BY DEF SetBadEnv, At, CollectTypes, files, JobType
  <1>1. /\ job.kind = "script 11" /\ s \in Services /\ s # None /\ job.run \in Runs
        /\ Fault(job.run) = "http-500"
    BY <1>0, Targeted DEF StepSound
  <1>2. config[s] = job.found
    BY <1>0, <1>1 DEF TargetSound, Injected
  <1>3. bad = [config EXCEPT ![s].badEnv = TRUE]
    BY <1>0, <1>1, <1>2
  <1>4. c \in Config /\ bad \in [Services -> Config]
    <2>1. c \in Config
      BY <1>0, ConfigStep
    <2> QED BY <1>0, <2>1
  <1>5. CASE config' \in {config, bad} /\ Fails
    BY <1>0, <1>4, <1>5, FailingStep
  <1>6. CASE /\ config' = bad
             /\ job' = [job EXCEPT !.pc = "unsetenv", !.kept = config[s]]
             /\ UNCHANGED failures
    <2>2. /\ job' \in JobType /\ job'.pc = "unsetenv" /\ job'.run = job.run
          /\ job'.kind = job.kind /\ job'.found = job.found /\ job'.kept = job.found
      <3>1. "unsetenv" \in Steps
        BY DEF Steps
      <3> HIDE DEF s, bad, c
      <3> QED BY ONLY <1>0, <1>2, <1>6, <3>1 DEF JobType
    <2>3. StepSound'
      BY <1>0, <1>1, <2>2 DEF StepSound, Fault
    <2>4. c = IF job'.pc \in Injected THEN Faulty(job.found)' ELSE job.found
      BY <1>0, <2>2 DEF Faulty, Fault, Injected
    <2> HIDE DEF c
    <2> QED BY <1>0, <1>1, <1>4, <1>6, <2>2, <2>3, <2>4, ChangeStep DEF Injected, Keeping
  <1> QED BY <1>3, <1>5, <1>6 DEF SetBadEnv

\* The address is set back.
LEMMA RestoreEnvStep ==
  ASSUME CollectInv, Kept, RestoreEnv
  PROVE  CollectInv'
  <1> DEFINE s == Target(job.run)
             c == [[job.found EXCEPT !.badEnv = TRUE] EXCEPT !.badEnv = job.found.badEnv]
  <1>0. job.pc = "unsetenv"
    BY DEF RestoreEnv, At
  <1>1. job.kind = "script 11" /\ s \in Services /\ job.run \in Runs
    BY <1>0, Targeted DEF CollectInv
  <1>2. /\ job.kept = job.found /\ job.found \in Config /\ config[s] = Faulty(job.found)
    BY <1>0, Knows DEF Keeping, Injected
  <1>3. c = job.found
    BY <1>2, ConfigStep
  <1>4. config[s] = [job.found EXCEPT !.badEnv = TRUE]
    BY <1>0, <1>2 DEF Faulty
  <1>5. Configure(s, c, "end")
    BY <1>2, <1>4 DEF RestoreEnv
  <1>6. "end" \notin Injected
    BY DEF Injected
  <1> HIDE DEF c
  <1> QED BY <1>0, <1>1, <1>2, <1>3, <1>5, <1>6, ConfigureStep

\* The end of a run is noted in its row, whose scenario stays.
LEMMA FinishStep ==
  ASSUME CollectInv, FinishRun, batch' = batch
  PROVE  CollectInv'
  <1> USE DEF CollectInv
  <1>0. /\ job \in JobType /\ job.pc = "end" /\ clock \in Nat
        /\ config' = config /\ replicas' = replicas /\ clock' = clock /\ failures' = failures
        /\ job' = [job EXCEPT !.pc = "export"]
    BY DEF FinishRun, At, Ok, CollectTypes, cluster
  <1>1. job.run \in Runs
    BY <1>0 DEF StepSound
  <1>2. /\ job' \in JobType /\ job'.pc = "export" /\ job'.run = job.run
        /\ job'.kind = job.kind /\ job'.found = job.found
    <2>1. "export" \in Steps
      BY DEF Steps
    <2> QED BY ONLY <1>0, <2>1, JobStep
  <1>3. rows' \in [Runs -> RowType] /\ \A r \in Runs : rows'[r].fault = rows[r].fault
    BY <1>0, <1>1 DEF FinishRun, CollectTypes, RowType
  <1>4. CollectTypes'
    BY <1>0, <1>2, <1>3 DEF CollectTypes
  <1>5. StepSound'
    BY <1>0, <1>1, <1>2 DEF StepSound
  <1>6. Target(job.run)' = Target(job.run)
    BY <1>1, <1>2, <1>3 DEF Target
  <1>7. TargetSound'
    BY <1>0, <1>2, <1>6 DEF TargetSound, Injected, Keeping
  <1>8. ClusterSound'
    <2>1. Calm' => Calm
      BY <1>0 DEF Calm
    <2> QED BY <1>0, <1>2, <1>6, <2>1 DEF ClusterSound, Injected
  <1> QED BY <1>4, <1>5, <1>7, <1>8

-----------------------------------------------------------------------------
(* The batches. *)

\* A collection begins: it finds its target as it is.
LEMMA NextRunStep ==
  ASSUME CollectInv, NextRun
  PROVE  CollectInv'
  <1> USE DEF CollectInv
  <1> PICK r \in batch.todo :
        /\ StartRun(r, IF batch.script = "script 18" THEN "script 18" ELSE "script 11")
        /\ batch' = [batch EXCEPT !.todo = @ \ {r}]
    BY DEF NextRun
  <1> DEFINE kind == IF batch.script = "script 18" THEN "script 18" ELSE "script 11"
             p == IF kind = "script 18" THEN "load" ELSE FirstStep(r)
             found == IF kind = "script 18" \/ Target(r) = None THEN Deployed ELSE config[Target(r)]
  <1>0. /\ job = NoJob
        /\ config' = config /\ replicas' = replicas /\ rows' = rows
        /\ clock' = clock /\ failures' = failures
        /\ job' = [NoJob EXCEPT !.run = r, !.kind = kind, !.pc = p, !.found = found]
    BY DEF NextRun, StartRun, cluster, files
  <1>1. r \in Runs /\ batch' \in BatchType
    BY DEF CollectTypes, BatchType
  <1>2. Target(r) \in Services \union {None}
    BY <1>1, RowFacts
  <1>3. /\ kind \in {"script 11", "script 18"} /\ p \in {"load", "scale"} /\ p \in Steps
        /\ kind = "script 18" => p = "load"
        /\ p = "scale" => Fault(r) = "pod-kill"
    BY DEF FirstStep, Steps
  <1>4. found \in Config
    BY <1>2, DeployedType DEF CollectTypes
  <1>5. kind = "script 11" /\ Target(r) # None => found = config[Target(r)]
    OBVIOUS
  <1>6. /\ job' \in JobType /\ job'.pc = p /\ job'.run = r
        /\ job'.kind = kind /\ job'.found = found
    <2> HIDE DEF kind, p, found
    <2> QED BY ONLY <1>0, <1>1, <1>3, <1>4, DeployedType DEF JobType
  <1>7. Calm => found = Deployed /\ \A s \in Services : config[s] = Deployed /\ replicas[s] > 0
    BY <1>0, <1>2 DEF ClusterSound, NoJob, Injected
  <1> HIDE DEF kind, p, found
  <1>8. CollectTypes'
    BY <1>0, <1>1, <1>6 DEF CollectTypes
  <1>9. StepSound'
    BY <1>0, <1>1, <1>3, <1>6 DEF StepSound, Fault
  <1>10. TargetSound'
    BY <1>0, <1>3, <1>5, <1>6 DEF TargetSound, Target, Injected, Keeping
  <1>11. ClusterSound'
    <2>1. Calm' => Calm
      BY <1>0 DEF Calm, CollectTypes, BatchType, NoJob
    <2> QED BY <1>0, <1>3, <1>6, <1>7, <2>1 DEF ClusterSound, Injected
  <1> QED BY <1>8, <1>9, <1>10, <1>11

\* A collection ends.
LEMMA RunEndsStep ==
  ASSUME CollectInv, RunEnds
  PROVE  CollectInv'
  <1> USE DEF CollectInv
  <1>0. /\ job.pc \in {"done", "failed", "skipped"} /\ job' = NoJob
        /\ config' = config /\ replicas' = replicas /\ rows' = rows
        /\ clock' = clock /\ failures' = failures
    BY DEF RunEnds, cluster, files
  <1>1. batch' \in BatchType
    <2>1. job.run \in Runs
      BY <1>0 DEF StepSound
    <2>2. batch \in BatchType
      BY DEF CollectTypes
    <2>3. \/ batch' = batch
          \/ batch' = [batch EXCEPT !.done = @ \union {job.run}]
          \/ batch' = [batch EXCEPT !.failed = @ \union {job.run},
                                    !.pc = IF batch.stop THEN "died" ELSE @]
      BY <1>0 DEF RunEnds
    <2> DEFINE d == batch.done \union {job.run}
               f == batch.failed \union {job.run}
               p == IF batch.stop THEN "died" ELSE batch.pc
    <2>4. /\ d \in SUBSET Runs /\ f \in SUBSET Runs
          /\ p \in {"none", "collect", "rebuild", "rebuilt", "finished", "died"}
      BY <2>1, <2>2 DEF BatchType
    <2>5. \/ batch' = batch
          \/ batch' = [batch EXCEPT !.done = d]
          \/ batch' = [batch EXCEPT !.failed = f, !.pc = p]
      BY <2>3
    <2> HIDE DEF d, f, p
    <2>6. CASE batch' = [batch EXCEPT !.done = d]
      BY ONLY <2>2, <2>4, <2>6 DEF BatchType
    <2>7. CASE batch' = [batch EXCEPT !.failed = f, !.pc = p]
      BY ONLY <2>2, <2>4, <2>7 DEF BatchType
    <2> QED BY <2>2, <2>5, <2>6, <2>7
  <1>2. CollectTypes'
    BY <1>0, <1>1, DeployedType DEF CollectTypes
  <1>3. StepSound'
    BY <1>0 DEF StepSound, NoJob
  <1>4. TargetSound'
    BY <1>0 DEF TargetSound, NoJob
  <1>5. ClusterSound'
    <2>1. Calm' => Calm
      <3> DEFINE f == batch.failed \union {job.run}
      <3>1. batch \in BatchType /\ f # {}
        BY DEF CollectTypes
      <3>2. \/ batch' = batch /\ job.pc # "failed"
            \/ batch' = [batch EXCEPT !.done = @ \union {job.run}] /\ job.pc # "failed"
            \/ batch' = [batch EXCEPT !.failed = f,
                                      !.pc = IF batch.stop THEN "died" ELSE @]
        BY <1>0 DEF RunEnds
      <3> HIDE DEF f
      <3> QED BY <1>0, <3>1, <3>2 DEF Calm, BatchType
    <2> QED BY <1>0, <2>1 DEF ClusterSound, NoJob, Injected
  <1> QED BY <1>2, <1>3, <1>4, <1>5

\* What neither records nor configures.
LEMMA OtherSteps ==
  ASSUME CollectInv, batch' \in BatchType, config' = config, replicas' = replicas,
         rows' = rows, job' = job, clock' = clock,
         failures' = failures \/ failures' = failures + 1,
         \/ batch'.pc # "collect"
         \/ job = NoJob /\ batch'.undisturbed = Undisturbed
         \/ batch' = batch /\ failures' = failures
  PROVE  CollectInv'
  <1> USE DEF CollectInv
  <1>1. CollectTypes'
    BY DEF CollectTypes
  <1>2. StepSound'
    BY DEF StepSound, Fault
  <1>3. TargetSound'
    BY DEF TargetSound, Target, Faulty, Fault
  <1>4. ClusterSound'
    <2>1. Calm' => Calm \/ (job = NoJob /\ Undisturbed)
      BY DEF Calm, CollectTypes
    <2>2. CASE Calm
      BY <2>2 DEF ClusterSound, Target
    <2>3. CASE job = NoJob /\ Undisturbed
      BY <2>3 DEF CollectTypes, ClusterSound, Undisturbed, Disturbed, NoJob
    <2> QED BY <2>1, <2>2, <2>3 DEF ClusterSound
  <1> QED BY <1>1, <1>2, <1>3, <1>4

\* The records of a batch that starts, goes from recording to building, and
\* builds.
LEMMA BatchRecords ==
  ASSUME CollectInv
  PROVE  /\ NoBatch \in BatchType
         /\ StartBatch \/ StartExtended => batch' \in BatchType
         /\ AfterRuns \in BatchType
         /\ Done9 => batch' \in BatchType
         /\ [batch EXCEPT !.pc = "died"] \in BatchType
  <1>0. batch \in BatchType /\ clock \in Nat
    BY DEF CollectInv, CollectTypes
  <1>1. NoBatch \in BatchType
    BY DEF NoBatch, BatchType
  <1>2. ASSUME StartBatch PROVE batch' \in BatchType
    <2> DEFINE todo(m, sel) == IF m = "rebuild-only" THEN {} ELSE sel
               u == Undisturbed
    <2>. HIDE DEF todo, u
    <2>9. PICK mode \in Modes, selected \in SUBSET (Runs \ Extended) \ {{}},
             clean \in Cleans, stop \in BOOLEAN :
           batch' = [NoBatch EXCEPT
                       !.pc = "collect", !.script = "script 13", !.mode = mode, !.clean = clean,
                       !.stop = stop, !.selected = selected, !.since = clock,
                       !.todo = IF mode = "rebuild-only" THEN {} ELSE selected,
                       !.undisturbed = Undisturbed]
      BY ONLY <1>2, ZenonT(40) DEF StartBatch
    <2>. USE DEF todo, u
    <2>0. batch' = [NoBatch EXCEPT
                      !.pc = "collect", !.script = "script 13", !.mode = mode, !.clean = clean,
                      !.stop = stop, !.selected = selected, !.since = clock,
                      !.todo = todo(mode, selected), !.undisturbed = u]
      BY ONLY <2>9
    <2>1. /\ mode \in {"all", "collect-export", "rebuild-only"} /\ clean \in BOOLEAN
          /\ selected \in SUBSET Runs /\ todo(mode, selected) \in SUBSET Runs /\ u \in BOOLEAN
      BY ModesAssumption DEF Undisturbed
    <2> HIDE DEF todo, u
    <2>2. batch' = [pc |-> "collect", script |-> "script 13", mode |-> mode, clean |-> clean,
                    stop |-> stop, selected |-> selected, todo |-> todo(mode, selected),
                    done |-> {}, failed |-> {}, stage |-> 0, since |-> clock, undisturbed |-> u]
      BY ONLY <2>0 DEF NoBatch
    <2>3. {} \in SUBSET Runs /\ 0 \in Nat
      OBVIOUS
    <2> QED BY ONLY <1>0, <2>1, <2>2, <2>3 DEF BatchType
  <1>3. ASSUME StartExtended PROVE batch' \in BatchType
    <2> DEFINE fresh == Extended \ dirs
               u == Undisturbed
    <2>0. PICK mode \in {m \in {"all", "collect-export"} : m \in Modes} :
           batch' = [NoBatch EXCEPT
                       !.pc = "collect", !.script = "script 18", !.mode = mode,
                       !.selected = fresh, !.todo = fresh, !.since = clock, !.undisturbed = u]
      BY <1>3 DEF StartExtended
    <2>1. /\ mode \in {"all", "collect-export"}
          /\ fresh \in SUBSET Runs /\ u \in BOOLEAN
      BY RunsAssumption DEF Undisturbed
    <2> HIDE DEF fresh, u
    <2>2. batch' = [pc |-> "collect", script |-> "script 18", mode |-> mode, clean |-> FALSE,
                    stop |-> FALSE, selected |-> fresh, todo |-> fresh,
                    done |-> {}, failed |-> {}, stage |-> 0, since |-> clock, undisturbed |-> u]
      BY ONLY <2>0 DEF NoBatch
    <2>3. {} \in SUBSET Runs /\ 0 \in Nat
      OBVIOUS
    <2> QED BY ONLY <1>0, <2>1, <2>2, <2>3 DEF BatchType
  <1>4. AfterRuns \in BatchType
    BY <1>0 DEF AfterRuns, BatchType
  <1>5. Done9 => batch' \in BatchType
    <2> SUFFICES ASSUME Done9 PROVE batch' \in BatchType
      OBVIOUS
    <2>1. batch.stage \in Nat
      BY <1>0 DEF BatchType
    <2>2. batch.stage + 1 \in Nat
      BY <2>1
    <2> QED BY <1>0, <2>2 DEF Done9, BatchType
  <1>6. [batch EXCEPT !.pc = "died"] \in BatchType
    BY <1>0 DEF BatchType
  <1> QED BY <1>1, <1>2, <1>3, <1>4, <1>5, <1>6

\* The scripts of the build.
LEMMA RebuildStep ==
  ASSUME CollectInv, Rebuild
  PROVE  CollectInv'
  <1> USE DEF notData, collectVars, cluster, files
  <1>1. ASSUME batch.pc = "rebuild", Done9 \/ batch' = [batch EXCEPT !.pc = "died"]
        PROVE  batch' \in BatchType /\ batch'.pc # "collect"
    <2>1. batch' \in BatchType
      BY <1>1, BatchRecords
    <2>2. batch \in BatchType
      BY DEF CollectInv, CollectTypes
    <2> QED BY <1>1, <2>1, <2>2 DEF Done9, BatchType
  <1>2. CASE Import
    BY <1>1, <1>2, OtherSteps DEF Import, At9
  <1>3. CASE ParseTraces
    BY <1>1, <1>3, OtherSteps DEF ParseTraces, At9
  <1>4. CASE CleanSpans
    BY <1>1, <1>4, OtherSteps DEF CleanSpans, At9
  <1>5. CASE BuildFeatures(4, "trace", TraceFeatures) \/ BuildFeatures(5, "window", WindowFeatures)
    BY <1>1, <1>5, OtherSteps DEF BuildFeatures, At9
  <1>6. CASE LabelFeatures
    BY <1>1, <1>6, OtherSteps DEF LabelFeatures, At9
  <1>7. CASE BuildGraphs
    BY <1>1, <1>7, OtherSteps DEF BuildGraphs, At9
  <1>8. CASE ExportTensors
    BY <1>1, <1>8, OtherSteps DEF ExportTensors, At9
  <1>9. CASE MakeSplits
    BY <1>1, <1>9, OtherSteps DEF MakeSplits, At9
  <1>10. CASE ScriptFails
    BY <1>1, <1>10, OtherSteps DEF ScriptFails
  <1> QED BY <1>2, <1>3, <1>4, <1>5, <1>6, <1>7, <1>8, <1>9, <1>10 DEF Rebuild

\* A step of a collection.
LEMMA CollectionStep ==
  ASSUME CollectInv, CollectStep, UNCHANGED dataVars
  PROVE  CollectInv'
  <1>1. batch' = batch
    BY DEF dataVars
  <1>2. CASE FinishRun
    BY <1>1, <1>2, FinishStep
  <1>3. CASE ~FinishRun
    <2>1. Kept
      BY <1>1, <1>3
         DEF Kept, CollectStep, InjectFault, files, ScaleForPodKill, StartLoadgen, RecordStart,
             KillPod, DropReplicas, UndropReplicas, CaptureOriginal, StressResources,
             UnstressResources, RestoreReplicas, CreateFaultProxy, SwapSelector, UnswapSelector,
             DeleteFaultProxy, SetBadEnv, RestoreEnv, ExportTraces, FetchAndSave,
             Configure, ScaleDeployment
    <2> QED BY <1>3, <2>1, LoadStep, StartStep, KillStep, ExportStep, FetchStep, ScalingSteps,
               CaptureStep, ProxyStep, UnproxyStep, StressSteps, SwapSteps, SetEnvStep,
               RestoreEnvStep
            DEF CollectStep, InjectFault
  <1> QED BY <1>2, <1>3

\* The record of a batch that starts.
LEMMA BatchShape ==
  ASSUME StartBatch \/ StartExtended
  PROVE  /\ batch'.pc = "collect" /\ batch'.stage = 0 /\ batch'.since = clock
         /\ batch'.done = {} /\ (batch'.clean => batch'.script = "script 13")
         /\ batch'.script = "script 13" =>
              /\ batch'.selected \intersect Extended = {}
              /\ batch'.mode = "all" => batch'.todo = batch'.selected
  <1>1. CASE StartBatch
    <2> DEFINE todo(m, sel) == IF m = "rebuild-only" THEN {} ELSE sel
               u == Undisturbed
    <2>. HIDE DEF todo, u
    <2>9. PICK mode \in Modes, selected \in SUBSET (Runs \ Extended) \ {{}},
             clean \in Cleans, stop \in BOOLEAN :
           batch' = [NoBatch EXCEPT
                       !.pc = "collect", !.script = "script 13", !.mode = mode, !.clean = clean,
                       !.stop = stop, !.selected = selected, !.since = clock,
                       !.todo = IF mode = "rebuild-only" THEN {} ELSE selected,
                       !.undisturbed = Undisturbed]
      BY ONLY <1>1, ZenonT(40) DEF StartBatch
    <2>. USE DEF todo, u
    <2>0. batch' = [NoBatch EXCEPT
                      !.pc = "collect", !.script = "script 13", !.mode = mode, !.clean = clean,
                      !.stop = stop, !.selected = selected, !.since = clock,
                      !.todo = todo(mode, selected), !.undisturbed = u]
      BY ONLY <2>9
    <2>1. selected \intersect Extended = {} /\ (mode = "all" => todo(mode, selected) = selected)
      OBVIOUS
    <2> HIDE DEF todo, u
    <2>2. /\ batch'.pc = "collect" /\ batch'.stage = 0 /\ batch'.since = clock
          /\ batch'.done = {} /\ batch'.mode = mode /\ batch'.script = "script 13"
          /\ batch'.selected = selected /\ batch'.todo = todo(mode, selected)
      BY ONLY <2>0 DEF NoBatch
    <2> QED BY <2>1, <2>2
  <1>2. CASE StartExtended
    <2> DEFINE fresh == Extended \ dirs
               u == Undisturbed
    <2>0. PICK mode \in {m \in {"all", "collect-export"} : m \in Modes} :
           batch' = [NoBatch EXCEPT
                       !.pc = "collect", !.script = "script 18", !.mode = mode,
                       !.selected = fresh, !.todo = fresh, !.since = clock, !.undisturbed = u]
      BY <1>2 DEF StartExtended
    <2> HIDE DEF fresh, u
    <2>1. /\ batch'.pc = "collect" /\ batch'.stage = 0 /\ batch'.since = clock
          /\ batch'.done = {} /\ batch'.script = "script 18" /\ batch'.clean = FALSE
      BY ONLY <2>0 DEF NoBatch
    <2> QED BY <2>1
  <1> QED BY <1>1, <1>2

\* A collection ends before its batch goes on.
LEMMA JobStays ==
  ASSUME CollectInv, JobInBatch, [Next]_vars
  PROVE  JobInBatch'
  <1> USE DEF JobInBatch
  <1>0. batch \in BatchType
    BY DEF CollectInv, CollectTypes
  <1>1. CASE StartBatch \/ StartExtended
    BY <1>1, BatchShape
  <1>2. CASE NextRun
    BY <1>0, <1>2 DEF NextRun, BatchType
  <1>3. CASE CollectStep /\ UNCHANGED dataVars
    <2>1. job.pc # "none"
      BY <1>3
         DEF At, CollectStep, InjectFault, ScaleForPodKill, StartLoadgen, RecordStart,
             KillPod, DropReplicas, UndropReplicas, CaptureOriginal, StressResources,
             UnstressResources, RestoreReplicas, CreateFaultProxy, SwapSelector,
             UnswapSelector, DeleteFaultProxy, SetBadEnv, RestoreEnv, FinishRun,
             ExportTraces, FetchAndSave
    <2> QED BY <1>3, <2>1 DEF dataVars
  <1>4. CASE RunEnds
    BY <1>4 DEF RunEnds, NoJob
  <1>5. CASE EndRecording \/ CleanRoots
    BY <1>5 DEF EndRecording, CleanRoots, Recorded, NoJob, collectVars
  <1>6. CASE Rebuild
    <2>1. batch.pc = "rebuild" /\ job' = job
      BY <1>6
         DEF Rebuild, Import, ParseTraces, CleanSpans, BuildFeatures, LabelFeatures, BuildGraphs,
             ExportTensors, MakeSplits, ScriptFails, At9, notData, collectVars
    <2> QED BY <2>1
  <1>7. CASE UNCHANGED vars
    BY <1>7 DEF vars, collectVars, dataVars
  <1> QED BY <1>1, <1>2, <1>3, <1>4, <1>5, <1>6, <1>7 DEF Next

-----------------------------------------------------------------------------
(* The theorems. *)

\* The invariant of the recordings.
THEOREM CollectInvariant == Spec => [](CollectInv /\ JobInBatch)
  <1>1. Init => CollectInv
    <2> SUFFICES ASSUME Init PROVE CollectInv
      OBVIOUS
    <2>0. /\ config = [s \in Services |-> Deployed] /\ job = NoJob /\ failures = 0 /\ clock = 0
          /\ replicas \in [Services -> Replicas0] /\ batch = NoBatch
      BY DEF Init, CollectInit
    <2>1. replicas \in [Services -> Nat \ {0}]
      BY <2>0, ReplicasAssumption
    <2>2. rows \in [Runs -> RowType]
      BY DEF Init, CollectInit, RowType
    <2>3. batch \in BatchType
      BY <2>0 DEF NoBatch, BatchType
    <2>4. CollectTypes
      BY <2>0, <2>1, <2>2, <2>3, DeployedType DEF CollectTypes
    <2>5. StepSound /\ TargetSound
      BY <2>0 DEF StepSound, TargetSound, NoJob
    <2>6. ClusterSound
      BY <2>0, <2>1 DEF ClusterSound, NoJob
    <2> QED BY <2>4, <2>5, <2>6 DEF CollectInv
  <1>2. CollectInv /\ JobInBatch /\ [Next]_vars => CollectInv'
    <2> SUFFICES ASSUME CollectInv, JobInBatch, [Next]_vars PROVE CollectInv'
      OBVIOUS
    <2>0. batch \in BatchType
      BY DEF CollectInv, CollectTypes
    <2>1. CASE StartBatch \/ StartExtended
      <3>1. job = NoJob
        BY <2>1 DEF StartBatch, StartExtended, Over, JobInBatch, CollectInv, StepSound
      <3>2. batch'.undisturbed = Undisturbed
        BY <2>1 DEF StartBatch, StartExtended, NoBatch
      <3> QED BY <2>1, <3>1, <3>2, BatchRecords, OtherSteps
              DEF StartBatch, StartExtended, collectVars, cluster, files
    <2>2. CASE NextRun
      BY <2>2, NextRunStep
    <2>3. CASE CollectStep /\ UNCHANGED dataVars
      BY <2>3, CollectionStep
    <2>4. CASE RunEnds
      BY <2>4, RunEndsStep
    <2>5. CASE EndRecording \/ CleanRoots
      <3>1. batch'.pc # "collect"
        BY <2>0, <2>5 DEF EndRecording, CleanRoots, AfterRuns, BatchType
      <3> QED BY <2>5, <3>1, BatchRecords, OtherSteps
              DEF EndRecording, CleanRoots, collectVars, cluster, files
    <2>6. CASE Rebuild
      BY <2>6, RebuildStep
    <2>7. CASE UNCHANGED vars
      BY <2>0, <2>7, OtherSteps DEF vars, collectVars, cluster, files, dataVars
    <2> QED BY <2>1, <2>2, <2>3, <2>4, <2>5, <2>6, <2>7 DEF Next
  <1>3. Init => JobInBatch
    BY DEF Init, CollectInit, NoJob, JobInBatch
  <1>4. CollectInv /\ JobInBatch /\ [Next]_vars => JobInBatch'
    BY JobStays
  <1> QED BY <1>1, <1>2, <1>3, <1>4, PTL DEF Spec

\* A run of a fault that has ended leaves its target configured as it found it,
\* whatever earlier runs left and whichever commands of theirs failed.
THEOREM RunRestoresTarget == Spec => []CompletedRunRestores
  <1>1. CollectInv => CompletedRunRestores
    BY DEF CollectInv, TargetSound, CompletedRunRestores, Injected
  <1> QED BY <1>1, CollectInvariant, PTL

\* Between runs nothing is disturbed as long as no command has failed.
THEOREM CleanUntilFailure == Spec => []LeftoversNeedFailure
  <1>1. CollectInv => LeftoversNeedFailure
    BY DEF CollectInv, CollectTypes, ClusterSound, Calm, LeftoversNeedFailure, Idle, Undisturbed,
           Disturbed, Injected
  <1> QED BY <1>1, CollectInvariant, PTL

-----------------------------------------------------------------------------
(* The splits. *)

\* The rounded shares leave a run for train, and one for test when there are two.
LEMMA SplitCountsSound ==
  ASSUME NEW n \in Nat \ {0}, NEW c \in SplitCounts(n)
  PROVE  /\ c.train \in 1 .. n /\ c.val \in 0 .. n
         /\ c.train + c.val <= n
         /\ n > 1 => c.train + c.val < n
  <1>1. c.train \in 0 .. n /\ c.val \in 0 .. n
    BY DEF SplitCounts
  <1>2. PICK k \in 0 .. n : /\ 2 * (10 * k - n * 7) \in -10 .. 10
                            /\ c.train = Least(n, IF n >= 3 THEN Most(1, k) ELSE Most(1, n - 1))
    BY DEF SplitCounts, IsRounded
  <1>3. PICK v \in 0 .. n : /\ 2 * (100 * v - n * 15) \in -100 .. 100
                            /\ c.val = Least(IF n >= 6 THEN v ELSE 0, n - c.train)
    BY DEF SplitCounts, IsRounded
  <1>4. CASE n < 3
    BY <1>1, <1>2, <1>3, <1>4 DEF Least, Most
  <1>5. CASE n \in 3 .. 5
    BY <1>1, <1>2, <1>3, <1>5 DEF Least, Most
  <1>6. CASE n >= 6
    BY <1>1, <1>2, <1>3, <1>6 DEF Least, Most
  <1> QED BY <1>4, <1>5, <1>6

\* A shuffled order of a finite group lists all of it.
LEMMA ShufflesCover ==
  ASSUME NEW g, IsFiniteSet(g), NEW s \in Shuffles(g)
  PROVE  \A r \in g : \E i \in 1 .. Cardinality(g) : s[i] = r
  <1> DEFINE n == Cardinality(g)
  <1>1. n \in Nat
    BY FS_CardinalityType
  <1>2. IsFiniteSet(1 .. n) /\ Cardinality(1 .. n) = n
    BY <1>1, FS_Interval
  <1>3. s \in [1 .. n -> g] /\ \A i, j \in 1 .. n : s[i] = s[j] => i = j
    BY DEF Shuffles
  <1> HIDE DEF n
  <1>4. s \in Injection(1 .. n, g)
    BY <1>3 DEF Injection, IsInjective
  <1>5. s \in Surjection(1 .. n, g)
    <2>1. Cardinality(1 .. n) = Cardinality(g)
      BY <1>2 DEF n
    <2> QED BY <1>4, <2>1, FS_Injection
  <1> QED BY <1>5 DEF Surjection, n

\* The slices of a group divide it.
LEMMA SlicesDivide ==
  ASSUME NEW g, IsFiniteSet(g), g # {}, NEW s \in Shuffles(g),
         NEW c \in SplitCounts(Cardinality(g))
  PROVE  LET d == Slices(s, c) IN
         /\ d["train"] \union d["val"] \union d["test"] = g
         /\ \A x, y \in SplitNames : x # y => d[x] \intersect d[y] = {}
         /\ d["train"] # {}
         /\ Cardinality(g) > 1 => d["test"] # {}
  <1> DEFINE n == Cardinality(g)
             train == {s[i] : i \in {k \in 1 .. n : k <= c.train}}
             val == {s[i] : i \in {k \in 1 .. n : c.train < k /\ k <= c.train + c.val}}
             test == {s[i] : i \in {k \in 1 .. n : c.train + c.val < k}}
  <1>1. n \in Nat \ {0}
    BY FS_CardinalityType, FS_EmptySet
  <1>2. s \in [1 .. n -> g] /\ \A i, j \in 1 .. n : s[i] = s[j] => i = j
    BY DEF Shuffles
  <1>3. Slices(s, c) = [train |-> train, val |-> val, test |-> test]
    BY <1>2 DEF Slices
  <1>4. /\ c.train \in 1 .. n /\ c.val \in 0 .. n
        /\ c.train + c.val <= n
        /\ n > 1 => c.train + c.val < n
    BY <1>1, SplitCountsSound
  <1>5. \A r \in g : \E i \in 1 .. n : s[i] = r
    BY ShufflesCover
  <1>6. train \union val \union test = g
    BY <1>1, <1>2, <1>4, <1>5
  <1>7. train \intersect val = {} /\ train \intersect test = {} /\ val \intersect test = {}
    BY <1>1, <1>2, <1>4
  <1>8. train # {}
    <2>1. 1 \in 1 .. n /\ 1 <= c.train
      BY <1>1, <1>4
    <2> QED BY <2>1
  <1>9. n > 1 => test # {}
    <2>1. n > 1 => n \in 1 .. n /\ c.train + c.val < n
      BY <1>1, <1>4
    <2> QED BY <2>1
  <1> HIDE DEF n, train, val, test
  <1> QED BY <1>3, <1>6, <1>7, <1>8, <1>9 DEF n, SplitNames

\* That p divides the catalog as it should.
Divides(p) ==
  /\ UNION {p[x] : x \in SplitNames} = Imported
  /\ \A x, y \in SplitNames : x # y => p[x] \intersect p[y] = {}
  /\ \A g \in Groups : /\ g \intersect p["train"] # {}
                       /\ Cardinality(g) > 1 => g \intersect p["test"] # {}

\* The groups divide the untagged runs of the catalog.
LEMMA GroupsDivide ==
  ASSUME CollectTypes
  PROVE  /\ \A g \in Groups : g # {} /\ g \subseteq Untagged /\ IsFiniteSet(g)
         /\ \A r \in Untagged : \E g \in Groups : r \in g
         /\ \A g, h \in Groups : \A r \in Runs : r \in g /\ r \in h => g = h
  <1>1. Untagged \subseteq Runs
    BY DEF Untagged, Imported
  <1>2. \A g \in Groups : \E f \in FaultRows : g = {r \in Untagged : rows[r].fault = f}
    BY DEF Groups
  <1>3. ASSUME NEW g \in Groups
        PROVE  g # {} /\ g \subseteq Untagged /\ IsFiniteSet(g)
    <2>1. g # {} /\ g \subseteq Untagged
      BY <1>2 DEF Groups
    <2>2. IsFiniteSet(Runs) /\ g \subseteq Runs
      BY <1>1, <2>1, RunsAssumption
    <2> QED BY <2>1, <2>2, FS_Subset
  <1>4. ASSUME NEW r \in Untagged
        PROVE  \E g \in Groups : r \in g
    <2> DEFINE g == {q \in Untagged : rows[q].fault = rows[r].fault}
    <2>1. rows[r].fault \in FaultRows
      BY <1>1, RowFacts
    <2>2. g \in Groups
      BY <2>1 DEF Groups
    <2> QED BY <2>2
  <1>5. ASSUME NEW g \in Groups, NEW h \in Groups, NEW r \in Runs, r \in g, r \in h
        PROVE  g = h
    <2>1. PICK f \in FaultRows : g = {q \in Untagged : rows[q].fault = f}
      BY <1>2
    <2>2. PICK e \in FaultRows : h = {q \in Untagged : rows[q].fault = e}
      BY <1>2
    <2>3. rows[r].fault = f /\ rows[r].fault = e
      BY <1>5, <2>1, <2>2
    <2> QED BY <2>1, <2>2, <2>3
  <1> QED BY <1>3, <1>4, <1>5

\* What MakeSplits may choose divides the catalog.
LEMMA ChoicesDivide ==
  ASSUME CollectTypes, NEW p \in SplitChoices
  PROVE  Divides(p)
  <1> DEFINE Of(g) == {Slices(s, c) : s \in Shuffles(g), c \in SplitCounts(Cardinality(g))}
             Tagged(x) == {r \in Imported : SplitTag[r] = x}
  <1>1. PICK d \in [Groups -> UNION {Of(g) : g \in Groups}] :
          /\ \A g \in Groups : d[g] \in Of(g)
          /\ p = [x \in SplitNames |-> Tagged(x) \union UNION {d[g][x] : g \in Groups}]
    BY DEF SplitChoices
  <1>2. ASSUME NEW g \in Groups
        PROVE  /\ d[g]["train"] \union d[g]["val"] \union d[g]["test"] = g
               /\ \A x, y \in SplitNames : x # y => d[g][x] \intersect d[g][y] = {}
               /\ d[g]["train"] # {}
               /\ Cardinality(g) > 1 => d[g]["test"] # {}
    <2>1. PICK s \in Shuffles(g), c \in SplitCounts(Cardinality(g)) : d[g] = Slices(s, c)
      BY <1>1
    <2>2. IsFiniteSet(g) /\ g # {}
      BY GroupsDivide
    <2> QED BY <2>1, <2>2, SlicesDivide
  <1> HIDE DEF Of
  <1>3. \A x \in SplitNames : p[x] = Tagged(x) \union UNION {d[g][x] : g \in Groups}
    BY <1>1
  <1>4. \A g \in Groups : \A x \in SplitNames : d[g][x] \subseteq g
    BY <1>2 DEF SplitNames
  <1>5. \A r \in Imported : r \in Runs /\ SplitTag[r] \in SplitNames \union {""}
    BY SplitAssumption DEF Imported
  <1>6. \A g \in Groups : \A r \in g : r \in Imported /\ r \in Runs /\ SplitTag[r] = ""
    BY GroupsDivide DEF Untagged, Imported
  <1>7. \A r \in Imported : \E x \in SplitNames : r \in p[x]
    <2> TAKE r \in Imported
    <2>1. CASE SplitTag[r] \in SplitNames
      BY <1>3, <2>1
    <2>2. CASE SplitTag[r] = ""
      <3>1. PICK g \in Groups : r \in g
        BY <2>2, GroupsDivide DEF Untagged
      <3>2. PICK x \in SplitNames : r \in d[g][x]
        BY <1>2, <3>1 DEF SplitNames
      <3> QED BY <1>3, <3>2
    <2> QED BY <1>5, <2>1, <2>2
  <1>8. UNION {p[x] : x \in SplitNames} = Imported
    <2>1. \A x \in SplitNames : p[x] \subseteq Imported
      <3> SUFFICES ASSUME NEW x \in SplitNames, NEW r \in p[x]
                   PROVE  r \in Imported
        OBVIOUS
      <3>1. r \in Tagged(x) \/ \E g \in Groups : r \in d[g][x]
        BY <1>3
      <3>2. r \in Tagged(x) \/ \E g \in Groups : r \in g
        BY <1>4, <3>1
      <3> QED BY <1>6, <3>2
    <2> QED BY <1>7, <2>1
  <1>9. ASSUME NEW x \in SplitNames, NEW y \in SplitNames, x # y,
               NEW r, r \in p[x], r \in p[y]
        PROVE  FALSE
    <2>1. \/ r \in Tagged(x)
          \/ \E g \in Groups : r \in d[g][x]
      BY <1>3, <1>9
    <2>2. \/ r \in Tagged(y)
          \/ \E g \in Groups : r \in d[g][y]
      BY <1>3, <1>9
    <2>3. "" \notin SplitNames
      BY DEF SplitNames
    <2>4. ~(r \in Tagged(x) \/ r \in Tagged(y))
      BY <1>4, <1>6, <1>9, <2>1, <2>2, <2>3
    <2>5. PICK g \in Groups, h \in Groups : r \in d[g][x] /\ r \in d[h][y]
      BY <2>1, <2>2, <2>4
    <2>6. r \in g /\ r \in h
      BY <1>4, <1>9, <2>5
    <2>7. r \in Runs
      BY <1>6, <2>6
    <2>8. g = h
      BY <2>6, <2>7, GroupsDivide
    <2> QED BY <1>2, <1>9, <2>5, <2>8
  <1>10. ASSUME NEW g \in Groups
         PROVE  /\ g \intersect p["train"] # {}
                /\ Cardinality(g) > 1 => g \intersect p["test"] # {}
    <2>1. "train" \in SplitNames /\ "test" \in SplitNames
      BY DEF SplitNames
    <2>2. \A x \in SplitNames : d[g][x] \subseteq g \intersect p[x]
      BY <1>3, <1>4
    <2> QED BY <1>2, <2>1, <2>2
  <1> QED BY <1>8, <1>9, <1>10 DEF Divides

\* What the last batch built divides the catalog.
SplitsInv == batch.pc = "rebuilt" => Divides(splits)

\* What divides a catalog divides it as long as the rows and the catalog stay.
LEMMA DividesStays ==
  ASSUME Divides(splits), splits' = splits, rows' = rows, catalog' = catalog
  PROVE  Divides(splits)'
  <1>1. Imported' = Imported
    BY DEF Imported
  <1>2. Untagged' = Untagged
    BY <1>1 DEF Untagged
  <1>3. Groups' = Groups
    BY <1>2 DEF Groups
  <1> QED BY <1>1, <1>3 DEF Divides

-----------------------------------------------------------------------------
(* What the files hold. *)

Traces == Recording \union {NoTraces}
Metas == Meta \union {NoMeta}

FilesTyped ==
  /\ rows \in [Runs -> Row]
  /\ raw \in [Runs -> [traces : Traces, meta : Metas]]
  /\ exports \in [Runs -> Traces] /\ spans \in [Runs -> Traces] /\ cleaned \in [Runs -> Traces]
  /\ catalog \in [Runs -> Metas]
  /\ features \in [Tables -> SUBSET Feature]
  /\ splits \in [SplitNames -> SUBSET Runs]

\* The steps of a collection before its start time.
Early == {"scale", "load", "start"}

ClockSound ==
  /\ clock \in 0 .. MaxClock /\ batch.since <= clock
  /\ job.pc \in Early => clock < MaxClock
  /\ job.pc \notin Early \union {"none", "failed", "skipped"} => batch.since < clock

Building == batch.pc \in {"rebuild", "rebuilt"}

\* The runs of a batch are taken one by one, each of them once.
BatchSound ==
  /\ job.pc = "none" => job = NoJob
  /\ job.pc # "none" => job.run \notin batch.todo \union batch.done
  /\ batch.todo \intersect batch.done = {}
  /\ batch.stage \in 0 .. 10 /\ (batch.pc = "rebuild" => batch.stage \in 1 .. 9)
  /\ batch.pc = "rebuilt" => batch.stage = 10
  /\ batch.clean => batch.script = "script 13"
  /\ batch.script = "script 13" =>
       /\ job.kind # "script 18" /\ batch.selected \intersect Extended = {}
       /\ batch.mode = "all" =>
            \A r \in batch.selected \ (batch.todo \union batch.done \union batch.failed) :
              job.pc # "none" /\ r = job.run
  /\ Building => batch.todo = {} /\ batch.failed = {} /\ job.pc = "none"

\* The row, and the traces, of a run whose times are in its row.
RowOf(r, t) == rows[r].at = t /\ (rows[r].window <=> Fault(r) # "none")

TracesOf(r, t) ==
  exports[r] \in Recording /\ exports[r].at = t /\ (exports[r].injected <=> Fault(r) # "none")

\* What the batch recorded is in the rows and in the trace files.
RecordSound ==
  /\ Calm => ~job.foreign
  /\ job.kind = "script 11" =>
       /\ job.pc \in {"export", "done"} => RowOf(job.run, clock)
       /\ job.pc = "done" => TracesOf(job.run, clock) /\ exports[job.run].foreign = job.foreign
  /\ batch.script = "script 13" =>
       \A r \in batch.done :
         /\ RowOf(r, rows[r].at) /\ TracesOf(r, rows[r].at) /\ batch.since < rows[r].at
         /\ batch.undisturbed /\ batch.failed = {} => ~exports[r].foreign

\* A run that the batch recorded, in a batch that records what it rebuilds.
Fresh(r) == batch.script = "script 13" /\ batch.mode = "all" /\ r \in batch.selected

\* Script 02 took what the batch recorded.
ImportSound ==
  Building /\ batch.stage > 1 =>
    \A r \in Runs : Fresh(r) =>
      catalog[r] = RowMeta(r) /\ raw[r] = [traces |-> exports[r], meta |-> RowMeta(r)]

\* A row of the tables is of the cleaned spans, and its traces of one phase.
RowTrue(f) ==
  Fresh(f.run) =>
    /\ f.run \in Cleaned /\ f.at = cleaned[f.run].at
    /\ Fault(f.run) # "none" => f.phase \in Moments /\ f.moments = {f.phase}

\* When the roots were cleaned, every file is of this build.
SpansSound ==
  /\ batch.stage = 1 => \A r \in Runs : raw[r].meta = NoMeta
  /\ batch.stage > 1 => \A r \in Runs : raw[r].meta # NoMeta => r \in Imported
  /\ batch.stage < 3 => \A r \in Runs : spans[r] = NoTraces
  /\ batch.stage < 4 => \A r \in Runs : cleaned[r] = NoTraces
  /\ \A r \in Runs : spans[r] # NoTraces => raw[r].meta # NoMeta /\ spans[r] = raw[r].traces
  /\ \A r \in Runs : cleaned[r] # NoTraces =>
       /\ spans[r] # NoTraces /\ cleaned[r].at = spans[r].at
       /\ cleaned[r].injected = spans[r].injected /\ cleaned[r].foreign = spans[r].foreign

GraphsSound ==
  /\ batch.stage < 8 => \A r \in Runs : payloads[r] = NoGraph
  /\ batch.stage < 9 => \A r \in Runs : tensors[r] = NoGraph
  /\ \A r \in Runs : payloads[r] # NoGraph =>
       cleaned[r] # NoTraces /\ payloads[r].at = cleaned[r].at /\ payloads[r].root
  /\ \A r \in Runs : tensors[r] # NoGraph => tensors[r] = payloads[r]

TablesSound ==
  /\ batch.stage < 5 => features = Empty
  /\ batch.stage < 7 => labelled = Empty
  /\ \A t \in Tables : \A f \in features[t] : RowTrue(f)
  /\ \A t \in Tables : \A l \in labelled[t] : RowTrue(l.row) /\ l.is_anomaly = IsAnomaly(l.row)

CleanSound == Building /\ batch.clean => SpansSound /\ GraphsSound /\ TablesSound

DataInv == FilesTyped /\ ClockSound /\ BatchSound /\ RecordSound /\ ImportSound /\ CleanSound

-----------------------------------------------------------------------------
(* The collections and the files. *)

\* A collection goes from step to step, and not back before its start time.
Moves ==
  /\ job'.run = job.run /\ job'.kind = job.kind
  /\ job.pc \notin {"none", "done", "failed", "skipped"} /\ job'.pc # "none"
  /\ job'.pc \in Early => job.pc \in Early
  /\ Calm' => Calm

\* A step that records nothing.
Plain ==
  /\ job'.foreign = job.foreign
  /\ job'.pc \notin {"export", "done"}
  /\ UNCHANGED <<files, clock>>
  /\ job.pc \in Early => job'.pc \in Early \union {"failed"}

\* The steps of an injection are after the start time.
LEMMA InjectMoves ==
  ASSUME CollectInv, batch' = batch, InjectFault \/ ScaleForPodKill \/ StartLoadgen
  PROVE  Moves /\ Plain
  <1>0. job \in JobType /\ failures \in Nat
    BY DEF CollectInv, CollectTypes
  <1>1. UNCHANGED <<files, clock>>
    BY DEF InjectFault, ScaleForPodKill, StartLoadgen, KillPod, DropReplicas, UndropReplicas,
           CaptureOriginal, StressResources, UnstressResources, RestoreReplicas,
           CreateFaultProxy, SwapSelector, UnswapSelector, DeleteFaultProxy, SetBadEnv,
           RestoreEnv, Configure, ScaleDeployment
  <1>2. /\ job'.run = job.run /\ job'.kind = job.kind /\ job'.foreign = job.foreign
        /\ job.pc \notin {"none", "done", "failed", "skipped"}
        /\ failures' = failures \/ (failures' = failures + 1 /\ job'.pc = "failed")
        /\ job.pc \in Early => job'.pc \in {"load", "start", "failed"}
        /\ job.pc \notin Early => job'.pc \notin Early
        /\ job'.pc \notin {"none", "export", "done"}
    <2>1. CASE ScaleForPodKill \/ StartLoadgen
      BY <1>0, <2>1 DEF ScaleForPodKill, StartLoadgen, ScaleDeployment, At, Ok, Fails, Early, JobType
    <2>2. CASE KillPod
      BY <1>0, <2>2 DEF KillPod, At, Fails, Early, JobType
    <2>3. CASE DropReplicas \/ UndropReplicas \/ RestoreReplicas
      BY <1>0, <2>3 DEF DropReplicas, UndropReplicas, RestoreReplicas, ScaleDeployment, At, Ok, Fails, Early, JobType
    <2>4. CASE CaptureOriginal
      BY <1>0, <2>4 DEF CaptureOriginal, At, Fails, Early, JobType
    <2>5. CASE StressResources \/ UnstressResources
      BY <1>0, <2>5 DEF StressResources, UnstressResources, Configure, At, Ok, Fails, Early, JobType
    <2>6. CASE CreateFaultProxy \/ DeleteFaultProxy
      BY <1>0, <2>6 DEF CreateFaultProxy, DeleteFaultProxy, At, Ok, Fails, Early, JobType
    <2>7. CASE SwapSelector \/ UnswapSelector
      BY <1>0, <2>7 DEF SwapSelector, UnswapSelector, Configure, At, Ok, Fails, Early, JobType
    <2>8. CASE SetBadEnv \/ RestoreEnv
      BY <1>0, <2>8 DEF SetBadEnv, RestoreEnv, Configure, At, Ok, Fails, Early, JobType
    <2> QED BY <2>1, <2>2, <2>3, <2>4, <2>5, <2>6, <2>7, <2>8 DEF InjectFault
  <1>3. Calm' => Calm
    BY <1>0, <1>2 DEF Calm
  <1> QED BY <1>1, <1>2, <1>3 DEF Moves, Plain, Early

\* The other steps of a collection.
LEMMA RecordMoves ==
  ASSUME CollectInv, batch' = batch, RecordStart \/ FinishRun \/ ExportTraces \/ FetchAndSave
  PROVE  /\ Moves
         /\ RecordStart => job'.pc \notin Early \union {"export", "done", "failed", "skipped"}
         /\ ~RecordStart => job.pc \notin Early /\ job'.pc \notin Early /\ job'.foreign = job.foreign
         /\ FinishRun => job'.pc = "export"
  <1>0. job \in JobType /\ failures \in Nat
    BY DEF CollectInv, CollectTypes
  <1>1. CASE RecordStart
    <2> DEFINE p == IF job.kind = "script 18" THEN "fetch" ELSE FaultStep(job.run)
    <2>1. job.pc = "start" /\ failures' = failures
      BY <1>1 DEF RecordStart, At
    <2>2. p \in {"end", "kill", "drop", "setenv", "capture", "proxy", "fetch"}
      <3>1. job.run \in Runs /\ Fault(job.run) \in FaultTypes
        BY <2>1, RowFacts DEF CollectInv, StepSound
      <3> QED BY <3>1 DEF FaultStep, FaultTypes
    <2>3. job'.pc = p /\ job'.run = job.run /\ job'.kind = job.kind
      <3>1. job' = [job EXCEPT !.pc = p, !.foreign = \E s \in Services : Disturbed(s)]
        BY <1>1 DEF RecordStart
      <3> HIDE DEF p
      <3> QED BY <1>0, <3>1 DEF JobType
    <2> HIDE DEF p
    <2>4. Calm' => Calm
      BY <2>1 DEF Calm
    <2>5. ~FinishRun
      BY <2>1 DEF FinishRun, At
    <2> QED BY <1>1, <2>1, <2>2, <2>3, <2>4, <2>5 DEF Moves, Early
  <1>2. CASE FinishRun
    <2>1. /\ job.pc = "end" /\ job'.pc = "export" /\ job'.run = job.run /\ job'.kind = job.kind
          /\ job'.foreign = job.foreign /\ failures' = failures
      BY <1>0, <1>2 DEF FinishRun, At, Ok, JobType
    <2>2. Calm' => Calm
      BY <2>1 DEF Calm
    <2>3. ~RecordStart
      BY <2>1 DEF RecordStart, At
    <2> QED BY <2>1, <2>2, <2>3 DEF Moves, Early
  <1>3. CASE ExportTraces \/ FetchAndSave
    <2>1. /\ job.pc \in {"export", "fetch"} /\ job'.pc \in {"done", "failed", "skipped"}
          /\ job'.run = job.run /\ job'.kind = job.kind /\ job'.foreign = job.foreign
          /\ failures' = failures \/ (failures' = failures + 1 /\ job'.pc = "failed")
      BY <1>0, <1>3 DEF ExportTraces, FetchAndSave, At, Ok, Fails, JobType
    <2>2. Calm' => Calm
      BY <1>0, <2>1 DEF Calm
    <2>3. ~RecordStart /\ ~FinishRun
      BY <2>1 DEF RecordStart, FinishRun, At
    <2> QED BY <2>1, <2>2, <2>3 DEF Moves, Early
  <1> QED BY <1>1, <1>2, <1>3

\* What the traces Jaeger returns say of the run.
LEMMA FetchedSound ==
  ASSUME NEW r, NEW t \in Fetched(r)
  PROVE  /\ t \in Recording /\ t.at = clock /\ t.foreign = job.foreign
         /\ t.injected <=> Fault(r) # "none"
  BY DEF Fetched

\* The files keep their types while a run is recorded.
LEMMA CollectFiles ==
  ASSUME CollectInv, FilesTyped, ClockSound, CollectStep, UNCHANGED dataVars
  PROVE  FilesTyped'
  <1>0. UNCHANGED <<spans, cleaned, catalog, features, splits>>
    BY DEF dataVars, interim, processed
  <1>1. CASE FinishRun
    <2>1. /\ rows' = [rows EXCEPT ![job.run].at = clock,
                                  ![job.run].window = Fault(job.run) # "none"]
          /\ raw' = raw /\ exports' = exports
      BY <1>1 DEF FinishRun
    <2>2. rows' \in [Runs -> Row]
      <3> DEFINE w == Fault(job.run) # "none"
      <3>1. rows' = [rows EXCEPT ![job.run].at = clock, ![job.run].window = w]
        BY <2>1
      <3>2. w \in BOOLEAN /\ clock \in 0 .. MaxClock /\ rows \in [Runs -> Row]
        BY DEF ClockSound, FilesTyped
      <3> HIDE DEF w
      <3> QED BY ONLY <3>1, <3>2 DEF Row
    <2> QED BY <1>0, <2>1, <2>2 DEF FilesTyped, Traces, Metas
  <1>2. CASE ExportTraces
    <2>1. /\ rows' = rows /\ raw' = raw
          /\ exports' = exports \/ \E t \in Fetched(job.run) : exports' = [exports EXCEPT ![job.run] = t]
      BY <1>2 DEF ExportTraces
    <2>2. exports' \in [Runs -> Traces]
      BY <2>1, FetchedSound DEF FilesTyped, Traces
    <2> QED BY <1>0, <2>1, <2>2 DEF FilesTyped
  <1>3. CASE FetchAndSave
    <2>1. rows' = rows /\ exports' = exports
      BY <1>3 DEF FetchAndSave
    <2>2. raw' \in [Runs -> [traces : Traces, meta : Metas]]
      <3>1. CASE raw' = raw
        BY <3>1 DEF FilesTyped
      <3>2. CASE raw' # raw
        <4>1. PICK t \in Fetched(job.run) :
                raw' = [raw EXCEPT ![job.run] = [traces |-> t,
                                                 meta |-> [at |-> clock, window |-> FALSE]]]
          BY <1>3, <3>2 DEF FetchAndSave
        <4>2. [at |-> clock, window |-> FALSE] \in Metas
          BY DEF Metas, Meta, ClockSound
        <4>3. t \in Traces
          BY FetchedSound DEF Traces
        <4> QED BY <4>1, <4>2, <4>3 DEF FilesTyped
      <3> QED BY <3>1, <3>2
    <2> QED BY <1>0, <2>1, <2>2 DEF FilesTyped
  <1>4. CASE ~(FinishRun \/ ExportTraces \/ FetchAndSave)
    <2>1. UNCHANGED files
      BY <1>4, InjectMoves DEF CollectStep, Plain, RecordStart, dataVars
    <2> QED BY <1>0, <2>1 DEF FilesTyped, files
  <1> QED BY <1>1, <1>2, <1>3, <1>4

\* The clock moves when a start time is noted.
LEMMA CollectClock ==
  ASSUME CollectInv, ClockSound, CollectStep, UNCHANGED dataVars
  PROVE  ClockSound'
  <1>0. batch' = batch /\ clock \in 0 .. MaxClock /\ MaxClock \in Nat /\ batch.since \in Nat
    BY BoundsAssumption DEF ClockSound, CollectInv, CollectTypes, BatchType, dataVars
  <1>1. CASE RecordStart
    <2>1. clock < MaxClock /\ clock' = clock + 1
      BY <1>1 DEF RecordStart, At, Early, ClockSound
    <2>2. job'.pc \notin Early
      BY <1>0, <1>1, RecordMoves
    <2> QED BY <1>0, <2>1, <2>2 DEF ClockSound
  <1>2. CASE ~RecordStart
    <2>1. clock' = clock
      BY <1>0, <1>2, InjectMoves DEF CollectStep, Plain, FinishRun, ExportTraces, FetchAndSave
    <2>2. /\ job'.pc \in Early => job.pc \in Early
          /\ job'.pc \notin Early \union {"none", "failed", "skipped"} =>
               job.pc \notin Early \union {"none", "failed", "skipped"}
      BY <1>0, <1>2, InjectMoves, RecordMoves DEF CollectStep, Moves, Plain
    <2> QED BY <1>0, <2>1, <2>2 DEF ClockSound
  <1> QED BY <1>1, <1>2

\* A step of a collection leaves its batch alone.
LEMMA CollectBatch ==
  ASSUME CollectInv, BatchSound, JobInBatch, CollectStep, UNCHANGED dataVars
  PROVE  BatchSound'
  <1>0. batch' = batch /\ Moves
    BY InjectMoves, RecordMoves DEF CollectStep, dataVars
  <1> QED BY <1>0 DEF BatchSound, Moves, JobInBatch, Building

\* No step changes the scenario of a run.
LEMMA CollectionFaults ==
  ASSUME CollectInv, FilesTyped, CollectStep
  PROVE  \A r \in Runs : rows'[r].fault = rows[r].fault
  <1>1. CASE FinishRun
    <2>1. rows' = [rows EXCEPT ![job.run].at = clock,
                               ![job.run].window = Fault(job.run) # "none"]
      BY <1>1 DEF FinishRun
    <2> QED BY <2>1 DEF FilesTyped, Row
  <1>2. CASE ~FinishRun
    BY <1>2
       DEF CollectStep, InjectFault, files, ScaleForPodKill, StartLoadgen, RecordStart,
           KillPod, DropReplicas, UndropReplicas, CaptureOriginal, StressResources,
           UnstressResources, RestoreReplicas, CreateFaultProxy, SwapSelector, UnswapSelector,
           DeleteFaultProxy, SetBadEnv, RestoreEnv, ExportTraces, FetchAndSave,
           Configure, ScaleDeployment
  <1> QED BY <1>1, <1>2

\* What is noted of the run is of the run, and of the time it was recorded.
LEMMA CollectRecords ==
  ASSUME CollectInv, FilesTyped, ClockSound, BatchSound, RecordSound, CollectStep, UNCHANGED dataVars
  PROVE  RecordSound'
  <1>0. /\ batch' = batch /\ Moves /\ job.pc # "none" /\ job.run \notin batch.done
        /\ (job.run \in Runs) /\ job.run' = job.run
    BY InjectMoves, RecordMoves DEF CollectStep, dataVars, Moves, BatchSound, CollectInv, StepSound
  <1>1. \A r \in Runs : Fault(r)' = Fault(r)
    BY CollectionFaults DEF Fault
  <1>2. Calm' => ~job'.foreign
    <2>1. CASE RecordStart
      <3>1. job.pc = "start"
        BY <2>1 DEF RecordStart, At
      <3>2. Calm => ~\E t \in Services : Disturbed(t)
        BY <3>1 DEF CollectInv, ClusterSound, Disturbed, Injected
      <3>3. job'.foreign = \E t \in Services : Disturbed(t)
        BY <2>1 DEF RecordStart, CollectInv, CollectTypes, JobType
      <3> QED BY <1>0, <3>2, <3>3 DEF Moves
    <2>2. CASE ~RecordStart
      <3>1. job'.foreign = job.foreign
        BY <1>0, <2>2, InjectMoves, RecordMoves DEF CollectStep, Plain
      <3> QED BY <1>0, <3>1 DEF Moves, RecordSound
    <2> QED BY <2>1, <2>2
  <1>3. ASSUME NEW r \in Runs, r # job.run
        PROVE  rows'[r] = rows[r] /\ exports'[r] = exports[r]
    <2>1. CASE FinishRun
      BY <1>3, <2>1 DEF FinishRun, FilesTyped
    <2>2. CASE ExportTraces
      BY <1>3, <2>2 DEF ExportTraces, FilesTyped
    <2>3. CASE ~(FinishRun \/ ExportTraces)
      BY <1>0, <2>3, InjectMoves DEF CollectStep, Plain, files, RecordStart, FetchAndSave
    <2> QED BY <2>1, <2>2, <2>3
  <1>4. ASSUME job'.kind = "script 11", job'.pc \in {"export", "done"}
        PROVE  RowOf(job.run, clock)' /\ clock' = clock
    <2>1. CASE FinishRun
      <3>1. clock' = clock /\ rows' = [rows EXCEPT ![job.run].at = clock,
                                                   ![job.run].window = Fault(job.run) # "none"]
        BY <2>1 DEF FinishRun
      <3>2. rows'[job.run].at = clock /\ (rows'[job.run].window <=> Fault(job.run) # "none")
        <4> DEFINE w == Fault(job.run) # "none"
        <4>1. rows \in [Runs -> Row] /\ w \in BOOLEAN
          BY DEF FilesTyped
        <4>2. rows' = [rows EXCEPT ![job.run].at = clock, ![job.run].window = w]
          BY <3>1
        <4>3. rows'[job.run].at = clock /\ rows'[job.run].window = w
          <5> HIDE DEF w
          <5> QED BY <1>0, <4>1, <4>2 DEF Row
        <4> QED BY <4>3
      <3> QED BY <1>0, <1>1, <3>1, <3>2 DEF RowOf
    <2>2. CASE ExportTraces
      <3>1. job.pc = "export" /\ rows' = rows /\ clock' = clock /\ job.kind = "script 11"
        BY <1>0, <1>4, <2>2 DEF ExportTraces, At, Moves
      <3>2. RowOf(job.run, clock)
        BY <3>1 DEF RecordSound
      <3> QED BY <1>0, <1>1, <3>1, <3>2 DEF RowOf
    <2>3. ~FetchAndSave
      BY <1>0, <1>4 DEF FetchAndSave, At, Moves, CollectInv, StepSound
    <2>4. ~RecordStart
      BY <1>0, <1>4, RecordMoves
    <2>5. CASE InjectFault \/ ScaleForPodKill \/ StartLoadgen
      BY <1>0, <1>4, <2>5, InjectMoves DEF Plain
    <2> QED BY <2>1, <2>2, <2>3, <2>4, <2>5 DEF CollectStep
  <1>5. ASSUME job'.kind = "script 11", job'.pc = "done"
        PROVE  TracesOf(job.run, clock)' /\ exports'[job.run].foreign = job'.foreign
    <2>1. CASE ExportTraces
      <3>1. job.pc = "export" /\ clock' = clock /\ job'.foreign = job.foreign
        <4>1. job.pc = "export" /\ clock' = clock /\ ~RecordStart
          BY <2>1 DEF ExportTraces, At, RecordStart
        <4> QED BY <1>0, <2>1, <4>1, RecordMoves
      <3>2. PICK t \in Fetched(job.run) : exports' = [exports EXCEPT ![job.run] = t]
        BY <1>5, <2>1 DEF ExportTraces, Fails, CollectInv, CollectTypes, JobType
      <3>3. exports'[job.run] = t
        BY <1>0, <3>2 DEF FilesTyped
      <3> QED BY <1>0, <1>1, <3>1, <3>3, FetchedSound DEF TracesOf
    <2>2. CASE FinishRun
      BY <1>0, <1>5, <2>2, RecordMoves
    <2>3. ~FetchAndSave
      BY <1>0, <1>5 DEF FetchAndSave, At, Moves, CollectInv, StepSound
    <2>4. ~RecordStart
      BY <1>0, <1>5, RecordMoves
    <2>5. CASE InjectFault \/ ScaleForPodKill \/ StartLoadgen
      BY <1>0, <1>5, <2>5, InjectMoves DEF Plain
    <2> QED BY <2>1, <2>2, <2>3, <2>4, <2>5 DEF CollectStep
  <1>6. ASSUME batch.script = "script 13", NEW r \in batch.done
        PROVE  /\ RowOf(r, rows[r].at)' /\ TracesOf(r, rows[r].at)' /\ batch.since < rows'[r].at
               /\ batch.undisturbed /\ batch.failed = {} => ~exports'[r].foreign
    <2>1. r \in Runs /\ r # job.run
      BY <1>0 DEF CollectInv, CollectTypes, BatchType
    <2>2. rows'[r] = rows[r] /\ exports'[r] = exports[r] /\ Fault(r)' = Fault(r)
      BY <1>1, <1>3, <2>1
    <2> QED BY <1>6, <2>2 DEF RecordSound, RowOf, TracesOf
  <1>7. job'.kind = "script 11" =>
          /\ job'.pc \in {"export", "done"} => RowOf(job.run, clock)'
          /\ job'.pc = "done" => TracesOf(job.run, clock)' /\ exports'[job'.run].foreign = job'.foreign
    BY <1>0, <1>4, <1>5
  <1> QED BY <1>0, <1>2, <1>6, <1>7 DEF RecordSound

-----------------------------------------------------------------------------
(* The batches and the files. *)

\* What the batches and the scripts leave of the recordings.
SameRecords == UNCHANGED <<rows, exports, clock>>

\* A batch starts with what it selected still to do.
LEMMA BatchStarts ==
  ASSUME CollectInv, JobInBatch, DataInv, StartBatch \/ StartExtended
  PROVE  DataInv'
  <1> USE DEF DataInv
  <1>0. /\ SameRecords /\ raw' = raw /\ job' = job /\ job = NoJob
        /\ UNCHANGED <<catalog, spans, cleaned, features, splits>>
        /\ clock \in Nat /\ batch' \in BatchType
    BY BatchRecords
       DEF StartBatch, StartExtended, SameRecords, collectVars, files, interim, processed,
           Over, JobInBatch, CollectInv, CollectTypes, StepSound
  <1>1. /\ batch'.pc = "collect" /\ batch'.stage = 0 /\ batch'.since = clock
        /\ batch'.done = {} /\ (batch'.clean => batch'.script = "script 13")
        /\ batch'.script = "script 13" =>
             /\ batch'.selected \intersect Extended = {}
             /\ batch'.mode = "all" => batch'.todo = batch'.selected
    BY BatchShape
  <1>3. FilesTyped'
    BY <1>0 DEF FilesTyped, SameRecords
  <1>4. ClockSound'
    <2>1. clock \in 0 .. MaxClock /\ clock' = clock
      BY <1>0 DEF ClockSound, SameRecords
    <2>2. batch'.since = clock' /\ job'.pc = "none"
      BY <1>0, <1>1, <2>1 DEF NoJob
    <2>3. \A c \in 0 .. MaxClock : c <= c
      BY BoundsAssumption
    <2> QED BY <2>1, <2>2, <2>3 DEF ClockSound, Early
  <1>5. BatchSound'
    <2>1. job'.pc = "none" /\ job'.kind = "none" /\ job' = NoJob
      BY <1>0 DEF NoJob
    <2>2. batch'.todo \intersect batch'.done = {} /\ batch'.stage \in 0 .. 10
      <3>1. 0 \in 0 .. 10
        OBVIOUS
      <3> QED BY ONLY <1>1, <3>1
    <2>3. batch'.script = "script 13" /\ batch'.mode = "all" =>
            batch'.selected \ (batch'.todo \union batch'.done \union batch'.failed) = {}
      BY <1>1
    <2> QED BY <1>1, <2>1, <2>2, <2>3 DEF BatchSound, Building
  <1>6. RecordSound'
    BY <1>0, <1>1 DEF RecordSound, NoJob
  <1>7. ImportSound' /\ CleanSound'
    BY <1>1 DEF ImportSound, CleanSound, Building
  <1> QED BY <1>3, <1>4, <1>5, <1>6, <1>7

\* A run is taken from what is to do.
LEMMA RunStarts ==
  ASSUME CollectInv, DataInv, NextRun
  PROVE  DataInv'
  <1> USE DEF DataInv
  <1>0. batch \in BatchType /\ batch.pc = "collect"
    BY DEF CollectInv, CollectTypes, NextRun
  <1>1. PICK r \in batch.todo :
        /\ StartRun(r, IF batch.script = "script 18" THEN "script 18" ELSE "script 11")
        /\ batch' = [batch EXCEPT !.todo = @ \ {r}]
    BY DEF NextRun
  <1>2. /\ SameRecords /\ raw' = raw /\ job = NoJob /\ clock < MaxClock /\ failures' = failures
        /\ UNCHANGED <<catalog, spans, cleaned, features, splits>>
    BY <1>1 DEF NextRun, StartRun, SameRecords, files, interim, processed
  <1>3. /\ job'.run = r /\ job'.pc \in {"load", "scale"} /\ job'.foreign = FALSE
        /\ batch.script = "script 13" => job'.kind = "script 11"
    BY <1>1 DEF StartRun, NoJob, FirstStep
  <1>4. batch' = [batch EXCEPT !.todo = batch.todo \ {r}]
    BY <1>1
  <1>5. /\ batch'.pc = "collect" /\ batch'.todo = batch.todo \ {r}
        /\ batch'.stage = batch.stage /\ batch'.done = batch.done /\ batch'.since = batch.since
        /\ batch'.script = batch.script /\ batch'.mode = batch.mode
        /\ batch'.clean = batch.clean
        /\ batch'.selected = batch.selected /\ batch'.failed = batch.failed
        /\ batch'.undisturbed = batch.undisturbed
    BY ONLY <1>0, <1>4 DEF BatchType
  <1>6. FilesTyped'
    BY <1>2 DEF FilesTyped, SameRecords
  <1>7. ClockSound'
    BY <1>2, <1>3, <1>5 DEF ClockSound, SameRecords, Early
  <1>8. BatchSound'
    BY <1>2, <1>3, <1>5 DEF BatchSound, NoJob, Building
  <1>9. RecordSound'
    BY <1>2, <1>3, <1>5 DEF RecordSound, SameRecords, RowOf, TracesOf, Fault
  <1>10. ImportSound' /\ CleanSound'
    BY <1>5 DEF ImportSound, CleanSound, Building
  <1> QED BY <1>6, <1>7, <1>8, <1>9, <1>10

\* A run that ends is noted as what it was.
LEMMA RunStops ==
  ASSUME CollectInv, JobInBatch, DataInv, RunEnds
  PROVE  DataInv'
  <1> USE DEF DataInv
  <1>0. /\ batch \in BatchType /\ batch.pc = "collect" /\ job' = NoJob
        /\ SameRecords /\ raw' = raw /\ failures' = failures
        /\ UNCHANGED <<catalog, spans, cleaned, features, splits>>
        /\ job.pc \in {"done", "failed", "skipped"} /\ job.run \in Runs
    BY DEF CollectInv, CollectTypes, StepSound, JobInBatch, RunEnds, SameRecords, files, interim,
           processed
  <1> DEFINE d == IF job.pc = "done" THEN batch.done \union {job.run} ELSE batch.done
             f == IF job.pc = "failed" THEN batch.failed \union {job.run} ELSE batch.failed
             p == IF job.pc = "failed" /\ batch.stop THEN "died" ELSE batch.pc
  <1>1. batch' = [batch EXCEPT !.done = d, !.failed = f, !.pc = p]
    BY <1>0 DEF RunEnds, BatchType
  <1>2. /\ batch'.done = d /\ batch'.failed = f /\ batch'.pc = p /\ batch'.todo = batch.todo
        /\ batch'.stage = batch.stage /\ batch'.since = batch.since
        /\ batch'.script = batch.script /\ batch'.mode = batch.mode
        /\ batch'.clean = batch.clean
        /\ batch'.selected = batch.selected /\ batch'.undisturbed = batch.undisturbed
    <2> HIDE DEF d, f, p
    <2> QED BY ONLY <1>0, <1>1 DEF BatchType
  <1>3. p \in {"collect", "died"}
    BY <1>0
  <1>4. batch.script = "script 13" => job.pc \in {"done", "failed"} /\ job.kind = "script 11"
    <2>1. job.kind \in {"none", "script 11", "script 18"}
      BY DEF CollectInv, CollectTypes, JobType
    <2> QED BY <1>0, <2>1 DEF BatchSound, CollectInv, StepSound
  <1>5. FilesTyped'
    BY <1>0 DEF FilesTyped, SameRecords
  <1>6. ClockSound'
    BY <1>0, <1>2 DEF ClockSound, SameRecords, NoJob, Early
  <1>7. BatchSound'
    <2>1. batch.todo \intersect d = {}
      BY <1>0 DEF BatchSound
    <2>2. job.run \in d \union f \/ batch.script # "script 13"
      BY <1>4
    <2>3. batch.done \subseteq d /\ batch.failed \subseteq f
      OBVIOUS
    <2> HIDE DEF d, f, p
    <2> QED BY <1>0, <1>2, <1>3, <2>1, <2>2, <2>3 DEF BatchSound, NoJob, Building
  <1>8. RecordSound'
    <2>1. ASSUME batch.script = "script 13", NEW r \in d
          PROVE  /\ RowOf(r, rows[r].at) /\ TracesOf(r, rows[r].at) /\ batch.since < rows[r].at
                 /\ batch.undisturbed /\ f = {} => ~exports[r].foreign
      <3>1. CASE r \in batch.done
        BY <2>1, <3>1 DEF RecordSound
      <3>2. CASE r \notin batch.done
        <4>1. job.pc = "done" /\ r = job.run
          BY <3>2
        <4>2. /\ RowOf(r, clock) /\ TracesOf(r, clock) /\ exports[r].foreign = job.foreign
          BY <1>4, <2>1, <4>1 DEF RecordSound
        <4>3. batch.since < clock
          BY <4>1 DEF ClockSound, Early
        <4>4. batch.undisturbed /\ f = {} => Calm
          BY <1>0, <4>1 DEF Calm
        <4> QED BY <4>2, <4>3, <4>4 DEF RowOf, RecordSound
      <3> QED BY <3>1, <3>2
    <2> HIDE DEF d, f, p
    <2> QED BY <1>0, <1>2, <2>1 DEF RecordSound, NoJob, SameRecords, RowOf, TracesOf, Fault
  <1>9. ImportSound' /\ CleanSound'
    BY <1>2, <1>3 DEF ImportSound, CleanSound, Building
  <1> QED BY <1>5, <1>6, <1>7, <1>8, <1>9

\* What a batch that goes on keeps of its record.
SameBatch ==
  /\ batch'.script = batch.script /\ batch'.mode = batch.mode /\ batch'.clean = batch.clean
  /\ batch'.selected = batch.selected /\ batch'.todo = batch.todo /\ batch'.done = batch.done
  /\ batch'.failed = batch.failed /\ batch'.since = batch.since
  /\ batch'.undisturbed = batch.undisturbed

\* The recordings end, and the batch with them or goes on to the build.
LEMMA RecordingEnds ==
  ASSUME CollectInv, EndRecording \/ CleanRoots
  PROVE  /\ SameBatch /\ batch'.stage = 1 /\ batch'.pc \in {"rebuild", "finished"}
         /\ batch'.pc = "rebuild" => batch.failed = {}
         /\ batch.todo = {} /\ job = NoJob /\ job' = NoJob /\ SameRecords
         /\ batch'.pc = "rebuild" /\ batch.clean => CleanRoots
  <1>1. batch \in BatchType
    BY DEF CollectInv, CollectTypes
  <1> DEFINE p == IF Rebuilds THEN "rebuild" ELSE "finished"
  <1>2. batch' = [batch EXCEPT !.pc = p, !.stage = 1]
    BY DEF EndRecording, CleanRoots, AfterRuns
  <1>3. p \in {"rebuild", "finished"} /\ (p = "rebuild" => Rebuilds)
    OBVIOUS
  <1>4. SameBatch /\ batch'.stage = 1 /\ batch'.pc = p
    <2> HIDE DEF p
    <2> QED BY ONLY <1>1, <1>2 DEF BatchType, SameBatch
  <1> QED BY <1>3, <1>4
          DEF EndRecording, CleanRoots, Recorded, Rebuilds, SameRecords, collectVars, files

\* What a step that is no recording's keeps of the recordings.
LEMMA RecordsStay ==
  ASSUME CollectInv, DataInv, SameBatch, SameRecords, job' = NoJob,
         batch'.stage \in 0 .. 10, batch'.pc \in {"rebuild", "rebuilt", "finished", "died"},
         batch'.pc = "rebuild" => batch'.stage \in 1 .. 9,
         batch'.pc = "rebuilt" => batch'.stage = 10,
         batch'.pc \in {"rebuild", "rebuilt"} => batch.todo = {} /\ batch.failed = {},
         job = NoJob
  PROVE  ClockSound' /\ BatchSound' /\ RecordSound'
  <1> USE DEF DataInv, SameBatch, SameRecords
  <1>1. NoJob.pc = "none" /\ NoJob.kind = "none" /\ NoJob.foreign = FALSE
    BY DEF NoJob
  <1>2. ClockSound'
    BY <1>1 DEF ClockSound, Early
  <1>3. BatchSound'
    BY <1>1 DEF BatchSound, Building
  <1>4. RecordSound'
    BY <1>1 DEF RecordSound, RowOf, TracesOf, Fault
  <1> QED BY <1>2, <1>3, <1>4

LEMMA EndsKeepData ==
  ASSUME CollectInv, DataInv, EndRecording \/ CleanRoots
  PROVE  DataInv'
  <1> USE DEF DataInv
  <1>0. /\ SameBatch /\ batch'.stage = 1 /\ batch'.pc \in {"rebuild", "finished"}
        /\ batch'.pc = "rebuild" => batch.failed = {}
        /\ batch.todo = {} /\ job = NoJob /\ job' = NoJob /\ SameRecords
        /\ batch'.pc = "rebuild" /\ batch.clean => CleanRoots
    BY RecordingEnds
  <1>1. ClockSound' /\ BatchSound' /\ RecordSound'
    <2>1. 1 \in 0 .. 10 /\ 1 \in 1 .. 9
      OBVIOUS
    <2> QED BY <1>0, <2>1, RecordsStay
  <1>2. FilesTyped'
    <2>1. CASE EndRecording
      BY <2>1 DEF EndRecording, FilesTyped, collectVars, files, interim, processed
    <2>2. CASE CleanRoots
      <3>1. /\ rows' = rows /\ exports' = exports
            /\ raw' = NoRaw /\ spans' = [r \in Runs |-> NoTraces]
            /\ cleaned' = [r \in Runs |-> NoTraces] /\ catalog' = [r \in Runs |-> NoMeta]
            /\ features' = Empty /\ splits' = [x \in SplitNames |-> {}]
        BY <2>2 DEF CleanRoots
      <3>2. /\ NoRaw \in [Runs -> [traces : Traces, meta : Metas]]
            /\ [r \in Runs |-> NoTraces] \in [Runs -> Traces]
            /\ [r \in Runs |-> NoMeta] \in [Runs -> Metas]
            /\ Empty \in [Tables -> SUBSET Feature]
            /\ [x \in SplitNames |-> {}] \in [SplitNames -> SUBSET Runs]
        BY DEF NoRaw, Traces, Metas, Empty
      <3> QED BY <3>1, <3>2 DEF FilesTyped
    <2> QED BY <2>1, <2>2
  <1>3. ImportSound'
    BY <1>0 DEF ImportSound
  <1>4. CleanSound'
    <2> SUFFICES ASSUME batch'.pc = "rebuild", batch.clean
                 PROVE  SpansSound' /\ GraphsSound' /\ TablesSound'
      BY <1>0 DEF CleanSound, Building, SameBatch
    <2>1. /\ raw' = NoRaw /\ spans' = [r \in Runs |-> NoTraces]
          /\ cleaned' = [r \in Runs |-> NoTraces] /\ catalog' = [r \in Runs |-> NoMeta]
          /\ features' = Empty /\ labelled' = Empty
          /\ payloads' = [r \in Runs |-> NoGraph] /\ tensors' = [r \in Runs |-> NoGraph]
      BY <1>0 DEF CleanRoots
    <2>2. SpansSound'
      BY <1>0, <2>1 DEF SpansSound, NoRaw
    <2>3. GraphsSound'
      BY <1>0, <2>1 DEF GraphsSound
    <2>4. TablesSound'
      BY <1>0, <2>1 DEF TablesSound, Empty
    <2> QED BY <2>2, <2>3, <2>4
  <1> QED BY <1>1, <1>2, <1>3, <1>4

-----------------------------------------------------------------------------
(* The scripts and the files. *)

\* A script at its stage, which ends it or the batch.
Scripted ==
  /\ batch.pc = "rebuild" /\ SameBatch /\ SameRecords /\ job' = job
  /\ \/ batch'.stage = batch.stage + 1 /\ batch'.pc = IF batch.stage = 9 THEN "rebuilt" ELSE "rebuild"
     \/ batch'.stage = batch.stage /\ batch'.pc = "died"

LEMMA ScriptShape ==
  ASSUME CollectInv, batch.pc = "rebuild", SameRecords, job' = job,
         Done9 \/ batch' = [batch EXCEPT !.pc = "died"]
  PROVE  Scripted /\ (Done9 => batch'.stage = batch.stage + 1)
  <1>0. batch \in BatchType
    BY DEF CollectInv, CollectTypes
  <1>1. CASE Done9
    <2> DEFINE n == batch.stage + 1
               p == IF batch.stage = 9 THEN "rebuilt" ELSE batch.pc
    <2>1. batch' = [batch EXCEPT !.stage = n, !.pc = p]
      BY <1>1 DEF Done9
    <2>2. SameBatch /\ batch'.stage = n /\ batch'.pc = p
      <3> HIDE DEF n, p
      <3> QED BY ONLY <1>0, <2>1 DEF BatchType, SameBatch
    <2> QED BY <2>2 DEF Scripted
  <1>2. CASE ~Done9
    <2>1. batch' = [batch EXCEPT !.pc = "died"]
      BY <1>2
    <2>2. SameBatch /\ batch'.stage = batch.stage /\ batch'.pc = "died"
      BY ONLY <1>0, <2>1 DEF BatchType, SameBatch
    <2> QED BY <1>2, <2>2 DEF Scripted
  <1> QED BY <1>1, <1>2

\* The scripts leave the recordings alone.
LEMMA ScriptRecords ==
  ASSUME CollectInv, DataInv, Scripted
  PROVE  ClockSound' /\ BatchSound' /\ RecordSound'
  <1>1. batch.stage \in 1 .. 9 /\ batch.todo = {} /\ batch.failed = {} /\ job = NoJob
    BY DEF DataInv, BatchSound, Building, Scripted
  <1>2. /\ batch'.stage \in 0 .. 10 /\ (batch'.pc = "rebuild" => batch'.stage \in 1 .. 9)
        /\ batch'.pc = "rebuilt" => batch'.stage = 10
    BY <1>1 DEF Scripted
  <1>3. batch'.pc \in {"rebuild", "rebuilt", "died"}
    BY DEF Scripted
  <1> QED BY <1>1, <1>2, <1>3, RecordsStay DEF Scripted

\* What the scripts make of the runs of a part is typed.
LEMMA FilesMade ==
  ASSUME FilesTyped, NEW part
  PROVE  /\ RawImported(part) \in [Runs -> [traces : Traces, meta : Metas]]
         /\ Parsed(part) \in [Runs -> Traces]
         /\ \A c \in Cleanings(part) : c \in [Runs -> Traces]
  <1>1. ASSUME NEW r \in Runs PROVE RowMeta(r) \in Meta
    BY DEF RowMeta, Meta, FilesTyped, Row
  <1>2. RawImported(part) \in [Runs -> [traces : Traces, meta : Metas]]
    BY <1>1 DEF RawImported, FilesTyped, Metas
  <1>3. Parsed(part) \in [Runs -> Traces]
    BY DEF Parsed, FilesTyped
  <1>4. ASSUME NEW c \in Cleanings(part) PROVE c \in [Runs -> Traces]
    <2>1. PICK k \in [Runs -> Coverages] :
            c = [r \in Runs |-> IF r \in part /\ spans[r] # NoTraces
                                THEN [spans[r] EXCEPT !.moments = @ \intersect k[r],
                                                      !.seen = @ /\ "active" \in k[r]]
                                ELSE cleaned[r]]
      BY <1>4 DEF Cleanings
    <2>2. ASSUME NEW r \in Runs, spans[r] # NoTraces
          PROVE  [spans[r] EXCEPT !.moments = @ \intersect k[r],
                                  !.seen = @ /\ "active" \in k[r]] \in Recording
      <3> DEFINE m == spans[r].moments \intersect k[r]
                 e == spans[r].seen /\ "active" \in k[r]
                 q == [spans[r] EXCEPT !.moments = m, !.seen = e]
      <3>1. spans[r] \in Recording
        BY <2>2 DEF FilesTyped, Traces
      <3>2. m \in SUBSET Moments /\ e \in BOOLEAN
        BY <3>1 DEF Recording
      <3>3. q \in Recording
        <4> HIDE DEF m, e
        <4> QED BY <3>1, <3>2 DEF Recording
      <3> QED BY <3>3
    <2> QED BY <2>1, <2>2 DEF FilesTyped, Traces
  <1> QED BY <1>2, <1>3, <1>4

\* A phase is a moment, or steady.
LEMMA PhaseSound ==
  ASSUME NEW r, NEW t, NEW m \in Moments
  PROVE  Phase(r, t, m) \in Moments \union {"steady"}
  BY DEF Phase, Moments

\* The tables hold rows.
LEMMA TablesMade ==
  ASSUME FilesTyped
  PROVE  TraceFeatures \subseteq Feature /\ WindowFeatures \subseteq Feature
  <1>1. ASSUME NEW r \in Cleaned
        PROVE  /\ r \in Runs /\ cleaned[r].at \in 1 .. MaxClock
               /\ cleaned[r].moments \subseteq Moments
    <2>1. cleaned[r] \in Recording
      BY DEF Cleaned, FilesTyped, Traces
    <2> QED BY <2>1 DEF Cleaned, Recording
  <1>2. ASSUME NEW f \in TraceFeatures PROVE f \in Feature
    <2>1. PICK r \in Cleaned : \E m \in cleaned[r].moments :
            f = [run |-> r, at |-> cleaned[r].at, phase |-> Phase(r, cleaned[r], m), moments |-> {m}]
      BY <1>2 DEF TraceFeatures
    <2>2. PICK m \in cleaned[r].moments :
            f = [run |-> r, at |-> cleaned[r].at, phase |-> Phase(r, cleaned[r], m), moments |-> {m}]
      BY <2>1
    <2>3. Phase(r, cleaned[r], m) \in Moments \union {"steady"} /\ {m} \in SUBSET Moments
      BY <1>1, PhaseSound
    <2> QED BY ONLY <1>1, <2>2, <2>3 DEF Feature
  <1>3. ASSUME NEW f \in WindowFeatures PROVE f \in Feature
    <2>1. PICK r \in Cleaned : \E m \in cleaned[r].moments :
            f = [run |-> r, at |-> cleaned[r].at, phase |-> Phase(r, cleaned[r], m),
                 moments |-> {k \in cleaned[r].moments :
                                Phase(r, cleaned[r], k) = Phase(r, cleaned[r], m)}]
      BY <1>3 DEF WindowFeatures
    <2> PICK m \in cleaned[r].moments :
            f = [run |-> r, at |-> cleaned[r].at, phase |-> Phase(r, cleaned[r], m),
                 moments |-> {k \in cleaned[r].moments :
                                Phase(r, cleaned[r], k) = Phase(r, cleaned[r], m)}]
      BY <2>1
    <2> DEFINE s == {k \in cleaned[r].moments : Phase(r, cleaned[r], k) = Phase(r, cleaned[r], m)}
    <2>2. f = [run |-> r, at |-> cleaned[r].at, phase |-> Phase(r, cleaned[r], m), moments |-> s]
      OBVIOUS
    <2>3. Phase(r, cleaned[r], m) \in Moments \union {"steady"} /\ s \in SUBSET Moments
      BY <1>1, PhaseSound
    <2> HIDE DEF s
    <2> QED BY ONLY <1>1, <2>2, <2>3 DEF Feature
  <1> QED BY <1>2, <1>3

\* The splits hold runs.
LEMMA SplitsMade ==
  ASSUME CollectInv, NEW p \in SplitChoices
  PROVE  p \in [SplitNames -> SUBSET Runs]
  <1>1. UNION {p[x] : x \in SplitNames} = Imported
    BY ChoicesDivide DEF CollectInv, Divides
  <1>2. Imported \subseteq Runs
    BY DEF Imported
  <1>3. p = [x \in SplitNames |-> p[x]]
    BY DEF SplitChoices
  <1>4. \A x \in SplitNames : p[x] \in SUBSET Runs
    BY <1>1, <1>2
  <1> QED BY <1>3, <1>4

\* The files keep their types while the data set is built.
LEMMA BuildFiles ==
  ASSUME CollectInv, FilesTyped, Rebuild
  PROVE  FilesTyped'
  <1> USE DEF notData, collectVars, files, interim, processed
  <1>1. CASE Import
    <2>1. \A r \in Runs : RowMeta(r) \in Metas
      BY DEF RowMeta, Metas, Meta, FilesTyped, Row
    <2>2. catalog' \in [Runs -> Metas]
      BY <1>1, <2>1 DEF Import, Metas
    <2> QED BY <1>1, <2>2, FilesMade DEF Import, FilesTyped
  <1>2. CASE ParseTraces
    BY <1>2, FilesMade DEF ParseTraces, FilesTyped
  <1>3. CASE CleanSpans
    BY <1>3, FilesMade DEF CleanSpans, FilesTyped
  <1>4. CASE BuildFeatures(4, "trace", TraceFeatures) \/ BuildFeatures(5, "window", WindowFeatures)
    <2>1. /\ \/ features' = [features EXCEPT !["trace"] = TraceFeatures]
             \/ features' = [features EXCEPT !["window"] = WindowFeatures]
          /\ UNCHANGED <<rows, raw, exports, spans, cleaned, catalog, splits>>
      BY <1>4 DEF BuildFeatures
    <2>2. features' \in [Tables -> SUBSET Feature]
      BY <2>1, TablesMade DEF FilesTyped, Tables
    <2> QED BY <2>1, <2>2 DEF FilesTyped
  <1>5. CASE LabelFeatures
    BY <1>5 DEF LabelFeatures, FilesTyped
  <1>6. CASE BuildGraphs
    BY <1>6 DEF BuildGraphs, FilesTyped
  <1>7. CASE ExportTensors
    BY <1>7 DEF ExportTensors, FilesTyped
  <1>8. CASE MakeSplits
    BY <1>8, SplitsMade DEF MakeSplits, FilesTyped
  <1>9. CASE ScriptFails
    <2>1. PICK part \in SUBSET Runs :
            /\ raw' = RawImported(part) \/ raw' = raw
            /\ spans' = Parsed(part) \/ spans' = spans
            /\ cleaned' \in Cleanings(part) \/ cleaned' = cleaned
      BY <1>9 DEF ScriptFails
    <2>2. UNCHANGED <<rows, exports, catalog, features, splits>>
      BY <1>9 DEF ScriptFails
    <2> QED BY <2>1, <2>2, FilesMade DEF FilesTyped
  <1> QED BY <1>1, <1>2, <1>3, <1>4, <1>5, <1>6, <1>7, <1>8, <1>9 DEF Rebuild

\* The runs a building batch selected to record were recorded by it.
LEMMA SelectedRecorded ==
  ASSUME CollectInv, DataInv, Building, NEW r \in Runs, Fresh(r)
  PROVE  /\ r \in batch.done /\ r \notin Extended
         /\ RowOf(r, rows[r].at) /\ TracesOf(r, rows[r].at) /\ batch.since < rows[r].at
         /\ batch.undisturbed => ~exports[r].foreign
         /\ exports[r] # NoTraces
  <1>1. /\ batch.script = "script 13" /\ batch.mode = "all" /\ r \in batch.selected
        /\ job.pc = "none" /\ batch.todo = {} /\ batch.failed = {}
    BY DEF Fresh, DataInv, BatchSound
  <1>2. r \in batch.done /\ r \notin Extended
    BY <1>1 DEF DataInv, BatchSound
  <1>3. /\ RowOf(r, rows[r].at) /\ TracesOf(r, rows[r].at) /\ batch.since < rows[r].at
        /\ batch.undisturbed => ~exports[r].foreign
    BY <1>1, <1>2 DEF DataInv, RecordSound
  <1>4. exports[r] # NoTraces
    <2>1. exports[r].at \in 1 .. MaxClock
      BY <1>3 DEF TracesOf, Recording
    <2>2. NoTraces.at = 0 /\ 0 \notin 1 .. MaxClock
      BY DEF NoTraces
    <2> QED BY <2>1, <2>2
  <1> QED BY <1>2, <1>3, <1>4

\* A row's metadata is not the lack of them.
LEMMA MetaIsSome ==
  ASSUME FilesTyped, NEW r \in Runs
  PROVE  RowMeta(r) # NoMeta
  <1>1. RowMeta(r).at \in 0 .. MaxClock
    BY DEF RowMeta, FilesTyped, Row
  <1>2. NoMeta.at = -1 /\ -1 \notin 0 .. MaxClock
    BY DEF NoMeta
  <1> QED BY <1>1, <1>2

\* Script 02 takes what the batch recorded.
LEMMA ImportKeeps ==
  ASSUME CollectInv, DataInv, Import
  PROVE  Scripted /\ ImportSound' /\ CleanSound'
  <1> USE DEF DataInv
  <1>0. /\ batch.pc = "rebuild" /\ batch.stage = 1
        /\ raw' = RawImported(Runs)
        /\ catalog' = [r \in Runs |-> IF r \in Importable THEN RowMeta(r) ELSE NoMeta]
        /\ SameRecords /\ job' = job /\ Done9
        /\ UNCHANGED <<spans, cleaned, features, labelled, payloads, tensors>>
    BY DEF Import, At9, SameRecords, interim
  <1>1. Scripted /\ batch'.stage = 2
    <2>1. Scripted /\ batch'.stage = batch.stage + 1
      BY <1>0, ScriptShape
    <2> QED BY ONLY <1>0, <2>1
  <1>2. \A r \in Runs : Fresh(r)' = Fresh(r) /\ RowMeta(r)' = RowMeta(r) /\ Fault(r)' = Fault(r)
    BY <1>0, <1>1 DEF Scripted, SameBatch, SameRecords, Fresh, RowMeta, Fault
  <1>3. ImportSound'
    <2> SUFFICES ASSUME NEW r \in Runs, Fresh(r)
                 PROVE  catalog'[r] = RowMeta(r)
                        /\ raw'[r] = [traces |-> exports[r], meta |-> RowMeta(r)]
      BY <1>0, <1>2 DEF ImportSound, SameRecords
    <2>1. r \notin Extended /\ exports[r] # NoTraces
      BY <1>0, SelectedRecorded DEF Building
    <2>2. r \in Importable
      BY <2>1 DEF Importable, Fresh
    <2> QED BY <1>0, <2>2 DEF RawImported
  <1>4. CleanSound'
    <2> SUFFICES ASSUME batch.clean
                 PROVE  SpansSound' /\ GraphsSound' /\ TablesSound'
      BY <1>1 DEF CleanSound, Scripted, SameBatch
    <2>0. SpansSound /\ GraphsSound /\ TablesSound
      BY <1>0 DEF CleanSound, Building
    <2>1. SpansSound'
      <3>1. \A r \in Runs : raw[r].meta = NoMeta /\ spans[r] = NoTraces /\ cleaned[r] = NoTraces
        BY <1>0, <2>0 DEF SpansSound
      <3>2. ASSUME NEW r \in Runs, raw'[r].meta # NoMeta PROVE r \in Imported'
        <4>1. r \in Importable
          BY <1>0, <3>1, <3>2 DEF RawImported
        <4> QED BY <1>0, <4>1, MetaIsSome DEF Imported
      <3> QED BY <1>0, <1>1, <3>1, <3>2 DEF SpansSound
    <2>2. GraphsSound'
      BY <1>0, <1>1, <2>0 DEF GraphsSound
    <2>3. TablesSound'
      BY <1>0, <1>1, <2>0 DEF TablesSound, Empty
    <2> QED BY <2>1, <2>2, <2>3
  <1> QED BY <1>1, <1>3, <1>4

\* A script after the import: what was imported stays.
LEMMA LaterScript ==
  ASSUME CollectInv, DataInv, NEW k \in 2 .. 9, At9(k), SameRecords, job' = job,
         raw' = raw, catalog' = catalog, Done9 \/ batch' = [batch EXCEPT !.pc = "died"]
  PROVE  /\ Scripted /\ ImportSound' /\ batch.stage = k /\ (Done9 => batch'.stage = k + 1)
         /\ Imported' = Imported
         /\ \A r \in Runs : Fresh(r)' = Fresh(r) /\ Label(r)' = Label(r) /\ Fault(r)' = Fault(r)
         /\ batch.clean => SpansSound /\ GraphsSound /\ TablesSound
         /\ Done9 /\ (batch.clean => SpansSound' /\ GraphsSound' /\ TablesSound') => CleanSound'
         /\ ~Done9 => CleanSound'
  <1> USE DEF DataInv
  <1>0. batch.pc = "rebuild" /\ batch.stage = k
    BY DEF At9
  <1>1. Scripted /\ (Done9 => batch'.stage = batch.stage + 1)
    BY <1>0, ScriptShape
  <1>2. \A r \in Runs : Fresh(r)' = Fresh(r) /\ RowMeta(r)' = RowMeta(r) /\ Fault(r)' = Fault(r)
    BY <1>1 DEF Scripted, SameBatch, SameRecords, Fresh, RowMeta, Fault
  <1>3. Imported' = Imported
    BY DEF Imported
  <1>4. ImportSound'
    <2>1. batch.stage > 1
      BY <1>0
    <2> QED BY <1>0, <1>2, <2>1 DEF ImportSound, Building, SameRecords
  <1>5. batch.clean => SpansSound /\ GraphsSound /\ TablesSound
    BY <1>0 DEF CleanSound, Building
  <1>6. batch'.clean = batch.clean
    BY <1>1 DEF Scripted, SameBatch
  <1>7. ~Done9 => CleanSound'
    BY <1>0 DEF CleanSound, Building, CollectInv, CollectTypes, BatchType
  <1> QED BY <1>0, <1>1, <1>2, <1>3, <1>4, <1>5, <1>6, <1>7 DEF CleanSound, Label

\* The rows of the tables stay as true as they were.
LEMMA RowsStay ==
  ASSUME Scripted, catalog' = catalog, cleaned' = cleaned
  PROVE  \A f : (RowTrue(f)' <=> RowTrue(f)) /\ IsAnomaly(f)' = IsAnomaly(f)
  <1>0. rows' = rows
    BY DEF Scripted, SameRecords
  <1>1. Imported' = Imported /\ Cleaned' = Cleaned
    BY DEF Imported, Cleaned
  <1>2. \A r : Fresh(r)' = Fresh(r) /\ Fault(r)' = Fault(r)
    BY <1>0 DEF Fresh, Fault, Scripted, SameBatch
  <1>3. \A r : Label(r)' = Label(r)
    BY <1>1, <1>2 DEF Label
  <1>4. \A f : IsAnomaly(f)' = IsAnomaly(f)
    BY <1>2, <1>3 DEF IsAnomaly
  <1>5. \A f : RowTrue(f)' <=> RowTrue(f)
    BY <1>1, <1>2 DEF RowTrue
  <1> QED BY <1>4, <1>5

\* The scripts of the spans and of the graphs.
LEMMA ParseKeeps ==
  ASSUME CollectInv, DataInv, ParseTraces
  PROVE  Scripted /\ ImportSound' /\ CleanSound'
  <1>0. /\ At9(2) /\ SameRecords /\ job' = job /\ raw' = raw /\ catalog' = catalog /\ Done9
        /\ spans' = Parsed(Runs)
        /\ UNCHANGED <<cleaned, features, labelled, payloads, tensors>>
    BY DEF ParseTraces, SameRecords, notData, collectVars, files, processed
  <1>1. /\ Scripted /\ ImportSound' /\ batch.stage = 2 /\ batch'.stage = 3
        /\ Imported' = Imported
        /\ batch.clean => SpansSound /\ GraphsSound /\ TablesSound
        /\ (batch.clean => SpansSound' /\ GraphsSound' /\ TablesSound') => CleanSound'
    BY <1>0, LaterScript
  <1>2. ASSUME batch.clean PROVE SpansSound' /\ GraphsSound' /\ TablesSound'
    <2>0. SpansSound /\ GraphsSound /\ TablesSound
      BY <1>1, <1>2
    <2>1. SpansSound'
      BY <1>0, <1>1, <2>0 DEF SpansSound, Parsed
    <2>2. GraphsSound'
      BY <1>0, <1>1, <2>0 DEF GraphsSound
    <2>3. TablesSound'
      BY <1>0, <1>1, <2>0 DEF TablesSound, Empty
    <2> QED BY <2>1, <2>2, <2>3
  <1> QED BY <1>1, <1>2

LEMMA CleanKeeps ==
  ASSUME CollectInv, DataInv, CleanSpans
  PROVE  Scripted /\ ImportSound' /\ CleanSound'
  <1>0. /\ At9(3) /\ SameRecords /\ job' = job /\ raw' = raw /\ catalog' = catalog /\ Done9
        /\ spans' = spans /\ cleaned' \in Cleanings(Runs)
        /\ UNCHANGED <<features, labelled, payloads, tensors>>
    BY DEF CleanSpans, SameRecords, notData, collectVars, files, processed
  <1>1. /\ Scripted /\ ImportSound' /\ batch.stage = 3 /\ batch'.stage = 4
        /\ Imported' = Imported
        /\ batch.clean => SpansSound /\ GraphsSound /\ TablesSound
        /\ (batch.clean => SpansSound' /\ GraphsSound' /\ TablesSound') => CleanSound'
    BY <1>0, LaterScript
  <1>2. ASSUME batch.clean PROVE SpansSound' /\ GraphsSound' /\ TablesSound'
    <2>0. SpansSound /\ GraphsSound /\ TablesSound
      BY <1>1, <1>2
    <2>1. ASSUME NEW r \in Runs, cleaned'[r] # NoTraces
          PROVE  /\ spans[r] # NoTraces /\ cleaned'[r].at = spans[r].at
                 /\ cleaned'[r].injected = spans[r].injected
                 /\ cleaned'[r].foreign = spans[r].foreign
      <3>1. cleaned[r] = NoTraces
        BY <1>1, <2>0 DEF SpansSound
      <3>2. PICK k \in [Runs -> Coverages] :
              cleaned' = [q \in Runs |-> IF q \in Runs /\ spans[q] # NoTraces
                                         THEN [spans[q] EXCEPT !.moments = @ \intersect k[q],
                                                               !.seen = @ /\ "active" \in k[q]]
                                         ELSE cleaned[q]]
        BY <1>0 DEF Cleanings
      <3>3. spans[r] # NoTraces
        BY <2>1, <3>1, <3>2
      <3>4. spans[r] \in Recording
        BY <3>3 DEF DataInv, FilesTyped, Traces
      <3> DEFINE m == spans[r].moments \intersect k[r]
                 e == spans[r].seen /\ "active" \in k[r]
      <3>5. cleaned'[r] = [spans[r] EXCEPT !.moments = m, !.seen = e]
        BY <3>2, <3>3
      <3>6. /\ cleaned'[r].at = spans[r].at /\ cleaned'[r].injected = spans[r].injected
            /\ cleaned'[r].foreign = spans[r].foreign
        <4> HIDE DEF m, e
        <4> QED BY <3>4, <3>5 DEF Recording
      <3> QED BY <3>3, <3>6
    <2>2. SpansSound'
      BY <1>0, <1>1, <2>0, <2>1 DEF SpansSound
    <2>3. GraphsSound'
      BY <1>0, <1>1, <2>0 DEF GraphsSound
    <2>4. TablesSound'
      BY <1>0, <1>1, <2>0 DEF TablesSound, Empty
    <2> QED BY <2>2, <2>3, <2>4
  <1> QED BY <1>1, <1>2

LEMMA GraphsKeep ==
  ASSUME CollectInv, DataInv, BuildGraphs
  PROVE  Scripted /\ ImportSound' /\ CleanSound'
  <1>0. /\ At9(7) /\ SameRecords /\ job' = job /\ raw' = raw /\ catalog' = catalog
        /\ \/ Done9 /\ payloads' = GraphsBuilt(Runs)
           \/ batch' = [batch EXCEPT !.pc = "died"] /\ payloads' = payloads
        /\ UNCHANGED <<spans, cleaned, features, labelled, tensors>>
    BY DEF BuildGraphs, SameRecords, notData, collectVars, files, interim
  <1>1. /\ Scripted /\ ImportSound' /\ batch.stage = 7 /\ (Done9 => batch'.stage = 8)
        /\ Imported' = Imported
        /\ \A r \in Runs : Fresh(r)' = Fresh(r) /\ Label(r)' = Label(r) /\ Fault(r)' = Fault(r)
        /\ batch.clean => SpansSound /\ GraphsSound /\ TablesSound
        /\ Done9 /\ (batch.clean => SpansSound' /\ GraphsSound' /\ TablesSound') => CleanSound'
        /\ ~Done9 => CleanSound'
    BY <1>0, LaterScript
  <1>2. ASSUME batch.clean, Done9 PROVE SpansSound' /\ GraphsSound' /\ TablesSound'
    <2>0. SpansSound /\ GraphsSound /\ TablesSound /\ batch'.stage = 8
      BY <1>1, <1>2
    <2>1. SpansSound'
      BY <1>0, <1>1, <2>0 DEF SpansSound
    <2>2. ASSUME NEW r \in Runs, payloads'[r] # NoGraph
          PROVE  cleaned[r] # NoTraces /\ payloads'[r].at = cleaned[r].at /\ payloads'[r].root
      <3>1. payloads[r] = NoGraph
        BY <1>1, <2>0 DEF GraphsSound
      <3>2. payloads' = GraphsBuilt(Runs)
        <4>1. batch \in BatchType
          BY DEF CollectInv, CollectTypes
        <4>2. [batch EXCEPT !.pc = "died"].stage = 7
          BY <1>1, <4>1 DEF BatchType
        <4> DEFINE dead == [batch EXCEPT !.pc = "died"]
        <4>3. batch' # dead
          <5>1. dead.stage = 7 /\ batch'.stage = 8
            BY <2>0, <4>2
          <5> HIDE DEF dead
          <5> QED BY ONLY <5>1
        <4> QED BY <1>0, <4>3
      <3>3. HasGraph(r) /\ payloads'[r] = Graph(r)
        BY <2>2, <3>1, <3>2 DEF GraphsBuilt
      <3>4. Fault(r) # "none" /\ r \in Cleaned
        BY <3>3 DEF HasGraph, Label
      <3>5. Target(r) # None
        BY <3>4, RowFacts DEF CollectInv
      <3>6. Graph(r).at = cleaned[r].at /\ Graph(r).root
        BY <3>5 DEF Graph
      <3> QED BY <3>3, <3>4, <3>6 DEF Cleaned
    <2>3. GraphsSound'
      BY <1>0, <1>1, <2>0, <2>2 DEF GraphsSound
    <2>4. TablesSound'
      <3>1. 7 \in 2 .. 9 /\ batch'.stage = 8
        BY <2>0
      <3> QED BY <1>0, <1>1, <2>0, <3>1, RowsStay DEF TablesSound
    <2> QED BY <2>1, <2>3, <2>4
  <1> QED BY <1>1, <1>2

LEMMA TensorsKeep ==
  ASSUME CollectInv, DataInv, ExportTensors \/ MakeSplits
  PROVE  Scripted /\ ImportSound' /\ CleanSound'
  <1>0. /\ SameRecords /\ job' = job /\ raw' = raw /\ catalog' = catalog /\ Done9
        /\ UNCHANGED <<spans, cleaned, features, labelled, payloads>>
    BY DEF ExportTensors, MakeSplits, SameRecords, notData, collectVars, files, interim, processed
  <1> PICK k \in {8, 9} :
        At9(k) /\ tensors' = IF k = 8 THEN TensorsBuilt(Runs) ELSE tensors
    BY DEF ExportTensors, MakeSplits, processed
  <1>1. k \in 2 .. 9
    OBVIOUS
  <1>2. /\ Scripted /\ ImportSound' /\ batch.stage = k /\ batch'.stage = k + 1
        /\ Imported' = Imported
        /\ batch.clean => SpansSound /\ GraphsSound /\ TablesSound
        /\ (batch.clean => SpansSound' /\ GraphsSound' /\ TablesSound') => CleanSound'
    BY <1>0, <1>1, LaterScript
  <1>3. ASSUME batch.clean PROVE SpansSound' /\ GraphsSound' /\ TablesSound'
    <2>0. SpansSound /\ GraphsSound /\ TablesSound /\ batch'.stage > 8 /\ batch.stage > 7
      BY <1>2, <1>3
    <2>1. SpansSound'
      BY <1>0, <1>2, <2>0 DEF SpansSound
    <2>2. GraphsSound'
      BY <1>0, <1>2, <2>0 DEF GraphsSound, TensorsBuilt
    <2>3. TablesSound'
      BY <1>0, <1>2, <2>0, RowsStay DEF TablesSound
    <2> QED BY <2>1, <2>2, <2>3
  <1> QED BY <1>2, <1>3

-----------------------------------------------------------------------------
(* The scripts and the tables. *)

\* What the batch recorded is what the cleaned spans of an imported run show: the
\* phase of a trace is the moment it was taken at, when there was a fault.
LEMMA PhaseTrue ==
  ASSUME CollectInv, DataInv, At9(4) \/ At9(5), batch.clean, NEW r \in Cleaned, Fresh(r),
         Fault(r) # "none", NEW m \in Moments
  PROVE  Phase(r, cleaned[r], m) = m
  <1>0. r \in Runs /\ cleaned[r] # NoTraces /\ Building /\ batch.stage \in {4, 5}
    BY DEF Cleaned, At9, Building
  <1>1. catalog[r] = RowMeta(r) /\ raw[r] = [traces |-> exports[r], meta |-> RowMeta(r)]
    BY <1>0 DEF DataInv, ImportSound
  <1>2. r \in Imported
    BY <1>0, <1>1, MetaIsSome DEF Imported, DataInv
  <1>3. RowOf(r, rows[r].at) /\ TracesOf(r, rows[r].at)
    BY <1>0, SelectedRecorded
  <1>4. catalog[r].window /\ catalog[r].at = rows[r].at
    BY <1>1, <1>3 DEF RowMeta, RowOf
  <1>5. cleaned[r].at = rows[r].at
    <2>1. cleaned[r].at = spans[r].at /\ spans[r] = raw[r].traces
      BY <1>0 DEF DataInv, CleanSound, SpansSound
    <2>2. raw[r].traces = exports[r]
      BY <1>1
    <2> QED BY <1>3, <2>1, <2>2 DEF TracesOf
  <1>6. ~(cleaned[r].at < catalog[r].at)
    <2>1. rows[r].at \in 0 .. MaxClock
      BY <1>0 DEF DataInv, FilesTyped, Row
    <2> QED BY <1>4, <1>5, <2>1
  <1> QED BY <1>2, <1>4, <1>6 DEF Phase

\* The tables the scripts make are of the cleaned spans, and true.
LEMMA RowsTrue ==
  ASSUME CollectInv, DataInv, At9(4) \/ At9(5), batch.clean
  PROVE  \A f \in TraceFeatures \union WindowFeatures : RowTrue(f)
  <1>0. ASSUME NEW r \in Cleaned
        PROVE  cleaned[r].moments \subseteq Moments
    <2>1. cleaned[r] \in Recording
      BY DEF Cleaned, DataInv, FilesTyped, Traces
    <2> QED BY <2>1 DEF Recording
  <1>1. ASSUME NEW f \in TraceFeatures PROVE RowTrue(f)
    <2>1. PICK r \in Cleaned : \E m \in cleaned[r].moments :
            f = [run |-> r, at |-> cleaned[r].at, phase |-> Phase(r, cleaned[r], m), moments |-> {m}]
      BY <1>1 DEF TraceFeatures
    <2>2. PICK m \in cleaned[r].moments :
            f = [run |-> r, at |-> cleaned[r].at, phase |-> Phase(r, cleaned[r], m), moments |-> {m}]
      BY <2>1
    <2>3. f.run = r /\ f.at = cleaned[r].at /\ f.phase = Phase(r, cleaned[r], m) /\ f.moments = {m}
      BY <2>2
    <2>4. Fresh(r) /\ Fault(r) # "none" => Phase(r, cleaned[r], m) = m /\ m \in Moments
      BY <1>0, PhaseTrue
    <2> QED BY <2>3, <2>4 DEF RowTrue
  <1>2. ASSUME NEW f \in WindowFeatures PROVE RowTrue(f)
    <2>1. PICK r \in Cleaned : \E m \in cleaned[r].moments :
            f = [run |-> r, at |-> cleaned[r].at, phase |-> Phase(r, cleaned[r], m),
                 moments |-> {k \in cleaned[r].moments :
                                Phase(r, cleaned[r], k) = Phase(r, cleaned[r], m)}]
      BY <1>2 DEF WindowFeatures
    <2>2. PICK m \in cleaned[r].moments :
            f = [run |-> r, at |-> cleaned[r].at, phase |-> Phase(r, cleaned[r], m),
                 moments |-> {k \in cleaned[r].moments :
                                Phase(r, cleaned[r], k) = Phase(r, cleaned[r], m)}]
      BY <2>1
    <2> DEFINE s == {k \in cleaned[r].moments : Phase(r, cleaned[r], k) = Phase(r, cleaned[r], m)}
    <2>3. f.run = r /\ f.at = cleaned[r].at /\ f.phase = Phase(r, cleaned[r], m) /\ f.moments = s
      BY <2>2
    <2>4. ASSUME Fresh(r), Fault(r) # "none"
          PROVE  Phase(r, cleaned[r], m) = m /\ m \in Moments /\ s = {m}
      <3>1. \A k \in cleaned[r].moments : Phase(r, cleaned[r], k) = k
        BY <1>0, <2>4, PhaseTrue
      <3> QED BY <1>0, <3>1
    <2> HIDE DEF s
    <2> QED BY <2>3, <2>4 DEF RowTrue
  <1> QED BY <1>1, <1>2

LEMMA FeaturesKeep ==
  ASSUME CollectInv, DataInv,
         BuildFeatures(4, "trace", TraceFeatures) \/ BuildFeatures(5, "window", WindowFeatures)
  PROVE  Scripted /\ ImportSound' /\ CleanSound'
  <1>0. /\ SameRecords /\ job' = job /\ raw' = raw /\ catalog' = catalog /\ Done9
        /\ UNCHANGED <<spans, cleaned, labelled, payloads, tensors>>
    BY DEF BuildFeatures, SameRecords, notData, collectVars, files, interim
  <1> PICK k \in {4, 5} :
        At9(k) /\ \/ features' = [features EXCEPT !["trace"] = TraceFeatures]
                  \/ features' = [features EXCEPT !["window"] = WindowFeatures]
    BY DEF BuildFeatures
  <1>1. k \in 2 .. 9
    OBVIOUS
  <1>2. /\ Scripted /\ ImportSound' /\ batch.stage = k /\ batch'.stage = k + 1
        /\ Imported' = Imported
        /\ batch.clean => SpansSound /\ GraphsSound /\ TablesSound
        /\ (batch.clean => SpansSound' /\ GraphsSound' /\ TablesSound') => CleanSound'
    BY <1>0, <1>1, LaterScript
  <1>3. ASSUME batch.clean PROVE SpansSound' /\ GraphsSound' /\ TablesSound'
    <2>0. /\ SpansSound /\ GraphsSound /\ TablesSound /\ batch'.stage \in {5, 6}
          /\ batch.stage \in {4, 5}
      BY <1>2, <1>3
    <2>1. SpansSound'
      BY <1>0, <1>2, <2>0 DEF SpansSound
    <2>2. GraphsSound'
      BY <1>0, <1>2, <2>0 DEF GraphsSound
    <2>3. \A t \in Tables : \A f \in features'[t] : RowTrue(f)
      BY <1>3, <2>0, RowsTrue DEF DataInv, FilesTyped, Tables, TablesSound
    <2>4. labelled' = Empty /\ batch'.stage < 7 /\ ~(batch'.stage < 5)
      BY <1>0, <2>0 DEF TablesSound
    <2>5. TablesSound'
      BY <1>0, <1>2, <2>3, <2>4, RowsStay DEF TablesSound, Empty
    <2> QED BY <2>1, <2>2, <2>5
  <1> QED BY <1>2, <1>3

LEMMA LabelsKeep ==
  ASSUME CollectInv, DataInv, LabelFeatures
  PROVE  Scripted /\ ImportSound' /\ CleanSound'
  <1>0. /\ At9(6) /\ SameRecords /\ job' = job /\ raw' = raw /\ catalog' = catalog /\ Done9
        /\ labelled' = [t \in Tables |-> {[row |-> f, is_anomaly |-> IsAnomaly(f)] : f \in features[t]}]
        /\ UNCHANGED <<spans, cleaned, features, payloads, tensors>>
    BY DEF LabelFeatures, SameRecords, notData, collectVars, files, interim
  <1>1. /\ Scripted /\ ImportSound' /\ batch.stage = 6 /\ batch'.stage = 7
        /\ Imported' = Imported
        /\ batch.clean => SpansSound /\ GraphsSound /\ TablesSound
        /\ (batch.clean => SpansSound' /\ GraphsSound' /\ TablesSound') => CleanSound'
    BY <1>0, LaterScript
  <1>2. ASSUME batch.clean PROVE SpansSound' /\ GraphsSound' /\ TablesSound'
    <2>0. SpansSound /\ GraphsSound /\ TablesSound
      BY <1>1, <1>2
    <2>1. SpansSound'
      BY <1>0, <1>1, <2>0 DEF SpansSound
    <2>2. GraphsSound'
      BY <1>0, <1>1, <2>0 DEF GraphsSound
    <2>3. ASSUME NEW t \in Tables, NEW l \in labelled'[t]
          PROVE  RowTrue(l.row) /\ l.is_anomaly = IsAnomaly(l.row)
      <3>1. PICK f \in features[t] : l = [row |-> f, is_anomaly |-> IsAnomaly(f)]
        BY <1>0, <2>3
      <3> QED BY <2>0, <3>1 DEF TablesSound
    <2>4. TablesSound'
      BY <1>0, <1>1, <2>0, <2>3, RowsStay DEF TablesSound
    <2> QED BY <2>1, <2>2, <2>4
  <1> QED BY <1>1, <1>2

-----------------------------------------------------------------------------
(* What the files hold: the invariant and its theorems. *)

LEMMA RebuildKeeps ==
  ASSUME CollectInv, DataInv, Rebuild
  PROVE  DataInv'
  <1>1. FilesTyped'
    BY BuildFiles DEF DataInv
  <1>2. Scripted /\ ImportSound' /\ CleanSound'
    <2>1. CASE ScriptFails
      <3>1. /\ batch.pc = "rebuild" /\ SameRecords /\ job' = job
            /\ batch' = [batch EXCEPT !.pc = "died"]
        BY <2>1 DEF ScriptFails, SameRecords
      <3>2. Scripted
        BY <3>1, ScriptShape
      <3>3. batch'.pc = "died"
        BY <3>1 DEF CollectInv, CollectTypes, BatchType
      <3> QED BY <3>2, <3>3 DEF ImportSound, CleanSound, Building
    <2> QED BY <2>1, ImportKeeps, ParseKeeps, CleanKeeps, FeaturesKeep, LabelsKeep, GraphsKeep,
               TensorsKeep DEF Rebuild
  <1>3. ClockSound' /\ BatchSound' /\ RecordSound'
    BY <1>2, ScriptRecords
  <1> QED BY <1>1, <1>2, <1>3 DEF DataInv

LEMMA CollectKeeps ==
  ASSUME CollectInv, JobInBatch, DataInv, CollectStep, UNCHANGED dataVars
  PROVE  DataInv'
  <1>1. FilesTyped' /\ ClockSound' /\ BatchSound' /\ RecordSound'
    BY CollectFiles, CollectClock, CollectBatch, CollectRecords DEF DataInv
  <1>2. batch' = batch /\ batch.pc = "collect"
    BY InjectMoves, RecordMoves DEF CollectStep, dataVars, Moves, JobInBatch
  <1> QED BY <1>1, <1>2 DEF DataInv, ImportSound, CleanSound, Building

LEMMA DataInvariant == Spec => []DataInv
  <1>1. Init => DataInv
    <2> SUFFICES ASSUME Init PROVE DataInv
      OBVIOUS
    <2>0. /\ job = NoJob /\ clock = 0 /\ batch = NoBatch
          /\ raw = NoRaw /\ exports = [r \in Runs |-> NoTraces]
          /\ catalog = [r \in Runs |-> NoMeta] /\ spans = [r \in Runs |-> NoTraces]
          /\ cleaned = [r \in Runs |-> NoTraces] /\ features = Empty
          /\ splits = [x \in SplitNames |-> {}]
      BY DEF Init, CollectInit, NoRaw
    <2>1. rows \in [Runs -> Row]
      <3>1. 0 \in 0 .. MaxClock /\ FALSE \in BOOLEAN
        BY BoundsAssumption
      <3> QED BY <3>1 DEF Init, CollectInit, Row
    <2>2. FilesTyped
      BY <2>0, <2>1 DEF FilesTyped, NoRaw, Traces, Metas, Empty
    <2>3. /\ NoJob.pc = "none" /\ NoJob.kind = "none" /\ NoJob.foreign = FALSE
          /\ NoBatch.pc = "none" /\ NoBatch.script = "none" /\ NoBatch.stage = 0
          /\ NoBatch.since = 0 /\ NoBatch.clean = FALSE /\ NoBatch.todo = {} /\ NoBatch.done = {}
      BY DEF NoJob, NoBatch
    <2>4. ClockSound
      <3>1. 0 \in 0 .. MaxClock /\ 0 <= 0
        BY BoundsAssumption
      <3> QED BY <2>0, <2>3, <3>1 DEF ClockSound, Early
    <2>5. BatchSound /\ RecordSound
      <3>1. 0 \in 0 .. 10
        OBVIOUS
      <3> QED BY <2>0, <2>3, <3>1 DEF BatchSound, RecordSound, Building
    <2>6. ImportSound /\ CleanSound
      BY <2>0, <2>3 DEF ImportSound, CleanSound, Building
    <2> QED BY <2>2, <2>4, <2>5, <2>6 DEF DataInv
  <1>2. CollectInv /\ JobInBatch /\ DataInv /\ [Next]_vars => DataInv'
    <2> SUFFICES ASSUME CollectInv, JobInBatch, DataInv, [Next]_vars PROVE DataInv'
      OBVIOUS
    <2>1. CASE StartBatch \/ StartExtended
      BY <2>1, BatchStarts
    <2>2. CASE NextRun
      BY <2>2, RunStarts
    <2>3. CASE CollectStep /\ UNCHANGED dataVars
      BY <2>3, CollectKeeps
    <2>4. CASE RunEnds
      BY <2>4, RunStops
    <2>5. CASE EndRecording \/ CleanRoots
      BY <2>5, EndsKeepData
    <2>6. CASE Rebuild
      BY <2>6, RebuildKeeps
    <2>7. CASE UNCHANGED vars
      <3> USE <2>7 DEF vars, collectVars, cluster, files, dataVars, interim, processed
      <3>1. FilesTyped' /\ ClockSound' /\ BatchSound' /\ RecordSound'
        <4>1. Calm' = Calm /\ \A r : Fault(r)' = Fault(r)
          BY DEF Calm, Fault
        <4>2. FilesTyped' /\ ClockSound'
          BY DEF DataInv, FilesTyped, ClockSound
        <4>3. BatchSound'
          BY DEF DataInv, BatchSound, Building
        <4>4. RecordSound'
          BY <4>1 DEF DataInv, RecordSound, RowOf, TracesOf
        <4> QED BY <4>2, <4>3, <4>4
      <3>2. ImportSound' /\ CleanSound'
        <4>1. Imported' = Imported /\ Cleaned' = Cleaned
          BY DEF Imported, Cleaned
        <4>2. \A r : Fault(r)' = Fault(r) /\ Fresh(r)' = Fresh(r) /\ RowMeta(r)' = RowMeta(r)
          BY DEF Fault, Fresh, RowMeta
        <4>3. \A f : RowTrue(f)' = RowTrue(f) /\ IsAnomaly(f)' = IsAnomaly(f)
          BY <4>1, <4>2 DEF RowTrue, IsAnomaly, Label
        <4> QED BY <4>1, <4>2, <4>3
                DEF DataInv, ImportSound, CleanSound, SpansSound, GraphsSound, TablesSound, Building
      <3> QED BY <3>1, <3>2 DEF DataInv
    <2> QED BY <2>1, <2>2, <2>3, <2>4, <2>5, <2>6, <2>7 DEF Next
  <1> QED BY <1>1, <1>2, CollectInvariant, PTL DEF Spec

\* Every variable the batches decide by keeps its type: no recording, label, graph or
\* split is of a run the metadata file does not have, or of a time that was none.
THEOREM DatasetTypeCorrect == Spec => []TypeOK
  <1>1. CollectInv /\ DataInv => TypeOK
    <2> SUFFICES ASSUME CollectInv, DataInv PROVE TypeOK
      OBVIOUS
    <2>1. /\ config \in [Services -> Config] /\ replicas \in [Services -> Nat]
          /\ job.run \in Runs \union {None}
          /\ batch.todo \union batch.done \union batch.failed \subseteq Runs
      BY DEF CollectInv, CollectTypes, JobType, BatchType
    <2>2. batch.stage \in 0 .. 10
      BY DEF DataInv, BatchSound
    <2>3. ASSUME NEW r \in Runs
          PROVE  /\ {raw[r].traces, exports[r], spans[r], cleaned[r]} \subseteq Recording \union {NoTraces}
                 /\ {raw[r].meta, catalog[r]} \subseteq Meta \union {NoMeta}
      BY DEF DataInv, FilesTyped, Traces, Metas
    <2> QED BY <2>1, <2>2, <2>3 DEF TypeOK, DataInv, FilesTyped
  <1> QED BY <1>1, CollectInvariant, DataInvariant, PTL

\* A rebuild by a batch that records takes what the batch itself recorded, of every run
\* it selected (13, 11, 12 and 02).
THEOREM SelectedRunsAreImported == Spec => []SelectedRunsImported
  <1>1. CollectInv /\ DataInv => SelectedRunsImported
    <2> SUFFICES ASSUME CollectInv, DataInv, Rebuilt, batch.mode = "all",
                        batch.script = "script 13", NEW r \in batch.selected
                 PROVE  /\ r \in Imported /\ catalog[r] = raw[r].meta /\ catalog[r] = RowMeta(r)
                        /\ raw[r].traces.at = rows[r].at /\ rows[r].at > batch.since
      BY DEF SelectedRunsImported
    <2>1. Building /\ r \in Runs /\ Fresh(r)
      BY DEF Building, Rebuilt, Fresh, CollectInv, CollectTypes, BatchType
    <2>6. batch.stage > 1
      <3>1. batch.stage = 10
        BY DEF Rebuilt, DataInv, BatchSound
      <3> QED BY ONLY <3>1
    <2>2. catalog[r] = RowMeta(r) /\ raw[r] = [traces |-> exports[r], meta |-> RowMeta(r)]
      BY <2>1, <2>6 DEF DataInv, ImportSound
    <2>3. r \in Imported
      BY <2>1, <2>2, MetaIsSome DEF Imported, DataInv
    <2>4. exports[r].at = rows[r].at /\ batch.since < rows[r].at
      BY <2>1, SelectedRecorded DEF TracesOf
    <2>5. rows[r].at \in Nat /\ batch.since \in Nat
      <3>1. rows[r] \in RowType /\ batch \in BatchType
        BY <2>1 DEF CollectInv, CollectTypes
      <3> QED BY <3>1 DEF RowType, BatchType
    <2>7. rows[r].at > batch.since
      BY ONLY <2>4, <2>5
    <2>8. raw[r].traces = exports[r] /\ raw[r].meta = RowMeta(r)
      BY ONLY <2>2
    <2> QED BY <2>2, <2>3, <2>4, <2>7, <2>8
  <1> QED BY <1>1, CollectInvariant, DataInvariant, PTL

\* A graph that is left to the trainers after a clean rebuild is of a run of the catalog,
\* of the traces that run has now, and its root cause is one of its nodes (07 and 08).
THEOREM ExportedGraphsAreCurrent == Spec => []GraphsAreCurrent
  <1>1. CollectInv /\ DataInv => GraphsAreCurrent
    <2> SUFFICES ASSUME CollectInv, DataInv, Rebuilt, batch.clean,
                        NEW r \in Runs, tensors[r] # NoGraph
                 PROVE  /\ r \in Imported /\ tensors[r].at = raw[r].traces.at
                        /\ tensors[r].root /\ tensors[r] = payloads[r]
      BY DEF GraphsAreCurrent
    <2>1. SpansSound /\ GraphsSound /\ batch.stage = 10
      BY DEF Building, Rebuilt, DataInv, CleanSound, BatchSound
    <2>2. /\ tensors[r] = payloads[r] /\ cleaned[r] # NoTraces /\ payloads[r].root
          /\ payloads[r].at = cleaned[r].at
      BY <2>1 DEF GraphsSound
    <2>3. /\ cleaned[r].at = spans[r].at /\ spans[r] = raw[r].traces /\ raw[r].meta # NoMeta
      BY <2>1, <2>2 DEF SpansSound
    <2>4. r \in Imported
      <3>1. batch.stage > 1
        BY ONLY <2>1
      <3> QED BY <2>1, <2>3, <3>1 DEF SpansSound
    <2> QED BY <2>2, <2>3, <2>4
  <1> QED BY <1>1, CollectInvariant, DataInvariant, PTL

\* After a batch that records, cleans and rebuilds, on a cluster it found undisturbed, the
\* labels say what was done to the system when the traces were taken: whatever earlier
\* batches left behind, and whichever of their commands failed (02 to 06).
THEOREM LabelsAreTrue == Spec => []LabelsTellTheTruth
  <1>1. CollectInv /\ DataInv => LabelsTellTheTruth
    <2> SUFFICES ASSUME CollectInv, DataInv, Rebuilt, batch.mode = "all", batch.clean,
                        batch.undisturbed,
                        NEW t \in Tables, NEW l \in labelled[t], l.row.run \in batch.selected
                 PROVE  LET c == cleaned[l.row.run] IN
                        /\ l.is_anomaly <=> c.injected /\ l.row.moments = {"active"}
                        /\ l.row.at = c.at /\ ~c.foreign
      BY DEF LabelsTellTheTruth
    <2> DEFINE f == l.row
               r == f.run
    <2>1. /\ SpansSound /\ TablesSound /\ batch.stage = 10 /\ Building /\ r \in Runs
      BY DEF Building, Rebuilt, DataInv, CleanSound, BatchSound, CollectInv, CollectTypes, BatchType
    <2>2. batch.stage > 1
      BY ONLY <2>1
    <2>3. Fresh(r)
      BY DEF Fresh, DataInv, BatchSound
    <2>4. RowTrue(f) /\ l.is_anomaly = IsAnomaly(f)
      BY <2>1 DEF TablesSound
    <2>5. /\ r \in Cleaned /\ f.at = cleaned[r].at
          /\ Fault(r) # "none" => f.phase \in Moments /\ f.moments = {f.phase}
      BY <2>3, <2>4 DEF RowTrue
    <2>6. /\ cleaned[r].injected = spans[r].injected /\ cleaned[r].foreign = spans[r].foreign
          /\ spans[r] = raw[r].traces
      BY <2>1, <2>5 DEF SpansSound, Cleaned
    <2>7. raw[r].traces = exports[r] /\ r \in Imported
      <3>1. catalog[r] = RowMeta(r) /\ raw[r] = [traces |-> exports[r], meta |-> RowMeta(r)]
        BY <2>1, <2>2, <2>3 DEF DataInv, ImportSound
      <3>2. r \in Imported
        BY <2>1, <3>1, MetaIsSome DEF DataInv, Imported
      <3>3. raw[r].traces = exports[r]
        BY ONLY <3>1
      <3> QED BY <3>2, <3>3
    <2>8. (exports[r].injected <=> Fault(r) # "none") /\ ~exports[r].foreign
      BY <2>1, <2>3, SelectedRecorded DEF TracesOf
    <2> HIDE DEF r
    <2>9. CASE Fault(r) = "none"
      <3>1. ~IsAnomaly(f)
        BY <2>9 DEF IsAnomaly, Label, r
      <3> QED BY <2>4, <2>5, <2>6, <2>7, <2>8, <2>9, <3>1 DEF r
    <2>10. CASE Fault(r) # "none"
      <3>1. IsAnomaly(f) <=> f.phase = "active"
        BY <2>5, <2>7, <2>10 DEF IsAnomaly, Label, Moments, r
      <3>2. f.phase = "active" <=> f.moments = {"active"}
        BY <2>5, <2>10
      <3> QED BY <2>4, <2>5, <2>6, <2>7, <2>8, <2>10, <3>1, <3>2 DEF r
    <2> QED BY <2>9, <2>10
  <1> QED BY <1>1, CollectInvariant, DataInvariant, PTL

\* However often the data set is recorded and rebuilt, and whatever failed before, the
\* splits of a rebuild that ended divide its catalog (09_make_splits.py).
THEOREM SplitsDivide == Spec => []SplitsCoverCatalog
  <1>1. Init => SplitsInv
    BY DEF Init, NoBatch, SplitsInv
  <1>2. CollectInv /\ JobInBatch /\ SplitsInv /\ [Next]_vars => SplitsInv'
    <2> SUFFICES ASSUME CollectInv, JobInBatch, SplitsInv, [Next]_vars PROVE SplitsInv'
      OBVIOUS
    <2>0. batch \in BatchType
      BY DEF CollectInv, CollectTypes
    <2>1. CASE MakeSplits
      <3>1. splits' \in SplitChoices /\ catalog' = catalog /\ rows' = rows
        BY <2>1 DEF MakeSplits, processed, notData, collectVars, files
      <3>2. Divides(splits')
        BY <3>1, ChoicesDivide DEF CollectInv
      <3>3. Imported' = Imported
        BY <3>1 DEF Imported
      <3>4. Untagged' = Untagged
        BY <3>3 DEF Untagged
      <3>5. Groups' = Groups
        BY <3>1, <3>4 DEF Groups
      <3> QED BY <3>2, <3>3, <3>5 DEF Divides, SplitsInv
    <2>2. CASE UNCHANGED vars
      BY <2>2, DividesStays
         DEF SplitsInv, vars, collectVars, files, dataVars, processed
    <2>3. CASE ~MakeSplits /\ Next
      <3> SUFFICES batch'.pc # "rebuilt"
        BY DEF SplitsInv
      <3>1. CASE StartBatch \/ StartExtended
        BY <3>1, BatchShape
      <3>2. CASE NextRun
        BY <2>0, <3>2 DEF NextRun, BatchType
      <3>3. CASE CollectStep /\ UNCHANGED dataVars
        <4>1. batch' = batch /\ job.pc # "none"
          BY <3>3, InjectMoves, RecordMoves DEF CollectInv, CollectStep, dataVars, Moves
        <4> QED BY <4>1 DEF JobInBatch
      <3>4. CASE RunEnds
        <4>1. batch.pc = "collect"
          BY <3>4 DEF RunEnds, JobInBatch
        <4>2. \/ batch' = batch
              \/ batch' = [batch EXCEPT !.done = @ \union {job.run}]
              \/ batch' = [batch EXCEPT !.failed = @ \union {job.run},
                                        !.pc = IF batch.stop THEN "died" ELSE @]
          BY <3>4 DEF RunEnds
        <4> QED BY <2>0, <4>1, <4>2 DEF BatchType
      <3>5. CASE EndRecording \/ CleanRoots
        BY <3>5, RecordingEnds
      <3>6. CASE Rebuild
        <4>1. (batch.stage # 9 /\ batch.pc = "rebuild" /\ Done9) \/ batch' = [batch EXCEPT !.pc = "died"]
          BY <2>3, <3>6
             DEF Rebuild, Import, ParseTraces, CleanSpans, BuildFeatures, LabelFeatures,
                 BuildGraphs, ExportTensors, ScriptFails, At9
        <4> QED BY <2>0, <4>1 DEF Done9, BatchType
      <3> QED BY <2>3, <3>1, <3>2, <3>3, <3>4, <3>5, <3>6 DEF Next
    <2> QED BY <2>1, <2>2, <2>3
  <1>3. SplitsInv => SplitsCoverCatalog
    BY DEF SplitsInv, SplitsCoverCatalog, Rebuilt, Divides
  <1> QED BY <1>1, <1>2, <1>3, CollectInvariant, PTL DEF Spec
=============================================================================
