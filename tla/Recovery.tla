------------------------------- MODULE Recovery -------------------------------
(***************************************************************************)
(* Recovery actions on the deployments of the monitored system: those an   *)
(* operator asks of the dashboard (execute_recovery, kubectl step by step) *)
(* and those the orchestrator's executor runs by itself (execute_action).  *)
(* Both sides use the same deployments and know nothing of each other.     *)
(***************************************************************************)
EXTENDS Integers, Sequences, FiniteSets

CONSTANTS
  Operators,  \* recovery requests made of the dashboard
  Executors,  \* requests for which the orchestrator runs its executor
  Services,   \* the deployments of the system
  Allowed,    \* the services of AIOPS_ALLOWED_SERVICES
  ScaleTo,    \* AIOPS_SCALE_REPLICAS
  Replicas0,  \* the replica counts a deployment may start with
  RealModes,  \* whether RECOVERY_MODE is "real": {TRUE}, {FALSE} or both
  DryRuns     \* what AIOPS_EXECUTOR_DRY_RUN may say, likewise

ASSUME ActorsAssumption == Operators \intersect Executors = {}
ASSUME AllowedAssumption == Allowed \subseteq Services
ASSUME ReplicasAssumption == ScaleTo \in Nat /\ Replicas0 \subseteq Nat
ASSUME ModeAssumption == RealModes \subseteq BOOLEAN /\ DryRuns \subseteq BOOLEAN

VARIABLES
  replicas,   \* spec.replicas of each deployment
  revisions,  \* the configurations of its revisions, the current one last
  changes,    \* every change of a deployment, in order, with who made it
  pc,         \* where each operator's request is
  job,        \* the action and the service it asks for
  seen,       \* the replicas it has read
  history,    \* RECOVERY_HISTORY
  audits,     \* the requests with an audit entry
  reply       \* what each request was answered

cluster == <<replicas, revisions, changes>>
recoveryVars == <<cluster, pc, job, seen, history, audits, reply>>

Actors == Operators \union Executors

Actions == {"restart_pod", "scale_service", "rollback_deployment", "alert_only"}

Job == [action : Actions, service : Services, real : BOOLEAN]

NoJob == [action |-> "none"]

-----------------------------------------------------------------------------
(* kubectl *)

\* rollout undo: the revision before the current one becomes the newest.
Undone(s) ==
  LET r == revisions[s]
      n == Len(r)
  IN revisions' = [revisions EXCEPT ![s] = [r EXCEPT ![n - 1] = r[n], ![n] = r[n - 1]]]

Log(p, action, s) ==
  changes' = Append(changes, [by |-> p, action |-> action, service |-> s])

\* rollout restart: a new revision with the configuration it had.
Restart(p, s) ==
  /\ revisions' = [revisions EXCEPT ![s] = Append(@, @[Len(@)])]
  /\ UNCHANGED replicas
  /\ Log(p, "restart_pod", s)

Scale(p, s, n) ==
  /\ replicas' = [replicas EXCEPT ![s] = n]
  /\ UNCHANGED revisions
  /\ Log(p, "scale_service", s)

Undo(p, s) ==
  /\ Len(revisions[s]) > 1
  /\ Undone(s)
  /\ UNCHANGED replicas
  /\ Log(p, "rollback_deployment", s)

-----------------------------------------------------------------------------
(* The dashboard: execute_recovery *)

RecoveryInit ==
  /\ replicas \in [Services -> Replicas0]
  /\ revisions = [s \in Services |-> <<1, 2>>]
  /\ changes = <<>>
  /\ pc = [p \in Operators |-> "new"]
  /\ job = [p \in Operators |-> NoJob]
  /\ seen = [p \in Operators |-> 0]
  /\ history = <<>>
  /\ audits = {}
  /\ reply = [p \in Actors |-> "none"]

Go(p, to) == pc' = [pc EXCEPT ![p] = to]

\* The first step of an action: nothing is done for an alert or in demo mode.
FirstStep(j) ==
  CASE ~j.real \/ j.action = "alert_only"     -> "record"
    [] j.real /\ j.action = "restart_pod"     -> "restart"
    [] j.real /\ j.action = "scale_service"   -> "get"

AskRecovery(p) ==
  /\ pc[p] = "new"
  /\ \E j \in Job :
       /\ j.action # "rollback_deployment" /\ j.real \in RealModes
       /\ job' = [job EXCEPT ![p] = j]
       /\ Go(p, FirstStep(j))
  /\ UNCHANGED <<cluster, seen, history, audits, reply>>

\* _deployment_payload: no replicas, and zero replicas, count as one.
GetReplicas(p) ==
  /\ pc[p] = "get"
  /\ LET n == replicas[job[p].service] IN
       seen' = [seen EXCEPT ![p] = IF n = 0 THEN 1 ELSE n]
  /\ Go(p, "scale")
  /\ UNCHANGED <<cluster, job, history, audits, reply>>

\* Fault: the replicas are doubled.
ScaleUp_Doubles(p) ==
  /\ pc[p] = "scale"
  /\ Scale(p, job[p].service, 2 * (seen[p] + 1))
  /\ Go(p, "status")
  /\ UNCHANGED <<job, seen, history, audits, reply>>

ScaleUp(p) ==
  /\ pc[p] = "scale"
  /\ Scale(p, job[p].service, seen[p] + 1)
  /\ Go(p, "status")
  /\ UNCHANGED <<job, seen, history, audits, reply>>

RestartPods(p) ==
  /\ pc[p] = "restart"
  /\ Restart(p, job[p].service)
  /\ Go(p, "status")
  /\ UNCHANGED <<job, seen, history, audits, reply>>

\* rollout status has seen the rollout complete.
RolledOut(p) ==
  /\ pc[p] = "status"
  /\ Go(p, "record")
  /\ UNCHANGED <<cluster, job, seen, history, audits, reply>>

\* Fault: a failing command is noted and the request goes on.
CommandFails_Recorded(p) ==
  /\ pc[p] \in {"get", "scale", "restart", "status"}
  /\ Go(p, "record")
  /\ UNCHANGED <<cluster, job, seen, history, audits, reply>>

\* A kubectl command fails, or rollout status runs out of time: 502, and what
\* was changed before stays changed.
CommandFails(p) ==
  /\ pc[p] \in {"get", "scale", "restart", "status"}
  /\ Go(p, "done")
  /\ reply' = [reply EXCEPT ![p] = "error"]
  /\ UNCHANGED <<cluster, job, seen, history, audits>>

StatusOf(p) ==
  IF job[p].real /\ job[p].action # "alert_only" THEN "executed" ELSE "accepted"

RecordRecovery(p) ==
  /\ pc[p] = "record"
  /\ history' = Append(history, [by |-> p, job |-> job[p], status |-> StatusOf(p)])
  /\ Go(p, "audit")
  /\ UNCHANGED <<cluster, job, seen, audits, reply>>

\* The audit entry is written and the request answered, or the store fails.
AuditRecovery(p) ==
  /\ pc[p] = "audit"
  /\ \/ audits' = audits \union {p} /\ reply' = [reply EXCEPT ![p] = "ok"]
     \/ audits' = audits /\ reply' = [reply EXCEPT ![p] = "error"]
  /\ Go(p, "done")
  /\ UNCHANGED <<cluster, job, seen, history>>

Operate(p) ==
  \/ AskRecovery(p) \/ GetReplicas(p) \/ ScaleUp(p) \/ RestartPods(p)
  \/ RolledOut(p) \/ CommandFails(p) \/ RecordRecovery(p) \/ AuditRecovery(p)

-----------------------------------------------------------------------------
(* The orchestrator: execute_action, answering "success", "failed", "dry_run"
   or, when it raises, "error" *)

Answer(p, r) == reply' = [reply EXCEPT ![p] = r]

Run(p, action, s) ==
  CASE action = "restart_pod"         -> Restart(p, s)
    [] action = "scale_service"       -> Scale(p, s, ScaleTo)
    [] action = "rollback_deployment" -> Undo(p, s)

Permitted(s) == s \in Allowed

\* Fault: the return code is not looked at.
Execute_AnySuccess(p, action, s) ==
  /\ \/ ~Permitted(s) /\ Answer(p, "error") /\ UNCHANGED cluster
     \/ Permitted(s) /\ FALSE \in DryRuns /\ Answer(p, "success")
        /\ (Run(p, action, s) \/ UNCHANGED cluster)
  /\ UNCHANGED <<pc, job, seen, history, audits>>

\* The service is refused, the command is only shown, or it is run: then it
\* succeeds, fails, or is killed after its time, having had its effect or not.
Execute(p, action, s) ==
  /\ \/ ~Permitted(s) /\ Answer(p, "error") /\ UNCHANGED cluster
     \/ Permitted(s) /\ TRUE \in DryRuns /\ Answer(p, "dry_run") /\ UNCHANGED cluster
     \/ Permitted(s) /\ FALSE \in DryRuns /\ Run(p, action, s) /\ Answer(p, "success")
     \/ Permitted(s) /\ FALSE \in DryRuns /\ UNCHANGED cluster /\ Answer(p, "failed")
     \/ Permitted(s) /\ FALSE \in DryRuns /\ Run(p, action, s) /\ Answer(p, "error")
     \/ Permitted(s) /\ FALSE \in DryRuns /\ UNCHANGED cluster /\ Answer(p, "error")
  /\ UNCHANGED <<pc, job, seen, history, audits>>

\* On its own the module runs any action on any service, once per request.
ExecuteAny(p) ==
  /\ reply[p] = "none"
  /\ \E action \in Actions \ {"alert_only"}, s \in Services : Execute(p, action, s)

RecoveryNext ==
  \/ \E p \in Operators : Operate(p)
  \/ \E p \in Executors : ExecuteAny(p)

RecoverySpec == RecoveryInit /\ [][RecoveryNext]_recoveryVars

-----------------------------------------------------------------------------
(* Properties *)

Steps ==
  {"new", "get", "scale", "restart", "status", "record", "audit", "done"}

\* Every variable has its type; a deployment never loses its last revision.
RecoveryTypeOK ==
  /\ replicas \in [Services -> Nat]
  /\ revisions \in [Services -> Seq(Nat) \ {<<>>}]
  /\ changes \in Seq([by : Actors, action : Actions, service : Services])
  /\ pc \in [Operators -> Steps]
  /\ job \in [Operators -> Job \union {NoJob}]
  /\ seen \in [Operators -> Nat]
  /\ history \in Seq([by : Operators, job : Job, status : {"executed", "accepted"}])
  /\ audits \subseteq Operators
  /\ reply \in [Actors -> {"none", "ok", "success", "failed", "dry_run", "error"}]

Changed(p, action, s) ==
  \E i \in DOMAIN changes : changes[i] = [by |-> p, action |-> action, service |-> s]

\* What the recovery history and the audit log call executed was done to that
\* deployment for that very request, and every answered request is in both.
RecordedIsDone ==
  /\ \A i \in DOMAIN history :
       history[i].status = "executed" =>
         Changed(history[i].by, history[i].job.action, history[i].job.service)
  /\ \A p \in Operators :
       /\ p \in audits => \E i \in DOMAIN history : history[i].by = p
       /\ reply[p] = "ok" => p \in audits

\* Requests that race on one deployment never add up to more replicas than one
\* per request, whatever the executor sets in between.
ScaledOncePerRequest ==
  \A s \in Services :
    LET asking == {p \in Operators : job[p].action = "scale_service" /\ job[p].service = s}
    IN \E n \in Replicas0 \union {1, ScaleTo} : replicas[s] <= n + Cardinality(asking)
=============================================================================
