----------------------------- MODULE LiveAnalysis -----------------------------
(***************************************************************************)
(* One Live Analyze request from end to end: the dashboard asks the        *)
(* orchestrator, which asks the anomaly service, then the RCA service, and *)
(* may run its executor; when that fails or takes more than 30 seconds the *)
(* dashboard asks the two services itself, and then the RCA service alone. *)
(* The orchestrator's handler goes on after the dashboard has given up.    *)
(* What is found is stored as a monitoring event and written to the audit  *)
(* log.  The executor changes the deployments of module Recovery, whose    *)
(* operators work at the same time; the analyses are its Executors.        *)
(***************************************************************************)
EXTENDS Recovery

CONSTANTS
  None,           \* no service, no RCA, no execution
  ActionOf,       \* the executor action of SERVICE_ACTIONS, or "alert"
  AutoExecution,  \* AUTO_EXECUTION_ENABLED
  HealthOverride  \* ENABLE_K8S_HEALTH_OVERRIDE

ASSUME NoneAssumption ==
  None \notin Services \union {"success", "failed", "dry_run", "error", "none"}
ASSUME PolicyAssumption ==
  ActionOf \in [Services -> (Actions \ {"alert_only"}) \union {"alert"}]
ASSUME SwitchAssumption == AutoExecution \in BOOLEAN /\ HealthOverride \in BOOLEAN

VARIABLES
  input,    \* what an analysis is about: see Input
  dash,     \* where the dashboard's handler of an analysis is
  orch,     \* where the orchestrator's handler of it is
  result,   \* the result the dashboard has for it so far
  events,   \* the monitoring events
  audited   \* the analyses with an audit entry

analysisVars == <<input, dash, orch, result, events, audited>>
vars == <<recoveryVars, analysisVars>>

Analyses == Executors

-----------------------------------------------------------------------------
(* Inputs and results *)

\* An input: whether the traces gave a graph, run_rca_on_any_input, and what
\* the two models say of it (they answer the same window the same way).
Input == [graph : BOOLEAN, force : BOOLEAN, anomaly : BOOLEAN,
          culprit : Services]

NoInput == [none |-> None]

\* A result: the anomaly verdict, RCA's top service, what the executor says it
\* did, and which pipeline it comes from.
Result(anomaly, rca, execution, pipeline) ==
  [anomaly |-> anomaly, rca |-> rca, execution |-> execution, pipeline |-> pipeline]

NoResult == Result(FALSE, None, None, "none")

\* recommend_actions: what is recommended for a verdict and a top service.
Recommended(anomaly, rca) ==
  CASE ~anomaly              -> "monitor"
    [] anomaly /\ rca = None -> "triage"
    [] OTHER                 -> ActionOf[rca]

RunsRca(q) == (input[q].force \/ input[q].anomaly) /\ input[q].graph

\* Fault: an RCA that was forced counts as an incident.
Executable_Forced(q) ==
  AutoExecution /\ Recommended(TRUE, input[q].culprit) \notin {"monitor", "triage", "alert"}

\* _maybe_execute, after RCA.
Executable(q) ==
  /\ AutoExecution
  /\ Recommended(input[q].anomaly, input[q].culprit) \notin {"monitor", "triage", "alert"}

\* The result of either pipeline, the orchestrator's and the dashboard's own.
Found(q, execution) ==
  Result(input[q].anomaly, IF RunsRca(q) THEN input[q].culprit ELSE None, execution,
         "pipeline")

-----------------------------------------------------------------------------
(* The dashboard's handler, up to a result *)

Dash(q, to) == dash' = [dash EXCEPT ![q] = to]

Have(q, r) == result' = [result EXCEPT ![q] = r]

\* The live inputs are collected and the orchestrator is asked, or is down.
Analyze(q) ==
  /\ dash[q] = "new"
  /\ \E i \in Input : input' = [input EXCEPT ![q] = i]
  /\ \/ Dash(q, "orchestrator") /\ orch' = [orch EXCEPT ![q] = "anomaly"]
     \/ Dash(q, "local") /\ UNCHANGED orch
  /\ UNCHANGED <<recoveryVars, result, events, audited>>

\* collect_live_inputs raises: 502.
CollectFails(q) ==
  /\ dash[q] = "new"
  /\ Dash(q, "refused")
  /\ UNCHANGED <<recoveryVars, input, orch, result, events, audited>>

\* The orchestrator's reply arrives in time: its result, or an HTTP error.
Receive(q) ==
  /\ dash[q] = "orchestrator"
  /\ \/ /\ orch[q] = "replied"
        /\ Have(q, Found(q, IF reply[q] = "none" THEN None ELSE reply[q]))
        /\ Dash(q, "override")
     \/ orch[q] = "failed" /\ Dash(q, "local") /\ UNCHANGED result
  /\ UNCHANGED <<recoveryVars, input, orch, events, audited>>

\* Fault: the dashboard asks the orchestrator once more.
TimeOut_Retries(q) ==
  /\ dash[q] = "orchestrator" /\ orch[q] # "failed"
  /\ orch' = [orch EXCEPT ![q] = "anomaly"]
  /\ UNCHANGED <<recoveryVars, input, dash, result, events, audited>>

\* Fault: the call has no timeout of its own.
TimeOut_Never(q) ==
  /\ dash[q] = "orchestrator" /\ orch[q] = "failed"
  /\ Dash(q, "local")
  /\ UNCHANGED <<recoveryVars, input, orch, result, events, audited>>

\* urlopen gives up after 30 seconds, whatever the orchestrator is doing.
TimeOut(q) ==
  /\ dash[q] = "orchestrator" /\ orch[q] # "failed"
  /\ Dash(q, "local")
  /\ UNCHANGED <<recoveryVars, input, orch, result, events, audited>>

\* _run_pipeline_locally: both services answer, or one of them fails.
AnalyzeLocally(q) ==
  /\ dash[q] = "local"
  /\ \/ Have(q, Found(q, None)) /\ Dash(q, "override")
     \/ Dash(q, "rca_only") /\ UNCHANGED result
  /\ UNCHANGED <<recoveryVars, input, orch, events, audited>>

\* _run_live_rca_only: without an anomaly service the window counts as one.
AnalyzeRcaOnly(q) ==
  /\ dash[q] = "rca_only"
  /\ \/ /\ input[q].graph
        /\ Have(q, Result(TRUE, input[q].culprit, None, "live_rca_only"))
        /\ Dash(q, "override")
     \/ Dash(q, "refused") /\ UNCHANGED result
  /\ UNCHANGED <<recoveryVars, input, orch, events, audited>>

-----------------------------------------------------------------------------
(* The orchestrator's handler: analyze_pipeline *)

Orch(q, to) == orch' = [orch EXCEPT ![q] = to]

OrchAnomaly(q) ==
  /\ orch[q] = "anomaly"
  /\ \/ Orch(q, IF RunsRca(q) THEN "rca" ELSE "replied")
     \/ Orch(q, "failed")
  /\ UNCHANGED <<recoveryVars, input, dash, result, events, audited>>

OrchRca(q) ==
  /\ orch[q] = "rca"
  /\ \/ Orch(q, IF Executable(q) THEN "execute" ELSE "replied")
     \/ Orch(q, "failed")
  /\ UNCHANGED <<recoveryVars, input, dash, result, events, audited>>

\* Fault: an executor that raises is passed over.
OrchExecute_PassesOver(q) ==
  /\ orch[q] = "execute"
  /\ Execute(q, ActionOf[input[q].culprit], input[q].culprit)
  /\ Orch(q, "replied")
  /\ UNCHANGED <<input, dash, result, events, audited>>

OrchExecute(q) ==
  /\ orch[q] = "execute"
  /\ Execute(q, ActionOf[input[q].culprit], input[q].culprit)
  /\ Orch(q, IF reply'[q] = "error" THEN "failed" ELSE "replied")
  /\ UNCHANGED <<input, dash, result, events, audited>>

-----------------------------------------------------------------------------
(* The dashboard's handler, from a result to the answer *)

\* Degraded services replace verdict and RCA; the rest of the result stays.
Overridden(r, s) == [r EXCEPT !.anomaly = TRUE, !.rca = s, !.pipeline = "override"]

\* Fault: the health of the services is looked at for an anomaly only.
Override_KeepsNormal(q) ==
  /\ dash[q] = "override"
  /\ \/ /\ ~HealthOverride \/ ~result[q].anomaly \/ \A s \in Services : replicas[s] > 0
        /\ Dash(q, "store") /\ UNCHANGED result
     \/ /\ HealthOverride
        /\ \E s \in Services : Have(q, Overridden(result[q], s))
        /\ Dash(q, "store")
     \/ HealthOverride /\ Dash(q, "refused") /\ UNCHANGED result
  /\ UNCHANGED <<recoveryVars, input, orch, events, audited>>

\* Services kubectl finds degraded: those scaled to zero, and any other whose
\* pods or endpoints are not ready.  The worst of them becomes the top one.
Override(q) ==
  /\ dash[q] = "override"
  /\ \/ /\ ~HealthOverride \/ \A s \in Services : replicas[s] > 0
        /\ Dash(q, "store") /\ UNCHANGED result
     \/ /\ HealthOverride
        /\ \E s \in Services : Have(q, Overridden(result[q], s))
        /\ Dash(q, "store")
     \/ HealthOverride /\ Dash(q, "refused") /\ UNCHANGED result
  /\ UNCHANGED <<recoveryVars, input, orch, events, audited>>

\* The event holds the result and the recommendation made of it.
Event(q) ==
  [by |-> q, result |-> result[q],
   recommended |-> Recommended(result[q].anomaly, result[q].rca)]

\* create_monitoring_event, which may fail.
StoreEvent(q) ==
  /\ dash[q] = "store"
  /\ \/ events' = events \union {Event(q)} /\ Dash(q, "audit")
     \/ events' = events /\ Dash(q, "refused")
  /\ UNCHANGED <<recoveryVars, input, orch, result, audited>>

\* write_audit_log, which may fail.
AuditAnalysis(q) ==
  /\ dash[q] = "audit"
  /\ \/ audited' = audited \union {q} /\ Dash(q, "answered")
     \/ audited' = audited /\ Dash(q, "refused")
  /\ UNCHANGED <<recoveryVars, input, orch, result, events>>

-----------------------------------------------------------------------------
Init ==
  /\ RecoveryInit
  /\ input = [q \in Analyses |-> NoInput]
  /\ dash = [q \in Analyses |-> "new"]
  /\ orch = [q \in Analyses |-> "idle"]
  /\ result = [q \in Analyses |-> NoResult]
  /\ events = {}
  /\ audited = {}

Dashboard(q) ==
  \/ Receive(q) \/ TimeOut(q) \/ AnalyzeLocally(q) \/ AnalyzeRcaOnly(q)
  \/ Override(q) \/ StoreEvent(q) \/ AuditAnalysis(q)

Orchestrator(q) == OrchAnomaly(q) \/ OrchRca(q) \/ OrchExecute(q)

Next ==
  \/ \E q \in Analyses :
       Analyze(q) \/ CollectFails(q) \/ Dashboard(q) \/ Orchestrator(q)
  \/ \E p \in Operators : Operate(p) /\ UNCHANGED analysisVars

Spec == Init /\ [][Next]_vars

\* The dashboard's thread is scheduled, and its calls time out; nothing is
\* assumed of the orchestrator, the services or the cluster.
FairSpec == Spec /\ \A q \in Analyses : WF_vars(Dashboard(q))

-----------------------------------------------------------------------------
(* Properties *)

TypeOK ==
  /\ RecoveryTypeOK
  /\ input \in [Analyses -> Input \union {NoInput}]
  /\ dash \in [Analyses -> {"new", "orchestrator", "local", "rca_only", "override",
                            "store", "audit", "answered", "refused"}]
  /\ orch \in [Analyses -> {"idle", "anomaly", "rca", "execute", "replied", "failed"}]
  /\ \A q \in Analyses :
       /\ result[q].rca \in Services \union {None}
       /\ result[q].execution \in {None, "success", "failed", "dry_run"}
  /\ \A e \in events : e.by \in Analyses
  /\ audited \subseteq Analyses

ChangesBy(q) == {i \in DOMAIN changes : changes[i].by = q}

\* However its calls fail, time out and fall back, one analysis changes the
\* cluster at most once.
ExecutedAtMostOnce == \A q \in Analyses : Cardinality(ChangesBy(q)) <= 1

\* The cluster is changed only on a verdict of anomaly, only the service RCA
\* named, and only by the action the policy has for it.
ExecutedOnVerdict ==
  \A q \in Analyses : \A i \in ChangesBy(q) :
    /\ input[q].anomaly /\ RunsRca(q)
    /\ changes[i].service = input[q].culprit
    /\ changes[i].action = ActionOf[input[q].culprit]

\* An event that reports a successful recovery is right: the analysis changed
\* the very service that the event names, and every answer has its event.
EventIsTrue ==
  /\ \A e \in events :
       e.result.execution = "success" =>
         \E i \in ChangesBy(e.by) : changes[i].service = e.result.rca
  /\ \A q \in Analyses :
       dash[q] = "answered" => q \in audited /\ \E e \in events : e.by = q

\* With the health override no event calls the system normal, or blames
\* nobody, when a service has been scaled to zero all along.
ScaledToZeroIsIncident ==
  HealthOverride /\ (\E s \in Services : replicas[s] = 0) =>
    \A e \in events : e.result.anomaly /\ e.result.rca # None

\* Every analysis that was begun is answered or refused in the end, even when
\* the orchestrator never replies.
EveryAnalysisEnds ==
  \A q \in Analyses :
    dash[q] = "orchestrator" ~> dash[q] \in {"answered", "refused"}
=============================================================================
