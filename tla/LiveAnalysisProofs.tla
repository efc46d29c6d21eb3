-------------------------- MODULE LiveAnalysisProofs --------------------------
(***************************************************************************)
(* Proofs about LiveAnalysis, for any number of analyses, operators and    *)
(* deployments, any policy and any settings: types, and that an analysis   *)
(* changes the cluster once at most, on its own verdict, and reports what  *)
(* it did.  An analysis is two handlers that run at the same time.         *)
(***************************************************************************)
EXTENDS LiveAnalysis, RecoveryProofs, FiniteSetTheorems

-----------------------------------------------------------------------------
(* The inductive invariant *)

Executions == {None, "success", "failed", "dry_run"}

Pipelines == {"none", "pipeline", "override", "live_rca_only"}

ResultType ==
  [anomaly : BOOLEAN, rca : Services \union {None}, execution : Executions,
   pipeline : Pipelines]

DashSteps == {"new", "orchestrator", "local", "rca_only", "override", "store",
              "audit", "answered", "refused"}

OrchSteps == {"idle", "anomaly", "rca", "execute", "replied", "failed"}

LiveTypes ==
  /\ input \in [Analyses -> Input \union {NoInput}]
  /\ dash \in [Analyses -> DashSteps]
  /\ orch \in [Analyses -> OrchSteps]
  /\ result \in [Analyses -> ResultType]
  /\ \A e \in events : e.by \in Analyses
  /\ audited \subseteq Analyses

\* The change number i is the one the policy asks for on the verdict of q.
OnVerdict(q, i) ==
  /\ input[q].anomaly /\ RunsRca(q)
  /\ changes[i].service = input[q].culprit
  /\ changes[i].action = ActionOf[input[q].culprit]

\* Analysis q has changed service s.
HasChanged(q, s) == \E i \in ChangesBy(q) : changes[i].service = s

\* The orchestrator's handler: nothing is changed before its last step, which
\* it reaches only by the verdict and the policy.
HandlerSound(q) ==
  /\ dash[q] = "new" => orch[q] = "idle"
  /\ dash[q] \notin {"new", "refused"} => input[q] \in Input
  /\ orch[q] # "idle" => input[q] \in Input
  /\ orch[q] \notin {"replied", "failed"} => ChangesBy(q) = {} /\ reply[q] = "none"
  /\ orch[q] \in {"rca", "execute"} => RunsRca(q)
  /\ orch[q] = "execute" => Executable(q)
  /\ orch[q] = "replied" => reply[q] \in {"none", "success", "failed", "dry_run"}
  /\ reply[q] = "success" => RunsRca(q) /\ HasChanged(q, input[q].culprit)
  /\ \A i, j \in ChangesBy(q) : i = j
  /\ \A i \in ChangesBy(q) : OnVerdict(q, i)

\* The dashboard's handler: a result that reports a success tells the truth,
\* as long as no override puts another service into it.
ReportSound(q) ==
  /\ ~HealthOverride /\ result[q].execution = "success" => HasChanged(q, result[q].rca)
  /\ dash[q] \in {"audit", "answered"} => \E e \in events : e.by = q
  /\ dash[q] = "answered" => q \in audited

EventsSound ==
  ~HealthOverride =>
    \A e \in events : e.result.execution = "success" => HasChanged(e.by, e.result.rca)

LiveInv ==
  /\ RecoveryInv
  /\ LiveTypes
  /\ \A q \in Analyses : HandlerSound(q) /\ ReportSound(q)
  /\ EventsSound

-----------------------------------------------------------------------------
(* Changes of the cluster *)

\* A new change belongs to the actor that made it; the others keep theirs.
LEMMA ChangesByAppend ==
  ASSUME changes \in Seq(Change), NEW p \in Actors, NEW a \in Actions, NEW s \in Services,
         changes' = Append(changes, [by |-> p, action |-> a, service |-> s])
  PROVE  /\ \A q \in Actors \ {p} : ChangesBy(q)' = ChangesBy(q)
         /\ ChangesBy(p)' = ChangesBy(p) \union {Len(changes) + 1}
         /\ \A i \in DOMAIN changes : changes'[i] = changes[i]
         /\ changes'[Len(changes) + 1] = [by |-> p, action |-> a, service |-> s]
<1>. DEFINE c == [by |-> p, action |-> a, service |-> s]
<1>1. c \in Change
  BY DEF Change
<1>2. /\ Len(changes') = Len(changes) + 1
      /\ \A i \in 1..Len(changes) : changes'[i] = changes[i]
      /\ changes'[Len(changes) + 1] = c
      /\ changes' \in Seq(Change)
  BY <1>1, AppendProperties
<1>3. /\ DOMAIN changes = 1..Len(changes) /\ Len(changes) \in Nat
      /\ DOMAIN changes' = 1..(Len(changes) + 1)
  BY <1>2, LenProperties
<1>4. \A q : ChangesBy(q)' = {i \in DOMAIN changes' : changes'[i].by = q}
  BY DEF ChangesBy
<1>5. \A q : ChangesBy(q) = {i \in DOMAIN changes : changes[i].by = q}
  BY DEF ChangesBy
<1>6. DOMAIN changes' = DOMAIN changes \union {Len(changes) + 1}
  BY <1>3
<1>7. /\ changes'[Len(changes) + 1].by = p
      /\ \A i \in DOMAIN changes : changes'[i].by = changes[i].by
  BY <1>2, <1>3
<1>. DEFINE n == Len(changes) + 1
<1>. HIDE DEF n
<1>8. ASSUME NEW q
      PROVE  \A i : i \in ChangesBy(q)' <=> i \in ChangesBy(q) \/ (i = n /\ q = p)
  <2>1. /\ DOMAIN changes' = DOMAIN changes \union {n}
        /\ changes'[n].by = p
    BY <1>6, <1>7 DEF n
  <2>2. ASSUME NEW i
        PROVE  i \in ChangesBy(q)' <=> i \in DOMAIN changes' /\ changes'[i].by = q
    BY <1>4
  <2>3. ASSUME NEW i
        PROVE  i \in ChangesBy(q) <=> i \in DOMAIN changes /\ changes[i].by = q
    BY <1>5
  <2>4. ASSUME NEW i
        PROVE  i \in ChangesBy(q)' <=> i \in ChangesBy(q) \/ (i = n /\ q = p)
    BY <1>7, <2>1, <2>2, <2>3
  <2>5. QED
    BY <2>4
<1>9. \A q \in Actors \ {p} : ChangesBy(q)' = ChangesBy(q)
  BY <1>8 DEF ChangesBy
<1>10. ChangesBy(p)' = ChangesBy(p) \union {Len(changes) + 1}
  BY <1>8 DEF n, ChangesBy
<1>11. QED
  BY <1>2, <1>3, <1>9, <1>10

\* What an operator does to the cluster is a change of the operator's own, and
\* the answers of others are left alone.
LEMMA OperateFrame ==
  ASSUME RecoveryInv, NEW p \in Operators, Operate(p)
  PROVE  /\ \A q \in Actors \ {p} : reply'[q] = reply[q]
         /\ \/ UNCHANGED changes
            \/ \E a \in Actions, s \in Services :
                 changes' = Append(changes, [by |-> p, action |-> a, service |-> s])
<1>1. /\ reply \in [Actors -> {"none", "ok", "success", "failed", "dry_run", "error"}]
      /\ RequestSound(p)
  BY DEF RecoveryInv, RecoveryTypeOK
<1>2. CASE ScaleUp(p) \/ RestartPods(p)
  <2>1. job[p].service \in Services
    BY <1>1, <1>2 DEF RequestSound, ScaleUp, RestartPods, Job
  <2>2. UNCHANGED reply
    BY <1>2 DEF ScaleUp, RestartPods
  <2>3. \E a \in Actions :
          changes' = Append(changes, [by |-> p, action |-> a, service |-> job[p].service])
    BY <1>2 DEF ScaleUp, RestartPods, Scale, Restart, Log, Actions
  <2>4. QED
    BY <2>1, <2>2, <2>3
<1>3. CASE ~(ScaleUp(p) \/ RestartPods(p))
  <2>1. UNCHANGED changes
    BY <1>3 DEF Operate, AskRecovery, GetReplicas, RolledOut, CommandFails,
                RecordRecovery, AuditRecovery, cluster
  <2>2. \A q \in Actors \ {p} : reply'[q] = reply[q]
    BY <1>1, <1>3 DEF Operate, AskRecovery, GetReplicas, RolledOut, CommandFails,
                      RecordRecovery, AuditRecovery
  <2>3. QED
    BY <2>1, <2>2
<1>4. QED
  BY <1>2, <1>3

-----------------------------------------------------------------------------
(* What a step leaves alone stays sound *)

\* The changes of q are the ones they were, or q has more of them now.
Same(q) == ChangesBy(q)' = ChangesBy(q) /\ \A i \in ChangesBy(q) : changes'[i] = changes[i]

Kept(q) ==
  ChangesBy(q) \subseteq ChangesBy(q)' /\ \A i \in ChangesBy(q) : changes'[i] = changes[i]

LEMMA SameStays ==
  ASSUME UNCHANGED changes
  PROVE  \A q : Same(q) /\ Kept(q)
BY DEF Same, Kept, ChangesBy

LEMMA SameIsKept ==
  ASSUME NEW q, Same(q)
  PROVE  Kept(q)
BY DEF Same, Kept

\* A dashboard handler may go on and an orchestrator handler stay where it is.
LEMMA HandlerFrame ==
  ASSUME NEW q \in Analyses, HandlerSound(q), Same(q),
         input'[q] = input[q], orch'[q] = orch[q], reply'[q] = reply[q],
         dash'[q] = "new" => dash[q] = "new",
         dash'[q] \notin {"new", "refused"} => input[q] \in Input
  PROVE  HandlerSound(q)'
<1>1. RunsRca(q)' = RunsRca(q) /\ Executable(q)' = Executable(q)
  BY DEF RunsRca, Executable, Recommended
<1>2. HasChanged(q, input[q].culprit) =>
        \E i \in ChangesBy(q)' : changes'[i].service = input'[q].culprit
  BY DEF Same, HasChanged
<1>3. \A i \in ChangesBy(q)' : OnVerdict(q, i)'
  BY <1>1 DEF HandlerSound, Same, OnVerdict
<1>4. \A i, j \in ChangesBy(q)' : i = j
  BY DEF HandlerSound, Same
<1>5. orch'[q] \notin {"replied", "failed"} => ChangesBy(q)' = {} /\ reply'[q] = "none"
  BY DEF HandlerSound, Same
<1>6. QED
  BY <1>1, <1>2, <1>3, <1>4, <1>5 DEF HandlerSound, HasChanged

LEMMA ReportFrame ==
  ASSUME NEW q \in Analyses, ReportSound(q), Kept(q),
         dash'[q] = dash[q], result'[q] = result[q],
         events \subseteq events', audited \subseteq audited'
  PROVE  ReportSound(q)'
<1>1. HasChanged(q, result[q].rca) =>
        \E i \in ChangesBy(q)' : changes'[i].service = result'[q].rca
  BY DEF HasChanged, Kept
<1>2. QED
  BY <1>1 DEF ReportSound, HasChanged

LEMMA EventsFrame ==
  ASSUME EventsSound, UNCHANGED events, \A e \in events : Kept(e.by)
  PROVE  EventsSound'
<1>1. ASSUME NEW e \in events, HasChanged(e.by, e.result.rca)
      PROVE  \E i \in ChangesBy(e.by)' : changes'[i].service = e.result.rca
  BY <1>1 DEF HasChanged, Kept
<1>2. QED
  BY <1>1 DEF EventsSound, HasChanged

LEMMA RecoveryStutters ==
  ASSUME RecoveryInv, UNCHANGED recoveryVars
  PROVE  RecoveryInv'
BY DEF recoveryVars, cluster, RecoveryInv, RecoveryTypeOK, RequestSound,
       HistorySound, StatusOf, Changed

LEMMA NewEventStaysTrue ==
  ASSUME EventsSound, UNCHANGED changes, NEW e, events' = events \union {e},
         ~HealthOverride /\ e.result.execution = "success" =>
           HasChanged(e.by, e.result.rca)
  PROVE  EventsSound'
<1>1. ASSUME NEW q, NEW t, HasChanged(q, t)
      PROVE  HasChanged(q, t)'
  BY <1>1 DEF HasChanged, ChangesBy
<1>2. ASSUME NEW x \in events', ~HealthOverride, x.result.execution = "success"
      PROVE  HasChanged(x.by, x.result.rca)
  BY <1>2 DEF EventsSound
<1>3. ASSUME NEW x \in events', ~HealthOverride, x.result.execution = "success"
      PROVE  HasChanged(x.by, x.result.rca)'
  BY <1>1, <1>2, <1>3
<1>4. QED
  BY <1>3 DEF EventsSound

\* A step of the dashboard's handler: it keeps the invariant when what it
\* stores and reports is sound.
LEMMA DashboardStepSound ==
  ASSUME LiveInv, NEW q \in Analyses, UNCHANGED <<recoveryVars, input, orch>>,
         NEW d \in DashSteps \ {"new"}, dash' = [dash EXCEPT ![q] = d],
         d # "refused" => input[q] \in Input,
         NEW r \in ResultType, result' = [result EXCEPT ![q] = r],
         events \subseteq events', \A e \in events' : e.by \in Analyses,
         audited \subseteq audited', audited' \subseteq Analyses,
         ReportSound(q)', EventsSound'
  PROVE  LiveInv'
<1>. USE DEF LiveInv
<1>1. RecoveryInv' /\ \A p : Same(p) /\ Kept(p)
  BY RecoveryStutters, SameStays DEF recoveryVars, cluster
<1>2. LiveTypes'
  BY DEF LiveTypes
<1>3. ASSUME NEW p \in Analyses
      PROVE  HandlerSound(p)'
  <2>1. /\ dash'[p] = "new" => dash[p] = "new"
        /\ dash'[p] \notin {"new", "refused"} => input[p] \in Input
    BY DEF LiveTypes, HandlerSound
  <2>2. QED
    BY <1>1, <2>1, HandlerFrame DEF recoveryVars
<1>4. ASSUME NEW p \in Analyses \ {q}
      PROVE  ReportSound(p)'
  <2>1. dash'[p] = dash[p] /\ result'[p] = result[p]
    BY DEF LiveTypes
  <2>2. QED
    BY <1>1, <2>1, ReportFrame
<1>5. QED
  BY <1>1, <1>2, <1>3, <1>4

-----------------------------------------------------------------------------
(* The dashboard's handler *)

\* The result of a pipeline has its type.
LEMMA FoundHasType ==
  ASSUME NEW q \in Analyses, input[q] \in Input, NEW x \in Executions
  PROVE  /\ Found(q, x) \in ResultType
         /\ Found(q, x).execution = x
         /\ RunsRca(q) => Found(q, x).rca = input[q].culprit
<1>. DEFINE a == input[q].anomaly
            c == IF RunsRca(q) THEN input[q].culprit ELSE None
<1>1. a \in BOOLEAN /\ input[q].culprit \in Services
  BY DEF Input
<1>2. c \in Services \union {None}
  BY <1>1
<1>3. Found(q, x) = [anomaly |-> a, rca |-> c, execution |-> x, pipeline |-> "pipeline"]
  BY DEF Found, Result
<1>4. RunsRca(q) => c = input[q].culprit
  OBVIOUS
<1>. HIDE DEF a, c
<1>5. "pipeline" \in Pipelines
  BY DEF Pipelines
<1>6. Found(q, x) \in ResultType
  BY <1>1, <1>2, <1>3, <1>5 DEF ResultType
<1>7. Found(q, x).execution = x /\ Found(q, x).rca = c
  BY <1>3
<1>8. QED
  BY <1>4, <1>6, <1>7

\* A report that names no executed recovery has nothing to prove.
LEMMA SilentReport ==
  ASSUME NEW q \in Analyses, NEW r \in ResultType, LiveTypes,
         result' = [result EXCEPT ![q] = r], r.execution = None \/ HealthOverride,
         dash'[q] \notin {"audit", "answered"}
  PROVE  ReportSound(q)'
<1>1. result'[q] = r
  BY DEF LiveTypes
<1>2. ~(~HealthOverride /\ result'[q].execution = "success")
  BY <1>1, NoneAssumption
<1>3. QED
  BY <1>2 DEF ReportSound

\* The handler goes on, or refuses, with nothing new to report.
LEMMA PassOnSound ==
  ASSUME LiveInv, NEW q \in Analyses,
         UNCHANGED <<recoveryVars, input, orch, result, events, audited>>,
         NEW d \in {"local", "rca_only", "store", "refused"},
         dash' = [dash EXCEPT ![q] = d],
         d = "refused" \/ input[q] \in Input
  PROVE  LiveInv'
<1>. USE DEF LiveInv
<1>1. UNCHANGED changes /\ \A p : Same(p) /\ Kept(p)
  BY SameStays DEF recoveryVars, cluster
<1>2. /\ result[q] \in ResultType /\ result' = [result EXCEPT ![q] = result[q]]
      /\ dash'[q] = d
  BY DEF LiveTypes
<1>3. ReportSound(q)'
  <2>1. HasChanged(q, result[q].rca) =>
          \E i \in ChangesBy(q)' : changes'[i].service = result'[q].rca
    BY <1>1 DEF HasChanged, Kept
  <2>2. QED
    BY <1>2, <2>1 DEF ReportSound, HasChanged
<1>4. EventsSound'
  BY <1>1, EventsFrame
<1>5. d \in DashSteps \ {"new"}
  BY DEF DashSteps
<1>6. \A e \in events' : e.by \in Analyses
  BY DEF LiveTypes
<1>7. audited' \subseteq Analyses
  BY DEF LiveTypes
<1>8. QED
  BY <1>2, <1>3, <1>4, <1>5, <1>6, <1>7, DashboardStepSound

\* The handler has a new result, and stores nothing yet.
LEMMA NewResultSound ==
  ASSUME LiveInv, NEW q \in Analyses,
         UNCHANGED <<recoveryVars, input, orch, events, audited>>,
         NEW d \in {"override", "store"}, dash' = [dash EXCEPT ![q] = d],
         input[q] \in Input,
         NEW r \in ResultType, result' = [result EXCEPT ![q] = r],
         \/ HealthOverride
         \/ r.execution = "success" => HasChanged(q, r.rca)
  PROVE  LiveInv'
<1>. USE DEF LiveInv
<1>1. UNCHANGED changes /\ \A p : Same(p) /\ Kept(p)
  BY SameStays DEF recoveryVars, cluster
<1>2. dash'[q] = d /\ result'[q] = r
  BY DEF LiveTypes
<1>3. ReportSound(q)'
  <2>1. HasChanged(q, r.rca) =>
          \E i \in ChangesBy(q)' : changes'[i].service = result'[q].rca
    BY <1>1, <1>2 DEF HasChanged, Kept
  <2>2. QED
    BY <1>2, <2>1 DEF ReportSound, HasChanged
<1>4. EventsSound'
  BY <1>1, EventsFrame
<1>5. d \in DashSteps \ {"new"}
  BY DEF DashSteps
<1>6. (\A e \in events' : e.by \in Analyses) /\ audited' \subseteq Analyses
  BY DEF LiveTypes
<1>7. QED
  BY <1>3, <1>4, <1>5, <1>6, DashboardStepSound

LEMMA DashboardSound ==
  ASSUME LiveInv, NEW q \in Analyses, Dashboard(q)
  PROVE  LiveInv'
<1>. USE DEF LiveInv
<1>1. /\ HandlerSound(q) /\ ReportSound(q) /\ LiveTypes
      /\ result[q] \in ResultType
  BY DEF LiveTypes
<1>2. dash[q] \notin {"new", "refused"}
  BY DEF Dashboard, Receive, TimeOut, AnalyzeLocally, AnalyzeRcaOnly, Override,
         StoreEvent, AuditAnalysis
<1>3. input[q] \in Input
  BY <1>1, <1>2 DEF HandlerSound
<1>4. input[q].culprit \in Services
  BY <1>3 DEF Input
<1>5. CASE Receive(q)
  <2>1. CASE orch[q] = "failed"
    BY <1>3, <1>5, <2>1, PassOnSound DEF Receive, Dash
  <2>2. CASE orch[q] # "failed"
    <3>. DEFINE x == IF reply[q] = "none" THEN None ELSE reply[q]
    <3>1. /\ orch[q] = "replied"
          /\ result' = [result EXCEPT ![q] = Found(q, x)]
          /\ dash' = [dash EXCEPT ![q] = "override"]
          /\ UNCHANGED <<recoveryVars, input, orch, events, audited>>
      BY <1>5, <2>2 DEF Receive, Have, Dash
    <3>2. x \in Executions /\ (x = "success" => reply[q] = "success")
      BY <1>1, <3>1, NoneAssumption DEF HandlerSound, Executions
    <3>. HIDE DEF x
    <3>3. /\ Found(q, x) \in ResultType
          /\ Found(q, x).execution = x
          /\ RunsRca(q) => Found(q, x).rca = input[q].culprit
      BY <1>3, <3>2, FoundHasType
    <3>4. Found(q, x).execution = "success" => HasChanged(q, Found(q, x).rca)
      BY <1>1, <3>2, <3>3 DEF HandlerSound
    <3>5. QED
      BY <1>3, <3>1, <3>3, <3>4, NewResultSound
  <2>3. QED
    BY <2>1, <2>2
<1>6. CASE TimeOut(q)
  BY <1>3, <1>6, PassOnSound DEF TimeOut, Dash
<1>7. CASE AnalyzeLocally(q)
  <2>1. None \in Executions /\ None # "success"
    BY NoneAssumption DEF Executions
  <2>2. Found(q, None) \in ResultType /\ Found(q, None).execution = None
    BY <1>3, <2>1, FoundHasType
  <2>3. CASE Have(q, Found(q, None)) /\ Dash(q, "override")
    BY <1>3, <1>7, <2>1, <2>2, <2>3, NewResultSound DEF AnalyzeLocally, Have, Dash
  <2>4. CASE Dash(q, "rca_only") /\ UNCHANGED result
    BY <1>3, <1>7, <2>4, PassOnSound DEF AnalyzeLocally, Dash
  <2>5. QED
    BY <1>7, <2>3, <2>4 DEF AnalyzeLocally
<1>8. CASE AnalyzeRcaOnly(q)
  <2>. DEFINE r == Result(TRUE, input[q].culprit, None, "live_rca_only")
  <2>1. r \in ResultType /\ r.execution = None
    BY <1>4 DEF Result, ResultType, Executions, Pipelines
  <2>2. CASE Have(q, r) /\ Dash(q, "override")
    BY <1>3, <1>8, <2>1, <2>2, NoneAssumption, NewResultSound
       DEF AnalyzeRcaOnly, Have, Dash
  <2>3. CASE Dash(q, "refused") /\ UNCHANGED result
    BY <1>3, <1>8, <2>3, PassOnSound DEF AnalyzeRcaOnly, Dash
  <2>4. QED
    BY <1>8, <2>2, <2>3 DEF AnalyzeRcaOnly
<1>9. CASE Override(q)
  <2>1. CASE \E d \in {"store", "refused"} : Dash(q, d) /\ UNCHANGED result
    BY <1>3, <1>9, <2>1, PassOnSound DEF Override, Dash
  <2>2. CASE HealthOverride /\ Dash(q, "store")
               /\ \E s \in Services : Have(q, Overridden(result[q], s))
    <3>1. PICK s \in Services : result' = [result EXCEPT ![q] = Overridden(result[q], s)]
      BY <2>2 DEF Have
    <3>2. Overridden(result[q], s) \in ResultType
      BY <1>1 DEF Overridden, ResultType, Pipelines
    <3>3. QED
      BY <1>3, <1>9, <2>2, <3>1, <3>2, NewResultSound DEF Override, Dash
  <2>3. QED
    BY <1>9, <2>1, <2>2 DEF Override
<1>10. CASE StoreEvent(q)
  <2>1. CASE events' = events /\ Dash(q, "refused")
    BY <1>3, <1>10, <2>1, PassOnSound DEF StoreEvent, Dash
  <2>2. CASE events' = events \union {Event(q)} /\ Dash(q, "audit")
    <3>1. /\ UNCHANGED <<recoveryVars, input, orch, result, audited>>
          /\ dash' = [dash EXCEPT ![q] = "audit"] /\ dash'[q] = "audit"
          /\ result' = [result EXCEPT ![q] = result[q]]
      BY <1>1, <1>10, <2>2 DEF StoreEvent, Dash, LiveTypes
    <3>2. Event(q).by = q /\ Event(q).result = result[q]
      BY DEF Event
    <3>3. UNCHANGED changes /\ Kept(q)
      BY <3>1, SameStays DEF recoveryVars, cluster
    <3>4. EventsSound'
      BY <1>1, <2>2, <3>2, <3>3, NewEventStaysTrue DEF ReportSound
    <3>5. ReportSound(q)'
      <4>1. \E e \in events' : e.by = q
        BY <2>2, <3>2
      <4>2. HasChanged(q, result[q].rca) =>
              \E i \in ChangesBy(q)' : changes'[i].service = result'[q].rca
        BY <3>1, <3>3 DEF HasChanged, Kept
      <4>3. QED
        BY <1>1, <3>1, <4>1, <4>2 DEF ReportSound, HasChanged
    <3>6. /\ events \subseteq events' /\ \A e \in events' : e.by \in Analyses
          /\ audited \subseteq audited' /\ audited' \subseteq Analyses
      BY <1>1, <2>2, <3>1, <3>2 DEF LiveTypes
    <3>7. QED
      BY <1>1, <1>3, <3>1, <3>4, <3>5, <3>6, DashboardStepSound DEF DashSteps
  <2>3. QED
    BY <1>10, <2>1, <2>2 DEF StoreEvent
<1>11. CASE AuditAnalysis(q)
  <2>1. CASE audited' = audited /\ Dash(q, "refused")
    BY <1>3, <1>11, <2>1, PassOnSound DEF AuditAnalysis, Dash
  <2>2. CASE audited' = audited \union {q} /\ Dash(q, "answered")
    <3>1. /\ dash[q] = "audit"
          /\ UNCHANGED <<recoveryVars, input, orch, result, events>>
          /\ dash' = [dash EXCEPT ![q] = "answered"] /\ dash'[q] = "answered"
          /\ result' = [result EXCEPT ![q] = result[q]]
      BY <1>1, <1>11, <2>2 DEF AuditAnalysis, Dash, LiveTypes
    <3>2. UNCHANGED changes /\ \A p : Kept(p)
      BY <3>1, SameStays DEF recoveryVars, cluster
    <3>3. EventsSound'
      BY <3>1, <3>2, EventsFrame
    <3>4. ReportSound(q)'
      <4>1. (\E e \in events' : e.by = q) /\ q \in audited'
        BY <1>1, <2>2, <3>1 DEF ReportSound
      <4>2. HasChanged(q, result[q].rca) =>
              \E i \in ChangesBy(q)' : changes'[i].service = result'[q].rca
        BY <3>1, <3>2 DEF HasChanged, Kept
      <4>3. QED
        BY <1>1, <3>1, <4>1, <4>2 DEF ReportSound, HasChanged
    <3>5. /\ events \subseteq events' /\ \A e \in events' : e.by \in Analyses
          /\ audited \subseteq audited' /\ audited' \subseteq Analyses
      BY <1>1, <2>2, <3>1 DEF LiveTypes
    <3>6. QED
      BY <1>1, <1>3, <3>1, <3>3, <3>4, <3>5, DashboardStepSound DEF DashSteps
  <2>3. QED
    BY <1>11, <2>1, <2>2 DEF AuditAnalysis
<1>12. QED
  BY <1>5, <1>6, <1>7, <1>8, <1>9, <1>10, <1>11 DEF Dashboard

LEMMA CollectFailsSound ==
  ASSUME LiveInv, NEW q \in Analyses, CollectFails(q)
  PROVE  LiveInv'
BY PassOnSound DEF CollectFails, Dash

\* An analysis begins with whatever input; it has changed nothing by then.
LEMMA AnalyzeSound ==
  ASSUME LiveInv, NEW q \in Analyses, Analyze(q)
  PROVE  LiveInv'
<1>. USE DEF LiveInv
<1>1. /\ UNCHANGED <<recoveryVars, result, events, audited>>
      /\ dash[q] = "new" /\ orch[q] = "idle"
      /\ HandlerSound(q) /\ ReportSound(q) /\ LiveTypes
  BY DEF Analyze, HandlerSound
<1>2. PICK i \in Input : input' = [input EXCEPT ![q] = i]
  BY DEF Analyze
<1>3. PICK d \in {"orchestrator", "local"}, o \in {"anomaly", "idle"} :
        dash' = [dash EXCEPT ![q] = d] /\ orch' = [orch EXCEPT ![q] = o]
  <2>1. orch = [orch EXCEPT ![q] = "idle"]
    BY <1>1 DEF LiveTypes
  <2>2. QED
    BY <2>1 DEF Analyze, Dash
<1>4. RecoveryInv' /\ \A p : Same(p) /\ Kept(p)
  BY <1>1, RecoveryStutters, SameStays DEF recoveryVars, cluster
<1>5. LiveTypes'
  BY <1>1, <1>2, <1>3 DEF LiveTypes, DashSteps, OrchSteps
<1>6. /\ input'[q] \in Input /\ dash'[q] = d /\ orch'[q] = o
      /\ reply'[q] = reply[q] /\ result'[q] = result[q]
  BY <1>1, <1>2, <1>3 DEF LiveTypes, recoveryVars
<1>7. ChangesBy(q)' = {} /\ reply'[q] = "none"
  BY <1>1, <1>4, <1>6 DEF HandlerSound, Same
<1>8. HandlerSound(q)'
  BY <1>6, <1>7 DEF HandlerSound
<1>9. ReportSound(q)'
  <2>1. HasChanged(q, result[q].rca) =>
          \E k \in ChangesBy(q)' : changes'[k].service = result'[q].rca
    BY <1>4, <1>6 DEF HasChanged, Kept
  <2>2. QED
    BY <1>1, <1>6, <2>1 DEF ReportSound, HasChanged
<1>10. ASSUME NEW p \in Analyses \ {q}
       PROVE  HandlerSound(p)' /\ ReportSound(p)'
  <2>1. /\ input'[p] = input[p] /\ dash'[p] = dash[p] /\ orch'[p] = orch[p]
        /\ reply'[p] = reply[p] /\ result'[p] = result[p]
    BY <1>1, <1>2, <1>3 DEF LiveTypes, recoveryVars
  <2>2. dash'[p] \notin {"new", "refused"} => input[p] \in Input
    BY <2>1 DEF HandlerSound
  <2>3. HandlerSound(p)'
    BY <1>4, <2>1, <2>2, HandlerFrame
  <2>4. ReportSound(p)'
    BY <1>1, <1>4, <2>1, ReportFrame
  <2>5. QED
    BY <2>3, <2>4
<1>11. EventsSound'
  BY <1>1, <1>4, EventsFrame
<1>12. QED
  BY <1>4, <1>5, <1>8, <1>9, <1>10, <1>11

-----------------------------------------------------------------------------
(* The orchestrator's handler *)

\* A step of the orchestrator's handler of q: the other analyses and what has
\* been reported stay sound.
LEMMA OrchestratorStepSound ==
  ASSUME LiveInv, NEW q \in Analyses, RecoveryInv',
         NEW o \in OrchSteps, orch' = [orch EXCEPT ![q] = o],
         UNCHANGED <<input, dash, result, events, audited>>,
         \A p \in Analyses : Kept(p),
         \A p \in Analyses \ {q} : Same(p) /\ reply'[p] = reply[p],
         HandlerSound(q)'
  PROVE  LiveInv'
<1>. USE DEF LiveInv
<1>1. LiveTypes'
  BY DEF LiveTypes
<1>2. ASSUME NEW p \in Analyses \ {q}
      PROVE  HandlerSound(p)'
  <2>1. orch'[p] = orch[p]
    BY DEF LiveTypes
  <2>2. dash'[p] \notin {"new", "refused"} => input[p] \in Input
    BY DEF HandlerSound
  <2>3. QED
    BY <2>1, <2>2, HandlerFrame
<1>3. ASSUME NEW p \in Analyses
      PROVE  ReportSound(p)'
  BY ReportFrame
<1>4. EventsSound'
  <2>1. \A e \in events : Kept(e.by)
    BY DEF LiveTypes
  <2>2. QED
    BY <2>1, EventsFrame
<1>5. QED
  BY <1>1, <1>2, <1>3, <1>4

\* Calls of the two services change nothing, and reach the executor only by
\* way of RCA.
LEMMA OrchCallsSound ==
  ASSUME LiveInv, NEW q \in Analyses, OrchAnomaly(q) \/ OrchRca(q)
  PROVE  LiveInv'
<1>. USE DEF LiveInv
<1>1. /\ UNCHANGED <<recoveryVars, input, dash, result, events, audited>>
      /\ orch[q] \in {"anomaly", "rca"}
      /\ HandlerSound(q) /\ LiveTypes
  BY DEF OrchAnomaly, OrchRca
<1>2. PICK o \in {"rca", "execute", "replied", "failed"} :
        /\ orch' = [orch EXCEPT ![q] = o]
        /\ o \in {"rca", "execute"} => RunsRca(q)
        /\ o = "execute" => Executable(q)
  BY <1>1 DEF OrchAnomaly, OrchRca, Orch, HandlerSound
<1>3. RecoveryInv' /\ \A p : Same(p) /\ Kept(p)
  BY <1>1, RecoveryStutters, SameStays DEF recoveryVars, cluster
<1>4. /\ input' = input /\ dash' = dash /\ reply' = reply /\ orch'[q] = o
      /\ ChangesBy(q)' = {}
  BY <1>1, <1>2, <1>3 DEF LiveTypes, HandlerSound, Same, recoveryVars
<1>5. RunsRca(q)' = RunsRca(q) /\ Executable(q)' = Executable(q)
  BY <1>4 DEF RunsRca, Executable, Recommended
<1>6. HandlerSound(q)'
  BY <1>1, <1>2, <1>4, <1>5 DEF HandlerSound
<1>7. QED
  BY <1>1, <1>2, <1>3, <1>4, <1>6, OrchestratorStepSound DEF OrchSteps

\* The executor runs the action of the policy on the service RCA named, after
\* a verdict of anomaly, and the handler is done.
LEMMA OrchExecuteSound ==
  ASSUME LiveInv, NEW q \in Analyses, OrchExecute(q)
  PROVE  LiveInv'
<1>. USE DEF LiveInv
<1>. DEFINE s == input[q].culprit
            a == ActionOf[s]
<1>1. /\ orch[q] = "execute" /\ Execute(q, a, s)
      /\ UNCHANGED <<input, dash, result, events, audited>>
      /\ HandlerSound(q) /\ LiveTypes /\ q \in Actors /\ q \in Executors
  BY DEF OrchExecute, Analyses, Actors
<1>2. /\ input[q] \in Input /\ s \in Services
      /\ RunsRca(q) /\ Executable(q) /\ ChangesBy(q) = {}
  BY <1>1 DEF HandlerSound, Input
<1>3. input[q].anomaly /\ a \in ExecutorActions
  <2>1. input[q].anomaly \in BOOLEAN /\ s # None
    BY <1>2, NoneAssumption DEF Input
  <2>2. input[q].anomaly /\ Recommended(input[q].anomaly, s) = a /\ a # "alert"
    BY <1>2, <2>1 DEF Executable, Recommended
  <2>3. a \in ExecutorActions \union {"alert"}
    BY <1>2, PolicyAssumption DEF ExecutorActions
  <2>4. QED
    BY <2>2, <2>3
<1>. HIDE DEF a, s
<1>4. /\ RecoveryInv'
      /\ reply'[q] \in {"success", "failed", "dry_run", "error"}
      /\ \A p \in Actors \ {q} : reply'[p] = reply[p]
      /\ \/ UNCHANGED changes /\ reply'[q] # "success"
         \/ changes' = Append(changes, [by |-> q, action |-> a, service |-> s])
  BY <1>1, <1>2, <1>3, ExecuteSound
<1>5. PICK o \in {"replied", "failed"} :
        /\ orch' = [orch EXCEPT ![q] = o]
        /\ o = "replied" => reply'[q] # "error"
  BY DEF OrchExecute, Orch
<1>6. a \in Actions /\ changes \in Seq(Change) /\ Analyses \subseteq Actors
  BY <1>3 DEF ExecutorActions, RecoveryInv, RecoveryTypeOK, Change, Analyses, Actors
<1>7. /\ \A p \in Analyses \ {q} : Same(p)
      /\ \A p \in Analyses : Kept(p)
      /\ \A i, j \in ChangesBy(q)' : i = j
      /\ \A i \in ChangesBy(q)' : changes'[i] = [by |-> q, action |-> a, service |-> s]
      /\ reply'[q] = "success" => ChangesBy(q)' # {}
  <2>1. CASE UNCHANGED changes /\ reply'[q] # "success"
    <3>1. ChangesBy(q)' = {}
      BY <1>2, <2>1, SameStays DEF Same
    <3>2. QED
      BY <2>1, <3>1, SameStays
  <2>2. CASE changes' = Append(changes, [by |-> q, action |-> a, service |-> s])
    <3>1. /\ \A p \in Actors \ {q} : ChangesBy(p)' = ChangesBy(p)
          /\ ChangesBy(q)' = ChangesBy(q) \union {Len(changes) + 1}
          /\ \A i \in DOMAIN changes : changes'[i] = changes[i]
          /\ changes'[Len(changes) + 1] = [by |-> q, action |-> a, service |-> s]
      BY <1>1, <1>2, <1>6, <2>2, ChangesByAppend
    <3>2. \A p : ChangesBy(p) \subseteq DOMAIN changes
      BY DEF ChangesBy
    <3>3. \A p \in Analyses \ {q} : Same(p)
      BY <1>6, <3>1, <3>2 DEF Same
    <3>4. Kept(q)
      BY <1>2 DEF Kept
    <3>5. QED
      BY <1>2, <3>1, <3>3, <3>4, SameIsKept
  <2>3. QED
    BY <1>4, <2>1, <2>2
<1>8. /\ input' = input /\ dash' = dash /\ orch'[q] = o
      /\ RunsRca(q)' = RunsRca(q)
  BY <1>1, <1>5 DEF LiveTypes, RunsRca
<1>9. \A i \in ChangesBy(q)' : OnVerdict(q, i)'
  BY <1>2, <1>3, <1>7, <1>8 DEF OnVerdict, a, s
<1>10. reply'[q] = "success" =>
         \E i \in ChangesBy(q)' : changes'[i].service = input'[q].culprit
  BY <1>7, <1>8 DEF s
<1>11. HandlerSound(q)'
  <2>1. dash'[q] # "new"
    BY <1>1, <1>8 DEF HandlerSound
  <2>2. o = "replied" => reply'[q] \in {"success", "failed", "dry_run"}
    BY <1>4, <1>5
  <2>3. QED
    BY <1>2, <1>7, <1>8, <1>9, <1>10, <2>1, <2>2 DEF HandlerSound, HasChanged
<1>12. \A p \in Analyses \ {q} : reply'[p] = reply[p]
  BY <1>4, <1>6
<1>13. QED
  BY <1>1, <1>4, <1>5, <1>7, <1>11, <1>12, OrchestratorStepSound DEF OrchSteps

-----------------------------------------------------------------------------
(* Operators at work during an analysis, the initial states, the theorems *)

LEMMA OperatorStepSound ==
  ASSUME LiveInv, NEW p \in Operators, Operate(p), UNCHANGED analysisVars
  PROVE  LiveInv'
<1>. USE DEF LiveInv
<1>1. RecoveryInv'
  BY OperateSound
<1>2. /\ \A q \in Actors \ {p} : reply'[q] = reply[q]
      /\ \/ UNCHANGED changes
         \/ \E a \in Actions, s \in Services :
              changes' = Append(changes, [by |-> p, action |-> a, service |-> s])
  BY OperateFrame
<1>3. Analyses \subseteq Actors \ {p} /\ p \in Actors
  BY ActorsAssumption DEF Analyses, Actors
<1>4. \A q \in Analyses : Same(q)
  <2>1. CASE UNCHANGED changes
    BY <2>1, SameStays
  <2>2. ASSUME NEW a \in Actions, NEW s \in Services,
               changes' = Append(changes, [by |-> p, action |-> a, service |-> s])
        PROVE  \A q \in Analyses : Same(q)
    <3>1. changes \in Seq(Change)
      BY DEF RecoveryInv, RecoveryTypeOK, Change
    <3>2. /\ \A q \in Actors \ {p} : ChangesBy(q)' = ChangesBy(q)
          /\ \A i \in DOMAIN changes : changes'[i] = changes[i]
      BY <1>3, <2>2, <3>1, ChangesByAppend
    <3>3. \A q : ChangesBy(q) \subseteq DOMAIN changes
      BY DEF ChangesBy
    <3>4. QED
      BY <1>3, <3>2, <3>3 DEF Same
  <2>3. QED
    BY <1>2, <2>1, <2>2
<1>5. LiveTypes'
  BY DEF LiveTypes, analysisVars
<1>6. ASSUME NEW q \in Analyses
      PROVE  HandlerSound(q)' /\ ReportSound(q)'
  <2>1. /\ reply'[q] = reply[q] /\ input'[q] = input[q] /\ dash'[q] = dash[q]
        /\ orch'[q] = orch[q] /\ result'[q] = result[q]
        /\ events \subseteq events' /\ audited \subseteq audited'
    BY <1>2, <1>3 DEF analysisVars
  <2>2. Same(q) /\ Kept(q)
    BY <1>4, SameIsKept
  <2>3. dash'[q] \notin {"new", "refused"} => input[q] \in Input
    BY <2>1 DEF HandlerSound
  <2>4. HandlerSound(q)'
    BY <2>1, <2>2, <2>3, HandlerFrame
  <2>5. ReportSound(q)'
    BY <2>1, <2>2, ReportFrame
  <2>6. QED
    BY <2>4, <2>5
<1>7. EventsSound'
  <2>1. \A e \in events : Kept(e.by)
    BY <1>4, SameIsKept DEF LiveTypes
  <2>2. QED
    BY <2>1, EventsFrame DEF analysisVars
<1>8. QED
  BY <1>1, <1>5, <1>6, <1>7

LEMMA LiveInitSound == Init => LiveInv
<1>. SUFFICES ASSUME Init
              PROVE  LiveInv
  OBVIOUS
<1>1. RecoveryInv
  BY InitSound DEF Init
<1>2. NoResult \in ResultType /\ NoResult.execution = None
  BY DEF NoResult, Result, ResultType, Executions, Pipelines
<1>3. LiveTypes
  BY <1>2 DEF Init, LiveTypes, DashSteps, OrchSteps
<1>4. \A q : ChangesBy(q) = {}
  BY DEF Init, RecoveryInit, ChangesBy
<1>5. ASSUME NEW q \in Analyses
      PROVE  HandlerSound(q) /\ ReportSound(q)
  <2>1. /\ dash[q] = "new" /\ orch[q] = "idle" /\ reply[q] = "none"
        /\ result[q] = NoResult
    BY DEF Init, RecoveryInit, Analyses, Actors
  <2>2. HandlerSound(q)
    BY <1>4, <2>1 DEF HandlerSound
  <2>3. ReportSound(q)
    BY <1>2, <2>1, NoneAssumption DEF ReportSound
  <2>4. QED
    BY <2>2, <2>3
<1>6. EventsSound
  BY DEF Init, EventsSound
<1>7. QED
  BY <1>1, <1>3, <1>5, <1>6 DEF LiveInv

LEMMA LiveInvHolds == Spec => []LiveInv
<1>1. LiveInv /\ [Next]_vars => LiveInv'
  <2>. SUFFICES ASSUME LiveInv, [Next]_vars
                PROVE  LiveInv'
    OBVIOUS
  <2>1. CASE UNCHANGED vars
    <3>1. RecoveryInv' /\ \A q : Same(q) /\ Kept(q)
      BY <2>1, RecoveryStutters, SameStays DEF vars, recoveryVars, cluster, LiveInv
    <3>2. LiveTypes'
      BY <2>1 DEF vars, analysisVars, LiveInv, LiveTypes
    <3>3. ASSUME NEW q \in Analyses
          PROVE  HandlerSound(q)' /\ ReportSound(q)'
      <4>1. /\ reply'[q] = reply[q] /\ input'[q] = input[q] /\ dash'[q] = dash[q]
            /\ orch'[q] = orch[q] /\ result'[q] = result[q]
            /\ events \subseteq events' /\ audited \subseteq audited'
        BY <2>1 DEF vars, recoveryVars, analysisVars
      <4>2. dash'[q] \notin {"new", "refused"} => input[q] \in Input
        BY <4>1 DEF HandlerSound, LiveInv
      <4>3. HandlerSound(q)'
        BY <3>1, <4>1, <4>2, HandlerFrame DEF LiveInv
      <4>4. ReportSound(q)'
        BY <3>1, <4>1, ReportFrame DEF LiveInv
      <4>5. QED
        BY <4>3, <4>4
    <3>4. EventsSound'
      BY <2>1, <3>1, EventsFrame DEF LiveInv, vars, analysisVars
    <3>5. QED
      BY <3>1, <3>2, <3>3, <3>4 DEF LiveInv
  <2>2. ASSUME NEW q \in Analyses,
               Analyze(q) \/ CollectFails(q) \/ Dashboard(q) \/ Orchestrator(q)
        PROVE  LiveInv'
    BY <2>2, AnalyzeSound, CollectFailsSound, DashboardSound, OrchCallsSound,
       OrchExecuteSound DEF Orchestrator
  <2>3. ASSUME NEW p \in Operators, Operate(p) /\ UNCHANGED analysisVars
        PROVE  LiveInv'
    BY <2>3, OperatorStepSound
  <2>4. QED
    BY <2>1, <2>2, <2>3 DEF Next
<1>2. QED
  BY <1>1, LiveInitSound, PTL DEF Spec

\* Every variable keeps its type: in particular a result never carries an
\* execution that ended in an exception (live_analyze, analyze_pipeline).
THEOREM LiveTypeCorrect == Spec => []TypeOK
<1>1. LiveInv => TypeOK
  <2>. SUFFICES ASSUME LiveInv
                PROVE  TypeOK
    OBVIOUS
  <2>1. \A q \in Analyses : result[q] \in ResultType
    BY DEF LiveInv, LiveTypes
  <2>2. \A q \in Analyses : /\ result[q].rca \in Services \union {None}
                            /\ result[q].execution \in {None, "success", "failed", "dry_run"}
    BY <2>1 DEF ResultType, Executions
  <2>3. QED
    BY <2>2 DEF LiveInv, LiveTypes, RecoveryInv, TypeOK, DashSteps, OrchSteps
<1>2. QED
  BY <1>1, LiveInvHolds, PTL

\* One analysis changes the cluster at most once, whatever times out, fails,
\* falls back or runs on after the dashboard has given up (live_analyze,
\* analyze_pipeline, _maybe_execute).
THEOREM OneRecoveryPerAnalysis == Spec => []ExecutedAtMostOnce
<1>1. LiveInv => ExecutedAtMostOnce
  <2>. SUFFICES ASSUME LiveInv, NEW q \in Analyses
                PROVE  Cardinality(ChangesBy(q)) <= 1
    BY DEF ExecutedAtMostOnce
  <2>1. \A i, j \in ChangesBy(q) : i = j
    BY DEF LiveInv, HandlerSound
  <2>2. CASE ChangesBy(q) = {}
    BY <2>2, FS_EmptySet
  <2>3. CASE ChangesBy(q) # {}
    <3>1. PICK i : ChangesBy(q) = {i}
      BY <2>1, <2>3
    <3>2. QED
      BY <3>1, FS_Singleton
  <2>4. QED
    BY <2>2, <2>3
<1>2. QED
  BY <1>1, LiveInvHolds, PTL

\* The cluster is changed only on a verdict of anomaly, only the service RCA
\* named, only by the action the policy has for it (_maybe_execute).
THEOREM RecoveriesFollowVerdicts == Spec => []ExecutedOnVerdict
<1>1. LiveInv => ExecutedOnVerdict
  BY DEF LiveInv, HandlerSound, OnVerdict, ExecutedOnVerdict
<1>2. QED
  BY <1>1, LiveInvHolds, PTL

\* Without the health override, an event that reports a successful recovery
\* names a service the analysis did change, and every answered request has
\* its event and its audit entry (live_analyze, create_monitoring_event).
THEOREM EventsTellTheTruth ==
  ASSUME HealthOverride = FALSE
  PROVE  Spec => []EventIsTrue
<1>1. LiveInv => EventIsTrue
  BY DEF LiveInv, EventsSound, ReportSound, HasChanged, EventIsTrue
<1>2. QED
  BY <1>1, LiveInvHolds, PTL

-----------------------------------------------------------------------------
(* The health override *)

Incident(r) == r.anomaly /\ r.rca # None

\* While a deployment has no replicas, what is stored and what is about to be
\* stored blames some service.
DownInv ==
  HealthOverride /\ (\E s \in Services : replicas[s] = 0) =>
    /\ \A e \in events : Incident(e.result)
    /\ \A q \in Analyses : dash[q] = "store" => Incident(result[q])

\* What the policy has for a verdict that is carried out is an action of the executor.
LEMMA PolicyGivesAction ==
  ASSUME LiveInv, NEW q \in Analyses, orch[q] = "execute"
  PROVE  input[q].culprit \in Services /\ ActionOf[input[q].culprit] \in ExecutorActions
<1>. DEFINE t == input[q].culprit
<1>1. Executable(q) /\ input[q] \in Input
  BY DEF LiveInv, HandlerSound
<1>2. t \in Services /\ input[q].anomaly \in BOOLEAN /\ t # None
  BY <1>1, NoneAssumption DEF Input
<1>3. ActionOf[t] # "alert"
  BY <1>1, <1>2 DEF Executable, Recommended
<1>4. QED
  BY <1>2, <1>3, PolicyAssumption DEF ExecutorActions

\* Neither an operator nor the executor takes the last replica away.
LEMMA NothingGoesDown ==
  ASSUME ScaleTo # 0, LiveInv, Next
  PROVE  \A s \in Services : replicas'[s] = 0 => replicas[s] = 0
<1>1. replicas \in [Services -> Nat] /\ seen \in [Operators -> Nat]
  BY DEF LiveInv, RecoveryInv, RecoveryTypeOK
<1>2. ASSUME UNCHANGED replicas \/ \E t : replicas' = [replicas EXCEPT ![t] = ScaleTo]
      PROVE  \A s \in Services : replicas'[s] = 0 => replicas[s] = 0
  BY <1>1, <1>2
<1>3. ASSUME NEW p \in Operators, Operate(p)
      PROVE  \A s \in Services : replicas'[s] = 0 => replicas[s] = 0
  <2>1. CASE ScaleUp(p)
    <3>1. replicas' = [replicas EXCEPT ![job[p].service] = seen[p] + 1]
      BY <2>1 DEF ScaleUp, Scale
    <3>2. seen[p] + 1 # 0
      BY <1>1
    <3>3. QED
      BY <1>1, <3>1, <3>2
  <2>2. CASE ~ScaleUp(p)
    BY <1>2, <1>3, <2>2 DEF Operate, AskRecovery, GetReplicas, RestartPods, Restart, RolledOut,
       CommandFails, RecordRecovery, AuditRecovery, cluster
  <2>3. QED
    BY <2>1, <2>2
<1>4. ASSUME NEW q \in Analyses, OrchExecute(q)
      PROVE  UNCHANGED replicas \/ \E t : replicas' = [replicas EXCEPT ![t] = ScaleTo]
  <2>. DEFINE a == ActionOf[input[q].culprit]
              t == input[q].culprit
  <2>1. Execute(q, a, t)
    BY <1>4 DEF OrchExecute
  <2>2. a \in ExecutorActions
    BY <1>4, PolicyGivesAction DEF OrchExecute
  <2>. HIDE DEF a, t
  <2>3. CASE UNCHANGED cluster
    BY <2>3 DEF cluster
  <2>4. CASE Run(q, a, t)
    BY <2>2, <2>4 DEF Run, ExecutorActions, Actions, Restart, Scale, Undo
  <2>5. QED
    BY <2>1, <2>3, <2>4 DEF Execute
<1>5. ASSUME UNCHANGED recoveryVars
      PROVE  \A s \in Services : replicas'[s] = 0 => replicas[s] = 0
  BY <1>2, <1>5 DEF recoveryVars, cluster
<1>6. ASSUME NEW q \in Analyses,
             Analyze(q) \/ CollectFails(q) \/ Dashboard(q) \/ OrchAnomaly(q) \/ OrchRca(q)
      PROVE  UNCHANGED recoveryVars
  BY <1>6 DEF Analyze, CollectFails, Dashboard, Receive, TimeOut, AnalyzeLocally, AnalyzeRcaOnly,
     Override, StoreEvent, AuditAnalysis, OrchAnomaly, OrchRca
<1>7. QED
  BY <1>2, <1>3, <1>4, <1>5, <1>6 DEF Next, Orchestrator

\* Of what the handlers do, only the override lets a result be stored; it looks at
\* the deployments when it does.
LEMMA DownNext ==
  ASSUME ScaleTo # 0, LiveInv, DownInv, Next
  PROVE  DownInv'
<1>. SUFFICES ASSUME HealthOverride, \E s \in Services : replicas'[s] = 0
              PROVE  /\ \A e \in events' : Incident(e.result)
                     /\ \A q \in Analyses : dash'[q] = "store" => Incident(result'[q])
  BY DEF DownInv, Incident
<1>1. /\ \E s \in Services : replicas[s] = 0
      /\ \A e \in events : Incident(e.result)
      /\ \A q \in Analyses : dash[q] = "store" => Incident(result[q])
  BY NothingGoesDown DEF DownInv
<1>2. dash \in [Analyses -> DashSteps] /\ result \in [Analyses -> ResultType]
  BY DEF LiveInv, LiveTypes
<1>3. CASE UNCHANGED <<dash, result, events>>
  BY <1>1, <1>3
<1>4. ASSUME NEW q \in Analyses, UNCHANGED events,
             NEW d \in DashSteps \ {"store"}, dash' = [dash EXCEPT ![q] = d],
             NEW r, result' = [result EXCEPT ![q] = r]
      PROVE  /\ \A e \in events' : Incident(e.result)
             /\ \A p \in Analyses : dash'[p] = "store" => Incident(result'[p])
  BY <1>1, <1>2, <1>4
<1>5. ASSUME NEW q \in Analyses
      PROVE  result = [result EXCEPT ![q] = result[q]]
  BY <1>2
<1>6. ASSUME NEW q \in Analyses, Override(q)
      PROVE  /\ \A e \in events' : Incident(e.result)
             /\ \A p \in Analyses : dash'[p] = "store" => Incident(result'[p])
  <2>1. CASE Dash(q, "refused") /\ UNCHANGED <<result, events>>
    BY <1>4, <1>5, <2>1 DEF Dash, DashSteps
  <2>2. CASE \E s \in Services : Have(q, Overridden(result[q], s)) /\ Dash(q, "store")
    <3>1. PICK s \in Services : Have(q, Overridden(result[q], s)) /\ Dash(q, "store")
      BY <2>2
    <3>2. Incident(Overridden(result[q], s))
      <4>1. result[q] \in ResultType /\ s # None
        BY <1>2, NoneAssumption
      <4>2. QED
        BY <4>1 DEF Overridden, ResultType, Incident
    <3>3. events' = events
      BY <1>6 DEF Override
    <3>. DEFINE r == Overridden(result[q], s)
    <3>. HIDE DEF r
    <3>4. result' = [result EXCEPT ![q] = r] /\ dash' = [dash EXCEPT ![q] = "store"] /\ Incident(r)
      BY <3>1, <3>2 DEF Have, Dash, r
    <3>5. QED
      BY <1>1, <1>2, <3>3, <3>4
  <2>3. QED
    BY <1>1, <1>6, <2>1, <2>2 DEF Override
<1>7. ASSUME NEW q \in Analyses, StoreEvent(q)
      PROVE  /\ \A e \in events' : Incident(e.result)
             /\ \A p \in Analyses : dash'[p] = "store" => Incident(result'[p])
  <2>1. Event(q).result = result[q] /\ Incident(result[q])
    BY <1>1, <1>7 DEF StoreEvent, Event
  <2>2. \A e \in events' : Incident(e.result)
    BY <1>1, <1>7, <2>1 DEF StoreEvent
  <2>3. \A p \in Analyses : dash'[p] = "store" => dash[p] = "store"
    BY <1>2, <1>7 DEF StoreEvent, Dash
  <2>4. result' = result
    BY <1>7 DEF StoreEvent
  <2>5. QED
    BY <1>1, <2>2, <2>3, <2>4
<1>8. ASSUME NEW q \in Analyses,
             \/ Analyze(q) \/ CollectFails(q) \/ Receive(q) \/ TimeOut(q) \/ AnalyzeLocally(q)
             \/ AnalyzeRcaOnly(q) \/ AuditAnalysis(q)
      PROVE  /\ \A e \in events' : Incident(e.result)
             /\ \A p \in Analyses : dash'[p] = "store" => Incident(result'[p])
  <2>1. events' = events
    BY <1>8 DEF Analyze, CollectFails, Receive, TimeOut, AnalyzeLocally, AnalyzeRcaOnly, AuditAnalysis
  <2>2. \E d \in DashSteps \ {"store"} : dash' = [dash EXCEPT ![q] = d]
    BY <1>8 DEF Analyze, CollectFails, Receive, TimeOut, AnalyzeLocally, AnalyzeRcaOnly,
       AuditAnalysis, Dash, DashSteps
  <2>3. \E r : result' = [result EXCEPT ![q] = r]
    BY <1>5, <1>8 DEF Analyze, CollectFails, Receive, TimeOut, AnalyzeLocally, AnalyzeRcaOnly,
       AuditAnalysis, Have
  <2>4. QED
    BY <1>4, <2>1, <2>2, <2>3
<1>9. ASSUME NEW q \in Analyses, Orchestrator(q)
      PROVE  UNCHANGED <<dash, result, events>>
  BY <1>9 DEF Orchestrator, OrchAnomaly, OrchRca, OrchExecute
<1>10. ASSUME UNCHANGED analysisVars
       PROVE  UNCHANGED <<dash, result, events>>
  BY <1>10 DEF analysisVars
<1>11. QED
  BY <1>3, <1>6, <1>7, <1>8, <1>9, <1>10 DEF Next, Dashboard

\* With the health override, and an executor that does not scale to zero, no event
\* calls the system normal, or blames nobody, while a deployment has no replicas,
\* whatever the services answered and whoever changes the deployments meanwhile
\* (_apply_kubernetes_health_override).
THEOREM ScaledToZeroIsReported ==
  ASSUME ScaleTo # 0
  PROVE  Spec => []ScaledToZeroIsIncident
<1>1. Init => DownInv
  BY DEF Init, DownInv
<1>2. LiveInv /\ DownInv /\ [Next]_vars => DownInv'
  <2>. SUFFICES ASSUME LiveInv, DownInv, [Next]_vars
                PROVE  DownInv'
    OBVIOUS
  <2>1. CASE UNCHANGED vars
    BY <2>1 DEF vars, analysisVars, recoveryVars, cluster, DownInv, Incident
  <2>2. QED
    BY <2>1, DownNext
<1>3. DownInv => ScaledToZeroIsIncident
  BY DEF DownInv, Incident, ScaledToZeroIsIncident
<1>4. QED
  BY <1>1, <1>2, <1>3, LiveInvHolds, PTL DEF Spec

-----------------------------------------------------------------------------
(* The analyses as executors *)

\* An analysis uses the executor of module Recovery as that module says, once per
\* request, and so what is proved of RecoverySpec holds of the analyses and the
\* operators together (analyze_pipeline, execute_action).
THEOREM AnalysesUseRecovery == Spec => RecoverySpec
<1>1. Init => RecoveryInit
  BY DEF Init
<1>2. LiveInv /\ [Next]_vars => [RecoveryNext]_recoveryVars
  <2>. SUFFICES ASSUME LiveInv, [Next]_vars
                PROVE  RecoveryNext \/ UNCHANGED recoveryVars
    OBVIOUS
  <2>1. CASE UNCHANGED vars
    BY <2>1 DEF vars
  <2>2. ASSUME NEW p \in Operators, Operate(p)
        PROVE  RecoveryNext
    BY <2>2 DEF RecoveryNext
  <2>3. ASSUME NEW q \in Analyses, OrchExecute(q)
        PROVE  RecoveryNext
    <3>. DEFINE t == input[q].culprit
                a == ActionOf[t]
    <3>1. Execute(q, a, t) /\ orch[q] = "execute"
      BY <2>3 DEF OrchExecute
    <3>2. reply[q] = "none" /\ a \in ExecutorActions /\ t \in Services
      BY <3>1, PolicyGivesAction DEF LiveInv, HandlerSound
    <3>. HIDE DEF a, t
    <3>3. ExecuteAny(q)
      BY <3>1, <3>2 DEF ExecuteAny, ExecutorActions
    <3>4. QED
      BY <3>3 DEF RecoveryNext, Analyses
  <2>4. ASSUME NEW q \in Analyses,
               Analyze(q) \/ CollectFails(q) \/ Dashboard(q) \/ OrchAnomaly(q) \/ OrchRca(q)
        PROVE  UNCHANGED recoveryVars
    BY <2>4 DEF Analyze, CollectFails, Dashboard, Receive, TimeOut, AnalyzeLocally, AnalyzeRcaOnly,
       Override, StoreEvent, AuditAnalysis, OrchAnomaly, OrchRca
  <2>5. QED
    BY <2>1, <2>2, <2>3, <2>4 DEF Next, Orchestrator
<1>3. QED
  BY <1>1, <1>2, LiveInvHolds, PTL DEF Spec, RecoverySpec
=============================================================================
