---------------------------- MODULE RecoveryProofs ----------------------------
(***************************************************************************)
(* Proofs about Recovery, for any operators, executors, deployments and    *)
(* modes: types, and that the recovery history and the audit log report    *)
(* only what was done.                                                     *)
(***************************************************************************)
EXTENDS Recovery, FiniteSetTheorems, SequenceTheorems, TLAPS

Change == [by : Actors, action : Actions, service : Services]

ExecutorActions == Actions \ {"alert_only"}

Replies == {"none", "ok", "success", "failed", "dry_run", "error"}

-----------------------------------------------------------------------------
(* The deployments *)

\* Swapping the two newest revisions leaves a non-empty list of revisions.
LEMMA SwapKeepsRevisions ==
  ASSUME NEW r \in Seq(Nat), Len(r) > 1
  PROVE  [r EXCEPT ![Len(r) - 1] = r[Len(r)], ![Len(r)] = r[Len(r) - 1]]
           \in Seq(Nat) \ {<<>>}
<1>. DEFINE x == [r EXCEPT ![Len(r) - 1] = r[Len(r)], ![Len(r)] = r[Len(r) - 1]]
<1>1. Len(r) \in Nat /\ DOMAIN r = 1..Len(r) /\ \A i \in 1..Len(r) : r[i] \in Nat
  BY LenProperties, ElementOfSeq
<1>2. Len(r) \in 1..Len(r) /\ Len(r) - 1 \in 1..Len(r)
  BY <1>1
<1>3. x \in [1..Len(r) -> Nat]
  BY <1>1, <1>2
<1>4. x \in Seq(Nat)
  BY <1>1, <1>3
<1>5. x # <<>>
  BY <1>1, <1>3
<1>6. QED
  BY <1>4, <1>5

\* A change of a deployment keeps the types of the cluster and adds one
\* entry to the log of changes.
LEMMA ClusterTypes ==
  ASSUME RecoveryTypeOK, NEW p \in Actors, NEW s \in Services, NEW action \in Actions,
         \/ action = "restart_pod" /\ Restart(p, s)
         \/ action = "scale_service" /\ \E n \in Nat : Scale(p, s, n)
         \/ action = "rollback_deployment" /\ Undo(p, s)
  PROVE  /\ replicas' \in [Services -> Nat]
         /\ revisions' \in [Services -> Seq(Nat) \ {<<>>}]
         /\ changes' \in Seq(Change)
         /\ changes' = Append(changes, [by |-> p, action |-> action, service |-> s])
<1>1. revisions[s] \in Seq(Nat) /\ revisions[s] # <<>>
  BY DEF RecoveryTypeOK
<1>2. changes' = Append(changes, [by |-> p, action |-> action, service |-> s])
  BY DEF Restart, Scale, Undo, Log
<1>3. changes' \in Seq(Change)
  <2>1. changes \in Seq(Change)
    BY DEF RecoveryTypeOK, Change
  <2>2. [by |-> p, action |-> action, service |-> s] \in Change
    BY DEF Change
  <2>3. QED
    BY <1>2, <2>1, <2>2, AppendProperties
<1>4. CASE Restart(p, s)
  <2>1. Len(revisions[s]) \in Nat \ {0}
    BY <1>1, EmptySeq, LenProperties
  <2>2. revisions[s][Len(revisions[s])] \in Nat
    BY <1>1, <2>1, ElementOfSeq
  <2>3. Append(revisions[s], revisions[s][Len(revisions[s])]) \in Seq(Nat) \ {<<>>}
    BY <1>1, <2>2, AppendProperties
  <2>4. revisions' \in [Services -> Seq(Nat) \ {<<>>}]
    BY <1>4, <2>3 DEF Restart, RecoveryTypeOK
  <2>5. QED
    BY <1>2, <1>3, <1>4, <2>4 DEF Restart, RecoveryTypeOK
<1>5. CASE \E n \in Nat : Scale(p, s, n)
  BY <1>2, <1>3, <1>5 DEF Scale, RecoveryTypeOK
<1>6. CASE Undo(p, s)
  <2>1. revisions' \in [Services -> Seq(Nat) \ {<<>>}]
    BY <1>1, <1>6, SwapKeepsRevisions DEF Undo, Undone, RecoveryTypeOK
  <2>2. QED
    BY <1>2, <1>3, <1>6, <2>1 DEF Undo, RecoveryTypeOK
<1>7. QED
  BY <1>4, <1>5, <1>6

-----------------------------------------------------------------------------
(* The inductive invariant *)

\* What is known of an operator's request from where it is: an action is under
\* way only if it was asked for, and the request records what it has done.
RequestSound(p) ==
  /\ pc[p] # "new" => job[p] \in Job
  /\ pc[p] = "restart" => job[p].action = "restart_pod"
  /\ pc[p] \in {"get", "scale"} => job[p].action = "scale_service"
  /\ pc[p] = "status" => Changed(p, job[p].action, job[p].service)
  /\ pc[p] = "record" /\ StatusOf(p) = "executed" =>
       Changed(p, job[p].action, job[p].service)
  /\ pc[p] = "audit" \/ p \in audits => \E i \in DOMAIN history : history[i].by = p
  /\ reply[p] = "ok" => p \in audits

HistorySound ==
  \A i \in DOMAIN history :
    history[i].status = "executed" =>
      Changed(history[i].by, history[i].job.action, history[i].job.service)

RecoveryInv ==
  /\ RecoveryTypeOK
  /\ \A p \in Operators : RequestSound(p)
  /\ HistorySound

-----------------------------------------------------------------------------
(* Steps *)

\* A step that adds one change keeps the changes there were.
LEMMA ChangesGrow ==
  ASSUME changes \in Seq(Change), NEW p \in Actors, NEW a \in Actions, NEW s \in Services,
         changes' = Append(changes, [by |-> p, action |-> a, service |-> s])
  PROVE  /\ Changed(p, a, s)'
         /\ \A q, b, t : Changed(q, b, t) => Changed(q, b, t)'
<1>. DEFINE e == [by |-> p, action |-> a, service |-> s]
<1>1. e \in Change
  BY DEF Change
<1>2. /\ Len(changes') = Len(changes) + 1
      /\ \A i \in 1..Len(changes) : changes'[i] = changes[i]
      /\ changes'[Len(changes) + 1] = e
      /\ changes' \in Seq(Change)
  BY <1>1, AppendProperties
<1>3. /\ DOMAIN changes = 1..Len(changes) /\ DOMAIN changes' = 1..Len(changes')
      /\ Len(changes) \in Nat
  BY <1>2, LenProperties
<1>4. Len(changes) + 1 \in DOMAIN changes'
  BY <1>2, <1>3
<1>5. Changed(p, a, s)'
  BY <1>2, <1>4 DEF Changed
<1>6. ASSUME NEW q, NEW b, NEW t, Changed(q, b, t)
      PROVE  Changed(q, b, t)'
  BY <1>2, <1>3, <1>6 DEF Changed
<1>7. QED
  BY <1>5, <1>6

\* When the log of changes stays or grows and the history is left alone, the
\* history stays sound, and so does a request that is not touched.
LEMMA OthersStaySound ==
  ASSUME NEW q \in Operators, RequestSound(q), HistorySound,
         \A b, t : Changed(q, b, t) => Changed(q, b, t)',
         pc'[q] = pc[q], job'[q] = job[q], reply'[q] = reply[q],
         q \in audits <=> q \in audits',
         \/ history' = history
         \/ (\E i \in DOMAIN history : history[i].by = q) =>
              \E i \in DOMAIN history' : history'[i].by = q
  PROVE  RequestSound(q)'
<1>1. StatusOf(q)' = StatusOf(q)
  BY DEF StatusOf
<1>2. QED
  BY <1>1 DEF RequestSound

LEMMA HistoryStaysSound ==
  ASSUME HistorySound, UNCHANGED history,
         \A q, b, t : Changed(q, b, t) => Changed(q, b, t)'
  PROVE  HistorySound'
BY DEF HistorySound

\* A step that changes nothing in the cluster forgets no change.
LEMMA ChangesStay ==
  ASSUME UNCHANGED changes
  PROVE  \A q, b, t : Changed(q, b, t) => Changed(q, b, t)'
BY DEF Changed

LEMMA InitSound == RecoveryInit => RecoveryInv
<1>. SUFFICES ASSUME RecoveryInit
              PROVE  RecoveryInv
  OBVIOUS
<1>1. RecoveryTypeOK
  <2>1. <<1, 2>> \in Seq(Nat) \ {<<>>}
    OBVIOUS
  <2>2. replicas \in [Services -> Nat]
    BY ReplicasAssumption DEF RecoveryInit
  <2>3. QED
    BY <2>1, <2>2 DEF RecoveryInit, RecoveryTypeOK, Steps, Actors
<1>2. ASSUME NEW p \in Operators
      PROVE  RequestSound(p)
  BY DEF RecoveryInit, RequestSound, Actors
<1>3. HistorySound
  BY DEF RecoveryInit, HistorySound
<1>4. QED
  BY <1>1, <1>2, <1>3 DEF RecoveryInv

\* Every command of the executor, whatever it answers, keeps the invariant, and
\* changes the cluster once at most: the deployment and action it was given.
LEMMA ExecuteSound ==
  ASSUME RecoveryInv, NEW p \in Executors, NEW a \in ExecutorActions,
         NEW s \in Services, Execute(p, a, s)
  PROVE  /\ RecoveryInv'
         /\ reply'[p] \in {"success", "failed", "dry_run", "error"}
         /\ \A q \in Actors \ {p} : reply'[q] = reply[q]
         /\ \/ UNCHANGED changes /\ reply'[p] # "success"
            \/ changes' = Append(changes, [by |-> p, action |-> a, service |-> s])
<1>. USE DEF RecoveryInv
<1>1. p \in Actors /\ p \notin Operators /\ a \in Actions
  BY ActorsAssumption DEF Actors, ExecutorActions
<1>2. /\ reply' \in [Actors -> {"none", "ok", "success", "failed", "dry_run", "error"}]
      /\ reply'[p] \in {"success", "failed", "dry_run", "error"}
      /\ \A q \in Actors \ {p} : reply'[q] = reply[q]
  BY <1>1 DEF Execute, Answer, RecoveryTypeOK
<1>3. UNCHANGED <<pc, job, seen, history, audits>>
  BY DEF Execute
<1>4. /\ replicas' \in [Services -> Nat]
      /\ revisions' \in [Services -> Seq(Nat) \ {<<>>}]
      /\ changes' \in Seq(Change)
      /\ \/ UNCHANGED changes /\ reply'[p] # "success"
         \/ changes' = Append(changes, [by |-> p, action |-> a, service |-> s])
  <2>1. CASE UNCHANGED cluster /\ \E r \in {"error", "dry_run", "failed"} : Answer(p, r)
    <3>1. reply'[p] # "success"
      BY <1>1, <2>1 DEF Answer, RecoveryTypeOK
    <3>2. QED
      BY <2>1, <3>1 DEF cluster, RecoveryTypeOK, Change
  <2>2. CASE Run(p, a, s)
    <3>1. \/ a = "restart_pod" /\ Restart(p, s)
          \/ a = "scale_service" /\ Scale(p, s, ScaleTo)
          \/ a = "rollback_deployment" /\ Undo(p, s)
      BY <2>2 DEF Run, ExecutorActions, Actions
    <3>2. ScaleTo \in Nat
      BY ReplicasAssumption
    <3>3. QED
      BY <1>1, <3>1, <3>2, ClusterTypes
  <2>3. QED
    BY <2>1, <2>2 DEF Execute
<1>5. RecoveryTypeOK'
  BY <1>2, <1>3, <1>4 DEF RecoveryTypeOK, Change
<1>6. \A q, b, t : Changed(q, b, t) => Changed(q, b, t)'
  <2>1. changes \in Seq(Change)
    BY DEF RecoveryTypeOK, Change
  <2>2. QED
    BY <1>1, <1>4, <2>1, ChangesGrow, ChangesStay
<1>7. ASSUME NEW q \in Operators
      PROVE  RequestSound(q)'
  <2>1. q # p /\ q \in Actors
    BY <1>1 DEF Actors
  <2>2. reply'[q] = reply[q]
    BY <1>2, <2>1
  <2>3. QED
    BY <1>3, <1>6, <2>2, OthersStaySound
<1>8. HistorySound'
  BY <1>3, <1>6, HistoryStaysSound
<1>9. QED
  BY <1>2, <1>4, <1>5, <1>7, <1>8

\* A step of an operator's request that leaves the deployments alone and adds
\* nothing to the history: only the request itself has to stay sound.
LEMMA QuietStepSound ==
  ASSUME RecoveryInv, NEW p \in Operators,
         UNCHANGED <<cluster, history>>,
         NEW to \in Steps, pc' = [pc EXCEPT ![p] = to],
         NEW j \in Job \union {NoJob}, job' = [job EXCEPT ![p] = j],
         seen' \in [Operators -> Nat],
         NEW r \in Replies, reply' = [reply EXCEPT ![p] = r],
         audits' \in {audits, audits \union {p}},
         RequestSound(p)'
  PROVE  RecoveryInv'
<1>. USE DEF RecoveryInv
<1>1. p \in Actors
  BY DEF Actors
<1>2. RecoveryTypeOK'
  BY <1>1 DEF RecoveryTypeOK, cluster, Replies
<1>3. \A q, b, t : Changed(q, b, t) => Changed(q, b, t)'
  BY ChangesStay DEF cluster
<1>4. ASSUME NEW q \in Operators, q # p
      PROVE  RequestSound(q)'
  <2>1. pc'[q] = pc[q] /\ job'[q] = job[q] /\ reply'[q] = reply[q]
    BY <1>4 DEF RecoveryTypeOK
  <2>2. q \in audits <=> q \in audits'
    BY <1>4
  <2>3. QED
    BY <1>3, <2>1, <2>2, OthersStaySound
<1>5. HistorySound'
  BY <1>3, HistoryStaysSound
<1>6. QED
  BY <1>2, <1>4, <1>5

\* A kubectl command of an operator that changes deployment s: the log of
\* changes has it, and rollout status is next.
LEMMA CommandSound ==
  ASSUME RecoveryInv, NEW p \in Operators, pc[p] # "new",
         job[p].action \in {"restart_pod", "scale_service"},
         \/ job[p].action = "restart_pod" /\ Restart(p, job[p].service)
         \/ job[p].action = "scale_service" /\ \E n \in Nat : Scale(p, job[p].service, n),
         Go(p, "status"),
         UNCHANGED <<job, seen, history, audits, reply>>
  PROVE  RecoveryInv'
<1>. USE DEF RecoveryInv
<1>1. job[p] \in Job /\ p \in Actors
  BY DEF RequestSound, Actors
<1>. DEFINE a == job[p].action
            s == job[p].service
<1>2. a \in Actions /\ s \in Services
  BY <1>1 DEF Job
<1>3. /\ replicas' \in [Services -> Nat]
      /\ revisions' \in [Services -> Seq(Nat) \ {<<>>}]
      /\ changes' \in Seq(Change)
      /\ changes' = Append(changes, [by |-> p, action |-> a, service |-> s])
  BY <1>1, <1>2, ClusterTypes
<1>4. pc' = [pc EXCEPT ![p] = "status"]
  BY DEF Go
<1>5. RecoveryTypeOK'
  BY <1>3, <1>4 DEF RecoveryTypeOK, Change, Steps
<1>6. /\ Changed(p, a, s)'
      /\ \A q, b, t : Changed(q, b, t) => Changed(q, b, t)'
  <2>1. changes \in Seq(Change)
    BY DEF RecoveryTypeOK, Change
  <2>2. QED
    BY <1>1, <1>2, <1>3, <2>1, ChangesGrow
<1>7. RequestSound(p)'
  <2>1. pc'[p] = "status" /\ job'[p] = job[p]
    BY <1>4 DEF RecoveryTypeOK
  <2>2. Changed(p, job[p].action, job[p].service)'
    BY <1>6, <2>1
  <2>3. QED
    BY <1>1, <2>1, <2>2 DEF RequestSound
<1>8. ASSUME NEW q \in Operators, q # p
      PROVE  RequestSound(q)'
  <2>1. pc'[q] = pc[q]
    BY <1>4, <1>8 DEF RecoveryTypeOK
  <2>2. QED
    BY <1>6, <2>1, OthersStaySound
<1>9. HistorySound'
  BY <1>6, HistoryStaysSound
<1>10. QED
  BY <1>5, <1>7, <1>8, <1>9

\* A quiet step that changes neither what is asked for nor the answer.
LEMMA StandingStillSound ==
  ASSUME RecoveryInv, NEW p \in Operators,
         NEW to \in Steps, pc' = [pc EXCEPT ![p] = to],
         UNCHANGED <<cluster, history, job, audits, reply>>,
         seen' \in [Operators -> Nat],
         RequestSound(p)'
  PROVE  RecoveryInv'
<1>. USE DEF RecoveryInv
<1>1. p \in Actors
  BY DEF Actors
<1>2. /\ job[p] \in Job \union {NoJob} /\ job' = [job EXCEPT ![p] = job[p]]
      /\ reply[p] \in Replies /\ reply' = [reply EXCEPT ![p] = reply[p]]
  BY <1>1 DEF RecoveryTypeOK, Replies
<1>3. QED
  BY <1>2, QuietStepSound

\* The entry of RECOVERY_HISTORY says "executed" only of what has been done.
LEMMA RecordSound ==
  ASSUME RecoveryInv, NEW p \in Operators, RecordRecovery(p)
  PROVE  RecoveryInv'
<1>. USE DEF RecoveryInv
<1>. DEFINE e == [by |-> p, job |-> job[p], status |-> StatusOf(p)]
            Entry == [by : Operators, job : Job, status : {"executed", "accepted"}]
<1>1. /\ pc[p] = "record" /\ job[p] \in Job
      /\ history' = Append(history, e)
      /\ pc' = [pc EXCEPT ![p] = "audit"]
      /\ UNCHANGED <<cluster, job, seen, audits, reply>>
  BY DEF RecordRecovery, Go, RequestSound
<1>2. e \in Entry
  BY <1>1 DEF StatusOf
<1>3. history \in Seq(Entry)
  BY DEF RecoveryTypeOK
<1>4. /\ history' \in Seq(Entry)
      /\ Len(history') = Len(history) + 1
      /\ \A i \in 1..Len(history) : history'[i] = history[i]
      /\ history'[Len(history) + 1] = e
  BY <1>1, <1>2, <1>3, AppendProperties
<1>5. /\ DOMAIN history = 1..Len(history) /\ Len(history) \in Nat
      /\ DOMAIN history' = 1..(Len(history) + 1)
  BY <1>3, <1>4, LenProperties
<1>6. RecoveryTypeOK'
  BY <1>1, <1>4 DEF RecoveryTypeOK, cluster, Steps
<1>7. \A q, b, t : Changed(q, b, t) => Changed(q, b, t)'
  BY <1>1, ChangesStay DEF cluster
<1>8. RequestSound(p)'
  <2>1. pc'[p] = "audit"
    BY <1>1 DEF RecoveryTypeOK
  <2>2. \E i \in DOMAIN history' : history'[i].by = p
    BY <1>4, <1>5
  <2>3. reply'[p] = "ok" => p \in audits'
    BY <1>1 DEF RequestSound
  <2>4. QED
    BY <1>1, <2>1, <2>2, <2>3 DEF RequestSound
<1>9. ASSUME NEW q \in Operators, q # p
      PROVE  RequestSound(q)'
  <2>1. pc'[q] = pc[q]
    BY <1>1, <1>9 DEF RecoveryTypeOK
  <2>2. (\E i \in DOMAIN history : history[i].by = q) =>
          \E i \in DOMAIN history' : history'[i].by = q
    BY <1>4, <1>5
  <2>3. QED
    BY <1>1, <1>7, <2>1, <2>2, OthersStaySound
<1>10. HistorySound'
  <2>1. changes' = changes
    BY <1>1 DEF cluster
  <2>2. ASSUME NEW i \in 1..Len(history), history[i].status = "executed"
        PROVE  \E k \in DOMAIN changes :
                 changes[k] = [by |-> history[i].by, action |-> history[i].job.action,
                               service |-> history[i].job.service]
    BY <1>5, <2>2 DEF HistorySound, Changed
  <2>3. ASSUME e.status = "executed"
        PROVE  \E k \in DOMAIN changes :
                 changes[k] = [by |-> e.by, action |-> e.job.action,
                               service |-> e.job.service]
    BY <1>1, <2>3 DEF RequestSound, Changed
  <2>4. \A i \in DOMAIN history' :
          history'[i].status = "executed" =>
            \E k \in DOMAIN changes :
              changes[k] = [by |-> history'[i].by, action |-> history'[i].job.action,
                            service |-> history'[i].job.service]
    <3>. SUFFICES ASSUME NEW i \in 1..(Len(history) + 1), history'[i].status = "executed"
                  PROVE  \E k \in DOMAIN changes :
                           changes[k] = [by |-> history'[i].by,
                                         action |-> history'[i].job.action,
                                         service |-> history'[i].job.service]
      BY <1>5
    <3>1. CASE i \in 1..Len(history)
      BY <1>4, <2>2, <3>1
    <3>2. CASE i = Len(history) + 1
      BY <1>4, <2>3, <3>2
    <3>3. QED
      BY <1>5, <3>1, <3>2
  <2>5. QED
    BY <2>1, <2>4 DEF HistorySound, Changed
<1>11. QED
  BY <1>6, <1>8, <1>9, <1>10

\* Every step of an operator's request keeps the invariant.
LEMMA OperateSound ==
  ASSUME RecoveryInv, NEW p \in Operators, Operate(p)
  PROVE  RecoveryInv'
<1>. USE DEF RecoveryInv
<1>1. /\ RecoveryTypeOK
      /\ RequestSound(p)
      /\ p \in Actors
      /\ job[p] \in Job \union {NoJob}
  BY DEF Actors, RecoveryTypeOK
<1>2. CASE AskRecovery(p)
  <2>1. PICK j \in Job :
          /\ j.action # "rollback_deployment"
          /\ job' = [job EXCEPT ![p] = j]
          /\ pc' = [pc EXCEPT ![p] = FirstStep(j)]
    BY <1>2 DEF AskRecovery, Go
  <2>2. j.real \in BOOLEAN /\ j.action \in Actions
    BY DEF Job
  <2>3. /\ FirstStep(j) \in {"record", "restart", "get"}
        /\ FirstStep(j) = "restart" => j.action = "restart_pod"
        /\ FirstStep(j) = "get" => j.action = "scale_service"
        /\ FirstStep(j) = "record" => ~j.real \/ j.action = "alert_only"
    BY <2>1, <2>2 DEF FirstStep, Actions
  <2>4. pc'[p] = FirstStep(j) /\ job'[p] = j
    BY <1>1, <2>1 DEF RecoveryTypeOK
  <2>5. StatusOf(p)' = "executed" => pc'[p] # "record"
    BY <2>3, <2>4 DEF StatusOf
  <2>6. RequestSound(p)'
    <3>1. reply[p] = "ok" => p \in audits
      BY <1>1 DEF RequestSound
    <3>2. p \in audits => \E i \in DOMAIN history : history[i].by = p
      BY <1>1 DEF RequestSound
    <3>3. UNCHANGED <<reply, audits, history>>
      BY <1>2 DEF AskRecovery
    <3>4. QED
      BY <2>3, <2>4, <2>5, <3>1, <3>2, <3>3 DEF RequestSound
  <2>7. /\ UNCHANGED <<cluster, history>> /\ audits' = audits
        /\ seen' \in [Operators -> Nat]
    BY <1>1, <1>2 DEF AskRecovery, RecoveryTypeOK
  <2>8. reply[p] \in Replies /\ reply' = [reply EXCEPT ![p] = reply[p]]
    BY <1>1, <1>2 DEF AskRecovery, RecoveryTypeOK, Replies
  <2>9. QED
    BY <2>1, <2>3, <2>6, <2>7, <2>8, QuietStepSound DEF Steps
<1>3. CASE GetReplicas(p)
  <2>1. /\ pc[p] = "get"
        /\ pc' = [pc EXCEPT ![p] = "scale"]
        /\ UNCHANGED <<cluster, job, history, audits, reply>>
    BY <1>3 DEF GetReplicas, Go
  <2>2. job[p] \in Job /\ job[p].action = "scale_service"
    BY <1>1, <2>1 DEF RequestSound
  <2>3. seen' \in [Operators -> Nat]
    <3>1. replicas[job[p].service] \in Nat
      BY <1>1, <2>2 DEF Job, RecoveryTypeOK
    <3>2. QED
      BY <1>1, <1>3, <3>1 DEF GetReplicas, RecoveryTypeOK
  <2>4. RequestSound(p)'
    <3>1. pc'[p] = "scale"
      BY <1>1, <2>1 DEF RecoveryTypeOK
    <3>2. QED
      BY <1>1, <2>1, <2>2, <3>1 DEF RequestSound
  <2>5. QED
    BY <1>1, <2>1, <2>3, <2>4, StandingStillSound DEF Steps
<1>4. CASE ScaleUp(p)
  <2>1. pc[p] = "scale" /\ seen[p] + 1 \in Nat
    BY <1>1, <1>4 DEF ScaleUp, RecoveryTypeOK
  <2>2. job[p].action = "scale_service"
    BY <1>1, <2>1 DEF RequestSound
  <2>3. QED
    BY <1>4, <2>1, <2>2, CommandSound DEF ScaleUp
<1>5. CASE RestartPods(p)
  <2>1. pc[p] = "restart"
    BY <1>5 DEF RestartPods
  <2>2. job[p].action = "restart_pod"
    BY <1>1, <2>1 DEF RequestSound
  <2>3. QED
    BY <1>5, <2>1, <2>2, CommandSound DEF RestartPods
<1>6. CASE RolledOut(p)
  <2>1. /\ pc[p] = "status"
        /\ pc' = [pc EXCEPT ![p] = "record"]
        /\ UNCHANGED <<cluster, job, seen, history, audits, reply>>
    BY <1>6 DEF RolledOut, Go
  <2>2. seen' \in [Operators -> Nat]
    BY <1>1, <2>1 DEF RecoveryTypeOK
  <2>3. RequestSound(p)'
    <3>1. pc'[p] = "record"
      BY <1>1, <2>1 DEF RecoveryTypeOK
    <3>2. Changed(p, job[p].action, job[p].service)'
      BY <1>1, <2>1 DEF RequestSound, Changed, cluster
    <3>3. QED
      BY <1>1, <2>1, <3>1, <3>2 DEF RequestSound
  <2>4. QED
    BY <1>1, <2>1, <2>2, <2>3, StandingStillSound DEF Steps
<1>7. CASE CommandFails(p)
  <2>1. /\ pc[p] # "new"
        /\ pc' = [pc EXCEPT ![p] = "done"]
        /\ reply' = [reply EXCEPT ![p] = "error"]
        /\ UNCHANGED <<cluster, job, seen, history, audits>>
    BY <1>7 DEF CommandFails, Go
  <2>2. /\ seen' \in [Operators -> Nat]
        /\ job' = [job EXCEPT ![p] = job[p]]
    BY <1>1, <2>1 DEF RecoveryTypeOK
  <2>3. RequestSound(p)'
    <3>1. pc'[p] = "done" /\ reply'[p] = "error"
      BY <1>1, <2>1 DEF RecoveryTypeOK
    <3>2. QED
      BY <1>1, <2>1, <3>1 DEF RequestSound
  <2>4. QED
    BY <1>1, <2>1, <2>2, <2>3, QuietStepSound DEF Steps, Replies
<1>8. CASE RecordRecovery(p)
  BY <1>8, RecordSound
<1>9. CASE AuditRecovery(p)
  <2>1. /\ pc[p] = "audit"
        /\ pc' = [pc EXCEPT ![p] = "done"]
        /\ UNCHANGED <<cluster, job, seen, history>>
    BY <1>9 DEF AuditRecovery, Go
  <2>2. /\ seen' \in [Operators -> Nat]
        /\ job' = [job EXCEPT ![p] = job[p]]
    BY <1>1, <2>1 DEF RecoveryTypeOK
  <2>3. PICK r \in {"ok", "error"} :
          /\ reply' = [reply EXCEPT ![p] = r]
          /\ IF r = "ok" THEN audits' = audits \union {p} ELSE audits' = audits
    BY <1>9 DEF AuditRecovery
  <2>4. RequestSound(p)'
    <3>1. pc'[p] = "done" /\ reply'[p] = r
      BY <1>1, <2>1, <2>3 DEF RecoveryTypeOK
    <3>2. \E i \in DOMAIN history : history[i].by = p
      BY <1>1, <2>1 DEF RequestSound
    <3>3. r = "ok" => p \in audits'
      BY <2>3
    <3>4. job'[p] \in Job
      BY <1>1, <2>1 DEF RequestSound
    <3>5. QED
      BY <2>1, <3>1, <3>2, <3>3, <3>4 DEF RequestSound
  <2>5. QED
    BY <1>1, <2>1, <2>2, <2>3, <2>4, QuietStepSound DEF Steps, Replies
<1>10. QED
  BY <1>2, <1>3, <1>4, <1>5, <1>6, <1>7, <1>8, <1>9 DEF Operate

-----------------------------------------------------------------------------
(* Replicas: requests that race on one deployment *)

\* The requests to scale s that are through with it, one way or another.
Through(s) ==
  {p \in Operators : /\ pc[p] \notin {"new", "get", "scale"}
                     /\ job[p].action = "scale_service" /\ job[p].service = s}

\* x replicas are no more than some start and one for each of the requests S.
Within(x, S) == \E n \in Replicas0 \union {1, ScaleTo} : x <= n + Cardinality(S)

\* What a request has read and not yet written is bounded like what is there.
ScaleInv ==
  /\ \A s \in Services : Within(replicas[s], Through(s))
  /\ \A p \in Operators : pc[p] = "scale" => Within(seen[p], Through(job[p].service))

LEMMA WithinMore ==
  ASSUME NEW T, IsFiniteSet(T), NEW S \in SUBSET T, NEW x \in Nat, Within(x, S)
  PROVE  Within(x, T)
<1>1. PICK n \in Replicas0 \union {1, ScaleTo} : x <= n + Cardinality(S)
  BY DEF Within
<1>2. n \in Nat
  BY ReplicasAssumption
<1>3. Cardinality(S) <= Cardinality(T) /\ Cardinality(S) \in Nat /\ Cardinality(T) \in Nat
  BY FS_Subset, FS_CardinalityType
<1>4. x <= n + Cardinality(T)
  BY <1>1, <1>2, <1>3
<1>5. QED
  BY <1>4 DEF Within

\* One more request, and one more replica.
LEMMA WithinOneMore ==
  ASSUME NEW S, IsFiniteSet(S), NEW p, p \notin S, NEW x \in Nat, Within(x, S)
  PROVE  Within(x + 1, S \union {p})
<1>1. PICK n \in Replicas0 \union {1, ScaleTo} : x <= n + Cardinality(S)
  BY DEF Within
<1>2. n \in Nat
  BY ReplicasAssumption
<1>3. Cardinality(S \union {p}) = Cardinality(S) + 1 /\ Cardinality(S) \in Nat
  BY FS_AddElement, FS_CardinalityType
<1>4. x + 1 <= n + Cardinality(S \union {p})
  BY <1>1, <1>2, <1>3
<1>5. QED
  BY <1>4 DEF Within

LEMMA WithinStart ==
  ASSUME NEW S, IsFiniteSet(S), NEW x \in Replicas0 \union {1, ScaleTo}
  PROVE  Within(x, S)
<1>1. x \in Nat /\ Cardinality(S) \in Nat
  BY ReplicasAssumption, FS_CardinalityType
<1>2. x <= x + Cardinality(S)
  BY <1>1
<1>3. QED
  BY <1>2 DEF Within

LEMMA ThroughIsFinite ==
  ASSUME IsFiniteSet(Operators)
  PROVE  \A s : /\ IsFiniteSet(Through(s)) /\ IsFiniteSet(Through(s)')
                /\ Through(s)' \in SUBSET Operators
<1>1. \A s : Through(s) \in SUBSET Operators /\ Through(s)' \in SUBSET Operators
  BY DEF Through
<1>. HIDE DEF Through
<1>2. QED
  BY <1>1, FS_Subset

\* A step of p, if any, to somewhere past the reading: those that were through are.
LEMMA ThroughGrows ==
  ASSUME RecoveryInv, NEW p \in Operators, NEW to \in Steps, pc' = [pc EXCEPT ![p] = to],
         \/ pc[p] = "new"
         \/ job' = job /\ to \notin {"new", "get"} /\ (to = "scale" => pc[p] = "get"),
         \A q \in Operators \ {p} : job'[q] = job[q]
  PROVE  \A s : Through(s) \subseteq Through(s)'
<1>1. \A q \in Operators : pc'[q] = IF q = p THEN to ELSE pc[q]
  BY DEF RecoveryInv, RecoveryTypeOK
<1>2. QED
  BY <1>1 DEF Through

\* A step of the cluster: only deployment s changes, to a number that is bounded.
LEMMA ScaleStep ==
  ASSUME IsFiniteSet(Operators), RecoveryInv, ScaleInv,
         \A t : Through(t) \subseteq Through(t)',
         \A t \in Services :
           replicas'[t] = replicas[t] \/ Within(replicas'[t], Through(t)'),
         \A q \in Operators : pc'[q] = "scale" =>
           \/ pc[q] = "scale" /\ job'[q] = job[q] /\ seen'[q] = seen[q]
           \/ Within(seen'[q], Through(job[q].service)')
  PROVE  ScaleInv'
<1>1. replicas \in [Services -> Nat] /\ seen \in [Operators -> Nat]
  BY DEF RecoveryInv, RecoveryTypeOK
<1>2. ASSUME NEW t, NEW x \in Nat, Within(x, Through(t))
      PROVE  Within(x, Through(t)')
  <2>1. IsFiniteSet(Through(t)') /\ Through(t) \in SUBSET (Through(t)')
    BY ThroughIsFinite
  <2>2. QED
    BY ONLY <1>2, <2>1, WithinMore
<1>3. ASSUME NEW t \in Services
      PROVE  Within(replicas'[t], Through(t)')
  <2>1. replicas[t] \in Nat /\ Within(replicas[t], Through(t))
    BY <1>1 DEF ScaleInv
  <2>2. QED
    BY <1>2, <2>1
<1>4. ASSUME NEW q \in Operators, pc'[q] = "scale"
      PROVE  Within(seen'[q], Through(job[q].service)')
  <2>1. CASE pc[q] = "scale" /\ job'[q] = job[q] /\ seen'[q] = seen[q]
    <3>1. PICK t : job[q].service = t
      OBVIOUS
    <3>2. seen[q] \in Nat /\ Within(seen[q], Through(t))
      BY <1>1, <2>1, <3>1 DEF ScaleInv
    <3>3. Within(seen[q], Through(t)')
      BY <1>2, <3>2
    <3>4. Through(t)' = Through(job[q].service)'
      BY <2>1, <3>1 DEF Through
    <3>5. QED
      BY <2>1, <3>3, <3>4
  <2>2. QED
    BY <1>4, <2>1
<1>5. QED
  BY <1>3, <1>4 DEF ScaleInv

\* The steps of an operator's request.
LEMMA OperateScales ==
  ASSUME IsFiniteSet(Operators), RecoveryInv, ScaleInv, NEW p \in Operators, Operate(p)
  PROVE  ScaleInv'
<1>1. /\ RecoveryTypeOK /\ RequestSound(p)
      /\ replicas \in [Services -> Nat] /\ seen \in [Operators -> Nat]
      /\ pc \in [Operators -> Steps] /\ job \in [Operators -> Job \union {NoJob}]
  BY DEF RecoveryInv, RecoveryTypeOK
<1>2. CASE AskRecovery(p)
  <2>1. PICK j \in Job : job' = [job EXCEPT ![p] = j] /\ Go(p, FirstStep(j))
    BY <1>2 DEF AskRecovery
  <2>2. FirstStep(j) \in {"record", "restart", "get"}
    <3>1. j.real \in BOOLEAN /\ j.action \in Actions /\ j.action # "rollback_deployment"
      BY <1>1, <1>2, <2>1 DEF Job, AskRecovery
    <3>2. QED
      BY <3>1 DEF FirstStep, Actions
  <2>. DEFINE to == FirstStep(j)
  <2>3. pc[p] = "new" /\ pc' = [pc EXCEPT ![p] = to] /\ UNCHANGED <<replicas, seen>>
    BY <1>2, <2>1 DEF AskRecovery, Go, cluster
  <2>. HIDE DEF to
  <2>4. to \in Steps /\ to # "scale"
    BY <2>2 DEF to, Steps
  <2>5. \A q \in Operators \ {p} : job'[q] = job[q] /\ pc'[q] = pc[q]
    BY <1>1, <2>1, <2>3
  <2>6. \A s : Through(s) \subseteq Through(s)'
    BY <2>3, <2>4, <2>5, ThroughGrows
  <2>7. \A q \in Operators : pc'[q] = "scale" =>
          pc[q] = "scale" /\ job'[q] = job[q] /\ seen'[q] = seen[q]
    BY <1>1, <2>3, <2>4, <2>5
  <2>8. QED
    BY <2>3, <2>6, <2>7, ScaleStep
<1>3. CASE GetReplicas(p)
  <2>0. PICK s \in Services : job[p].service = s
    BY <1>1, <1>3 DEF GetReplicas, RequestSound, Job
  <2>1. /\ pc[p] = "get" /\ pc' = [pc EXCEPT ![p] = "scale"]
        /\ seen' = [seen EXCEPT ![p] = IF replicas[s] = 0 THEN 1 ELSE replicas[s]]
        /\ UNCHANGED <<replicas, job>>
    BY <1>3, <2>0 DEF GetReplicas, Go, cluster
  <2>3. \A t : Through(t) \subseteq Through(t)'
    BY <2>1, ThroughGrows DEF Steps
  <2>4. Within(seen'[p], Through(s)')
    <3>1. CASE replicas[s] = 0
      <4>1. seen'[p] = 1 /\ IsFiniteSet(Through(s)')
        BY <1>1, <2>1, <3>1, ThroughIsFinite
      <4>2. QED
        BY <4>1, WithinStart
    <3>2. CASE replicas[s] # 0
      <4>1. seen'[p] = replicas[s] /\ replicas[s] \in Nat /\ Within(replicas[s], Through(s))
        BY <1>1, <2>1, <3>2 DEF ScaleInv
      <4>2. IsFiniteSet(Through(s)') /\ Through(s) \in SUBSET (Through(s)')
        BY <2>3, ThroughIsFinite
      <4>3. Within(replicas[s], Through(s)')
        BY ONLY <4>1, <4>2, WithinMore
      <4>4. QED
        BY <4>1, <4>3
    <3>3. QED
      BY <3>1, <3>2
  <2>5. \A q \in Operators \ {p} : pc'[q] = pc[q] /\ seen'[q] = seen[q]
    BY <1>1, <2>1
  <2>6. \A q \in Operators : pc'[q] = "scale" =>
          \/ pc[q] = "scale" /\ job'[q] = job[q] /\ seen'[q] = seen[q]
          \/ Within(seen'[q], Through(job[q].service)')
    BY <2>0, <2>1, <2>4, <2>5
  <2>7. QED
    BY <2>1, <2>3, <2>6, ScaleStep
<1>4. CASE ScaleUp(p)
  <2>. DEFINE s == job[p].service
  <2>1. /\ pc[p] = "scale" /\ pc' = [pc EXCEPT ![p] = "status"]
        /\ replicas' = [replicas EXCEPT ![s] = seen[p] + 1]
        /\ UNCHANGED <<seen, job>>
    BY <1>4 DEF ScaleUp, Scale, Go
  <2>2. s \in Services /\ job[p].action = "scale_service"
    BY <1>1, <2>1 DEF RequestSound, Job
  <2>3. \A t : Through(t) \subseteq Through(t)'
    BY <2>1, ThroughGrows DEF Steps
  <2>4. p \notin Through(s) /\ Through(s)' = Through(s) \union {p}
    <3>1. \A q \in Operators : pc'[q] = IF q = p THEN "status" ELSE pc[q]
      BY <1>1, <2>1
    <3>2. QED
      BY <2>1, <2>2, <3>1 DEF Through
  <2>5. Within(seen[p] + 1, Through(s)')
    <3>1. seen[p] \in Nat /\ Within(seen[p], Through(s)) /\ IsFiniteSet(Through(s))
      BY <1>1, <2>1, ThroughIsFinite DEF ScaleInv
    <3>2. p \notin Through(s)
      BY <2>4
    <3>3. Within(seen[p] + 1, Through(s) \union {p})
      BY ONLY <3>1, <3>2, WithinOneMore
    <3>4. QED
      BY <2>4, <3>3
  <2>6. \A t \in Services :
          replicas'[t] = replicas[t] \/ Within(replicas'[t], Through(t)')
    BY <1>1, <2>1, <2>2, <2>5
  <2>7. \A q \in Operators : pc'[q] = "scale" =>
          pc[q] = "scale" /\ job'[q] = job[q] /\ seen'[q] = seen[q]
    BY <1>1, <2>1
  <2>8. QED
    BY <2>3, <2>6, <2>7, ScaleStep
<1>5. CASE ~(AskRecovery(p) \/ GetReplicas(p) \/ ScaleUp(p))
  <2>1. PICK to \in {"status", "record", "audit", "done"} : pc' = [pc EXCEPT ![p] = to]
    BY <1>5 DEF Operate, RestartPods, RolledOut, CommandFails, RecordRecovery, AuditRecovery, Go
  <2>2. /\ UNCHANGED <<replicas, seen, job>>
        /\ pc[p] # "new"
    BY <1>5 DEF Operate, RestartPods, Restart, RolledOut, CommandFails, RecordRecovery,
                AuditRecovery, cluster
  <2>3. to \in Steps /\ to \notin {"new", "get", "scale"}
    BY DEF Steps
  <2>4. \A t : Through(t) \subseteq Through(t)'
    BY <2>1, <2>2, <2>3, ThroughGrows
  <2>5. \A q \in Operators : pc'[q] = "scale" =>
          pc[q] = "scale" /\ job'[q] = job[q] /\ seen'[q] = seen[q]
    BY <1>1, <2>1, <2>2, <2>3
  <2>6. QED
    BY <2>2, <2>4, <2>5, ScaleStep
<1>6. QED
  BY <1>2, <1>3, <1>4, <1>5

\* The executor sets a number that is a start.
LEMMA ExecuteScales ==
  ASSUME IsFiniteSet(Operators), RecoveryInv, ScaleInv, NEW p \in Executors,
         NEW a \in ExecutorActions, NEW s \in Services, Execute(p, a, s)
  PROVE  ScaleInv'
<1>1. replicas \in [Services -> Nat] /\ UNCHANGED <<pc, job, seen>>
  BY DEF RecoveryInv, RecoveryTypeOK, Execute
<1>2. \A t : Through(t) \subseteq Through(t)'
  BY <1>1 DEF Through
<1>3. UNCHANGED replicas \/ replicas' = [replicas EXCEPT ![s] = ScaleTo]
  <2>1. CASE UNCHANGED cluster
    BY <2>1 DEF cluster
  <2>2. CASE Run(p, a, s)
    BY <2>2 DEF Run, ExecutorActions, Actions, Restart, Scale, Undo
  <2>3. QED
    BY <2>1, <2>2 DEF Execute
<1>4. \A t \in Services : replicas'[t] = replicas[t] \/ Within(replicas'[t], Through(t)')
  <2>1. \A t : Within(ScaleTo, Through(t)')
    BY WithinStart, ThroughIsFinite
  <2>2. QED
    BY <1>1, <1>3, <2>1
<1>5. QED
  BY <1>1, <1>2, <1>4, ScaleStep

LEMMA ScaleInit ==
  ASSUME IsFiniteSet(Operators)
  PROVE  RecoveryInit => ScaleInv
<1>. SUFFICES ASSUME RecoveryInit
              PROVE  ScaleInv
  OBVIOUS
<1>1. \A s \in Services : Within(replicas[s], Through(s))
  BY WithinStart, ThroughIsFinite DEF RecoveryInit
<1>2. \A p \in Operators : pc[p] # "scale"
  BY DEF RecoveryInit
<1>3. QED
  BY <1>1, <1>2 DEF ScaleInv

-----------------------------------------------------------------------------
(* Theorems *)

LEMMA RecoveryInvHolds == RecoverySpec => []RecoveryInv
<1>1. RecoveryInit => RecoveryInv
  BY InitSound
<1>2. RecoveryInv /\ [RecoveryNext]_recoveryVars => RecoveryInv'
  <2>. SUFFICES ASSUME RecoveryInv, [RecoveryNext]_recoveryVars
                PROVE  RecoveryInv'
    OBVIOUS
  <2>1. CASE UNCHANGED recoveryVars
    BY <2>1 DEF recoveryVars, cluster, RecoveryInv, RecoveryTypeOK, RequestSound,
                HistorySound, StatusOf, Changed
  <2>2. ASSUME NEW p \in Operators, Operate(p)
        PROVE  RecoveryInv'
    BY <2>2, OperateSound
  <2>3. ASSUME NEW p \in Executors, ExecuteAny(p)
        PROVE  RecoveryInv'
    BY <2>3, ExecuteSound DEF ExecuteAny, ExecutorActions
  <2>4. QED
    BY <2>1, <2>2, <2>3 DEF RecoveryNext
<1>3. QED
  BY <1>1, <1>2, PTL DEF RecoverySpec

\* Every variable of the deployments, of the operators' requests and of the
\* recovery history keeps its type; no deployment loses its last revision
\* (execute_recovery, execute_action).
THEOREM RecoveryTypeCorrect == RecoverySpec => []RecoveryTypeOK
BY RecoveryInvHolds, PTL DEF RecoveryInv

\* What RECOVERY_HISTORY and the audit log call executed was done, for that
\* request, whatever other operators and the executor do at the same time and
\* whichever commands fail (execute_recovery).
THEOREM RecordedWasDone == RecoverySpec => []RecordedIsDone
<1>1. RecoveryInv => RecordedIsDone
  BY DEF RecoveryInv, HistorySound, RequestSound, RecordedIsDone
<1>2. QED
  BY <1>1, RecoveryInvHolds, PTL

\* Of finitely many requests that race on one deployment, each reading the replicas
\* before it sets them, every one adds one replica at most to what was there at the
\* start, or to one, or to what the executor sets (execute_recovery, execute_action).
THEOREM RequestsScaleOnce ==
  ASSUME IsFiniteSet(Operators)
  PROVE  RecoverySpec => []ScaledOncePerRequest
<1>1. RecoveryInit => RecoveryInv /\ ScaleInv
  BY InitSound, ScaleInit
<1>2. RecoveryInv /\ ScaleInv /\ [RecoveryNext]_recoveryVars => RecoveryInv' /\ ScaleInv'
  <2>. SUFFICES ASSUME RecoveryInv, ScaleInv, [RecoveryNext]_recoveryVars
                PROVE  RecoveryInv' /\ ScaleInv'
    OBVIOUS
  <2>1. CASE UNCHANGED recoveryVars
    BY <2>1 DEF recoveryVars, cluster, RecoveryInv, RecoveryTypeOK, RequestSound,
                HistorySound, StatusOf, Changed, ScaleInv, Through
  <2>2. ASSUME NEW p \in Operators, Operate(p)
        PROVE  RecoveryInv' /\ ScaleInv'
    BY <2>2, OperateSound, OperateScales
  <2>3. ASSUME NEW p \in Executors, ExecuteAny(p)
        PROVE  RecoveryInv' /\ ScaleInv'
    BY <2>3, ExecuteSound, ExecuteScales DEF ExecuteAny, ExecutorActions
  <2>4. QED
    BY <2>1, <2>2, <2>3 DEF RecoveryNext
<1>3. RecoveryInv /\ ScaleInv => ScaledOncePerRequest
  <2>. SUFFICES ASSUME RecoveryInv, ScaleInv, NEW s \in Services
                PROVE  Within(replicas[s], {p \in Operators : job[p].action = "scale_service"
                                                              /\ job[p].service = s})
    BY DEF ScaledOncePerRequest, Within
  <2>. DEFINE asking == {p \in Operators : job[p].action = "scale_service" /\ job[p].service = s}
  <2>1. replicas[s] \in Nat /\ Within(replicas[s], Through(s))
    BY DEF ScaleInv, RecoveryInv, RecoveryTypeOK
  <2>2. Through(s) \in SUBSET asking /\ asking \in SUBSET Operators
    BY DEF Through
  <2>. HIDE DEF asking
  <2>3. IsFiniteSet(asking)
    BY <2>2, FS_Subset
  <2>4. Within(replicas[s], asking)
    BY ONLY <2>1, <2>2, <2>3, WithinMore
  <2>5. QED
    BY <2>4 DEF asking
<1>4. QED
  BY <1>1, <1>2, <1>3, PTL DEF RecoverySpec
=============================================================================
