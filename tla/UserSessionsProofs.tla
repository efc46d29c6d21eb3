-------------------------- MODULE UserSessionsProofs --------------------------
(***************************************************************************)
(* Proofs about UserSessions, for any users, requests, roles and           *)
(* passwords: types, and that an answered change of an account has ended   *)
(* every session there was when it was committed.                          *)
(***************************************************************************)
EXTENDS UserSessions, TLAPS

Stages == {"idle", "authorise", "verify", "select", "insert", "count",
           "create", "update", "revoke", "end", "audit", "done"}

Live(s) == sessions[s] # None /\ sessions[s].state = "live"

\* Where a request is fits what it is to do.
JobSound(r) ==
  /\ pc[r] # "idle" => job[r] \in Job
  /\ Changes(r) => job[r].field \in Fields /\ job[r].value \in ValuesOf(job[r].field)
  /\ pc[r] \in {"update", "revoke"} => Changes(r)
  /\ pc[r] = "insert" => rights[r] \in Roles
  /\ pc[r] \in {"authorise", "end"} => job[r].by \in Requests /\ pc[job[r].by] = "done"
  /\ reply[r] = "ok" => pc[r] = "done"
  /\ r \in audits => reply[r] = "ok"

\* A session is there only once its login has inserted it.
SessionSound(s) == sessions[s] # None => pc[s] \in {"audit", "done"}

\* The sessions a change is to end were inserted by then, and are not live once
\* it has revoked them.
EndedSound(c) ==
  /\ pc[c] \notin {"revoke", "audit", "done"} => ended[c] = {}
  /\ \A s \in ended[c] : pc[s] \in {"audit", "done"} /\ job[s].user = job[c].user
  /\ pc[c] = "audit" \/ reply[c] = "ok" => \A s \in ended[c] : ~Live(s)

Inv ==
  /\ TypeOK
  /\ \A r \in Requests : JobSound(r) /\ SessionSound(r) /\ EndedSound(r)

-----------------------------------------------------------------------------
(* What a step changes *)

\* The next stage is a stage, and only the right requests get to the delicate
\* ones.
LEMMA AfterSound ==
  ASSUME NEW kind, NEW step \in Stages
  PROVE  /\ After(kind, step) \in Stages \ {"idle", "authorise", "select", "insert", "revoke"}
              \/ (step = "verify" /\ kind = "login" /\ After(kind, step) = "select")
              \/ (step = "select" /\ After(kind, step) = "insert")
              \/ (step = "update" /\ After(kind, step) = "revoke")
         /\ After(kind, step) = "update" => kind \in {"change", "own"}
         /\ After(kind, step) = "end" => step = "authorise"
         /\ After(kind, step) = "done" =>
              step = "audit" \/ (step = "authorise" /\ kind = "read")
         /\ step \in {"revoke", "insert"} => After(kind, step) = "audit"
BY DEF After, Stages

LEMMA FirstSound ==
  ASSUME NEW kind
  PROVE  First(kind) \in {"verify", "count", "authorise"}
BY DEF First

\* A request that proceeds or ends changes nothing of the others.
LEMMA MoveSound ==
  ASSUME TypeOK, NEW r \in Requests, Proceed(r) \/ Refuse(r)
  PROVE  /\ pc' \in [Requests -> Stages]
         /\ reply' \in [Requests -> {"none", "ok", "refused"}]
         /\ \A q \in Requests \ {r} : pc'[q] = pc[q] /\ reply'[q] = reply[q]
         /\ \/ pc'[r] = After(job[r].kind, pc[r])
               /\ reply'[r] = IF pc'[r] = "done" THEN "ok" ELSE reply[r]
            \/ pc'[r] = "done" /\ reply'[r] = "refused"
<1>1. pc \in [Requests -> Stages] /\ reply \in [Requests -> {"none", "ok", "refused"}]
  BY DEF TypeOK, Stages
<1>2. CASE Refuse(r)
  BY <1>1, <1>2 DEF Refuse, Stages
<1>3. CASE Proceed(r)
  <2>1. After(job[r].kind, pc[r]) \in Stages
    BY <1>1, AfterSound DEF Stages
  <2>2. QED
    BY <1>1, <1>3, <2>1 DEF Proceed
<1>4. QED
  BY <1>2, <1>3

\* Every step moves its request, and only from a stage of its own.
LEMMA StepMoves ==
  ASSUME NEW r \in Requests, Step(r)
  PROVE  /\ (Proceed(r) \/ Refuse(r)) /\ Busy(r)
         /\ UNCHANGED <<job, before>>
BY DEF Step, Authorise, Verify, Select, Insert, Count, CreateUser, Update, Revoke,
       End, Audit, Fail, Busy, tables

\* Sessions are made live by Insert alone, which makes that of its own login.
LEMMA SessionsStep ==
  ASSUME TypeOK, NEW r \in Requests, Step(r) \/ Expire(r), JobSound(r)
  PROVE  /\ sessions' \in [Requests -> Session \union {None}]
         /\ \A s \in Requests :
              \/ /\ sessions'[s] # None => sessions[s] # None
                 /\ Live(s)' => Live(s)
              \/ s = r /\ pc[r] = "insert" /\ Insert(r)
<1>. USE DEF Live
<1>1. sessions \in [Requests -> Session \union {None}]
  BY DEF TypeOK
<1>2. CASE UNCHANGED sessions
  BY <1>1, <1>2
<1>3. CASE Cleanup
  BY <1>1, <1>3 DEF Cleanup
<1>4. CASE Insert(r)
  <2>1. LiveSession(rights[r]) \in Session
    BY <1>4 DEF Insert, JobSound, LiveSession, Session
  <2>2. /\ sessions' = [sessions EXCEPT ![r] = LiveSession(rights[r])]
        /\ pc[r] = "insert"
    BY <1>4 DEF Insert
  <2>3. QED
    BY <1>1, <1>4, <2>1, <2>2
<1>5. CASE Revoke(r)
  <2>1. \A s \in Requests :
          sessions'[s] = IF s \in SessionsOf(job[r].user)
                         THEN [sessions[s] EXCEPT !.state = "revoked"] ELSE sessions[s]
    BY <1>5 DEF Revoke
  <2>2. \A s \in SessionsOf(job[r].user) :
          [sessions[s] EXCEPT !.state = "revoked"] = [state |-> "revoked", role |-> sessions[s].role]
          /\ sessions[s].role \in Roles /\ sessions[s] # None
    BY <1>1 DEF SessionsOf, Session
  <2>3. \A s \in SessionsOf(job[r].user) : sessions'[s] \in Session /\ ~Live(s)'
    BY <2>1, <2>2 DEF SessionsOf, Session
  <2>4. QED
    BY <1>1, <1>5, <2>1, <2>2, <2>3 DEF Revoke
<1>6. CASE End(r) \/ Expire(r)
  <2>1. UNCHANGED sessions
        \/ \E s \in Requests : \E state \in {"revoked", "expired"} :
             sessions[s] # None /\ sessions' = [sessions EXCEPT ![s].state = state]
    BY <1>6 DEF End, Expire, JobSound
  <2>2. ASSUME NEW s \in Requests, NEW state \in {"revoked", "expired"}, sessions[s] # None,
               sessions' = [sessions EXCEPT ![s].state = state]
        PROVE  /\ sessions'[s] \in Session /\ ~Live(s)'
               /\ sessions' \in [Requests -> Session \union {None}]
               /\ \A q \in Requests \ {s} : sessions'[q] = sessions[q]
    <3>1. sessions[s] \in Session
      BY <1>1, <2>2
    <3>2. [sessions[s] EXCEPT !.state = state] \in Session
          /\ [sessions[s] EXCEPT !.state = state].state = state
      BY <3>1 DEF Session
    <3>3. sessions'[s] = [sessions[s] EXCEPT !.state = state]
          /\ \A q \in Requests \ {s} : sessions'[q] = sessions[q]
      BY <1>1, <2>2
    <3>4. QED
      BY <1>1, <2>2, <3>2, <3>3
  <2>3. QED
    BY <1>1, <2>1, <2>2
<1>7. QED
  BY <1>2, <1>3, <1>4, <1>5, <1>6 DEF Step, Authorise, Verify, Select, Count, CreateUser,
     Update, Audit, Fail, tables

\* The accounts, the rights and what a change is to end.
LEMMA OthersStep ==
  ASSUME TypeOK, NEW r \in Requests, Step(r), JobSound(r),
         \A q \in Requests : JobSound(q)
  PROVE  /\ accounts' \in [Users -> Account \union {NoAccount}]
         /\ rights' \in [Requests -> Roles \union {None}]
         /\ \A q \in Requests \ {r} : rights'[q] = rights[q]
         /\ pc'[r] = "insert" => rights'[r] \in Roles
         /\ audits' = audits \/ (audits' = audits \union {r} /\ pc[r] = "audit" /\ Proceed(r))
         /\ ended' = ended \/ (pc[r] = "update" /\ pc'[r] = "revoke"
                              /\ ended' = [ended EXCEPT ![r] = SessionsOf(job[r].user)])
<1>1. /\ accounts \in [Users -> Account \union {NoAccount}]
      /\ rights \in [Requests -> Roles \union {None}]
      /\ audits \subseteq Requests /\ ended \in [Requests -> SUBSET Requests]
      /\ pc \in [Requests -> Stages]
  BY DEF TypeOK, Stages
<1>2. Busy(r) /\ job[r] \in Job /\ job[r].user \in Users
  BY StepMoves DEF Busy, JobSound, Job
<1>3. \A a \in Account : a \in [Fields -> Values] /\ a["role"] \in Roles
  BY DEF Account, Fields, ValuesOf
<1>4. NoAccount["state"] = None /\ None # "active"
  BY NoneAssumption DEF NoAccount, Fields, Values, ValuesOf
<1>5. pc'[r] = "insert" => pc[r] = "select"
  <2>1. pc'[r] = After(job[r].kind, pc[r]) \/ pc'[r] = "done"
    BY StepMoves, MoveSound
  <2>2. QED
    BY <1>1, <2>1, AfterSound DEF Stages
<1>6. CASE Authorise(r)
  <2>1. job[r].by \in Requests /\ job[job[r].by] \in Job
    BY <1>6 DEF Authorise, JobSound
  <2>2. job[job[r].by].user \in Users
    BY <2>1 DEF Job
  <2>3. Usable(job[r].by) => accounts[job[job[r].by].user]["role"] \in Roles
    BY <1>1, <1>3, <1>4, <2>2 DEF Usable
  <2>4. UNCHANGED <<accounts, audits, ended>> /\ pc[r] = "authorise"
    BY <1>6 DEF Authorise
  <2>5. rights' = rights \/ (Usable(job[r].by)
          /\ rights' = [rights EXCEPT ![r] = accounts[job[job[r].by].user]["role"]])
    BY <1>6 DEF Authorise
  <2>6. QED
    BY <1>1, <1>5, <2>3, <2>4, <2>5
<1>7. CASE Select(r)
  <2>1. accounts[job[r].user]["state"] = "active" => accounts[job[r].user]["role"] \in Roles
    BY <1>1, <1>2, <1>3, <1>4
  <2>2. UNCHANGED <<accounts, audits, ended>>
    BY <1>7 DEF Select
  <2>3. \/ /\ accounts[job[r].user]["state"] = "active"
           /\ rights' = [rights EXCEPT ![r] = accounts[job[r].user]["role"]]
        \/ rights' = rights /\ Refuse(r)
    BY <1>7 DEF Select
  <2>4. Refuse(r) => pc'[r] = "done"
    BY <1>1 DEF Refuse
  <2>5. QED
    BY <1>1, <2>1, <2>2, <2>3, <2>4
<1>8. CASE CreateUser(r)
  <2>1. UNCHANGED <<rights, audits, ended>> /\ pc[r] = "create"
    BY <1>8 DEF CreateUser
  <2>2. accounts' = accounts \/ \E a \in Account : accounts' = [accounts EXCEPT ![job[r].user] = a]
    BY <1>8 DEF CreateUser
  <2>3. QED
    BY <1>1, <1>5, <2>1, <2>2
<1>9. CASE Update(r)
  <2>1. UNCHANGED <<rights, audits>> /\ pc[r] = "update"
    BY <1>9 DEF Update
  <2>2. CASE UNCHANGED <<accounts, ended>>
    BY <1>1, <1>5, <2>1, <2>2
  <2>3. CASE accounts[job[r].user] # NoAccount
    <3>. DEFINE a == accounts[job[r].user]
                b == [a EXCEPT ![job[r].field] = job[r].value]
    <3>1. /\ accounts' = [accounts EXCEPT ![job[r].user] = b]
          /\ ended' = [ended EXCEPT ![r] = SessionsOf(job[r].user)]
          /\ Proceed(r)
      BY <1>9, <2>3 DEF Update
    <3>2. job[r].field \in Fields /\ job[r].value \in ValuesOf(job[r].field)
      BY <2>1 DEF JobSound
    <3>3. a \in Account
      BY <1>1, <1>2, <2>3
    <3>4. /\ a \in [Fields -> Values] /\ \A f \in Fields : a[f] \in ValuesOf(f)
          /\ job[r].value \in Values
      BY <3>2, <3>3 DEF Account, Values
    <3>5. b \in [Fields -> Values] /\ \A f \in Fields : b[f] \in ValuesOf(f)
      BY <3>2, <3>4
    <3>6. b \in Account
      BY <3>5 DEF Account
    <3>7. pc'[r] = "revoke"
      BY <1>1, <2>1, <3>1 DEF Proceed, After
    <3>. HIDE DEF b
    <3>8. accounts' \in [Users -> Account \union {NoAccount}]
      BY <1>1, <3>1, <3>6
    <3>9. QED
      BY <1>1, <2>1, <3>1, <3>7, <3>8
  <2>4. QED
    BY <1>9, <2>2, <2>3 DEF Update
<1>10. CASE Audit(r)
  <2>1. /\ UNCHANGED <<accounts, rights, ended>> /\ audits' = audits \union {r}
        /\ pc[r] = "audit" /\ Proceed(r)
    BY <1>10 DEF Audit
  <2>2. QED
    BY <1>1, <1>5, <2>1
<1>11. CASE Verify(r) \/ Insert(r) \/ Count(r) \/ Revoke(r) \/ End(r) \/ Fail(r)
  <2>1. UNCHANGED <<accounts, rights, audits, ended>>
    BY <1>11 DEF Verify, Insert, Count, Revoke, End, Fail, tables
  <2>2. pc'[r] # "insert"
    <3>1. pc[r] = "select" => Fail(r)
      BY <1>11 DEF Verify, Insert, Count, Revoke, End
    <3>2. Fail(r) => pc'[r] = "done"
      BY <1>1 DEF Fail, Refuse
    <3>3. QED
      BY <1>5, <3>1, <3>2
  <2>3. QED
    BY <1>1, <2>1, <2>2
<1>12. QED
  BY <1>6, <1>7, <1>8, <1>9, <1>10, <1>11 DEF Step

-----------------------------------------------------------------------------
(* The invariant *)

LEMMA StepSound ==
  ASSUME Inv, NEW r \in Requests, Step(r)
  PROVE  Inv'
<1>1. TypeOK /\ \A q \in Requests : JobSound(q) /\ SessionSound(q) /\ EndedSound(q)
  BY DEF Inv
<1>2. /\ pc \in [Requests -> Stages] /\ ended \in [Requests -> SUBSET Requests]
      /\ sessions \in [Requests -> Session \union {None}]
  BY <1>1 DEF TypeOK, Stages
<1>3. /\ Busy(r) /\ UNCHANGED <<job, before>>
      /\ pc[r] \notin {"idle", "done"}
  BY StepMoves DEF Busy
<1>4. /\ pc' \in [Requests -> Stages]
      /\ reply' \in [Requests -> {"none", "ok", "refused"}]
      /\ \A q \in Requests \ {r} : pc'[q] = pc[q] /\ reply'[q] = reply[q]
      /\ \/ pc'[r] = After(job[r].kind, pc[r])
            /\ reply'[r] = IF pc'[r] = "done" THEN "ok" ELSE reply[r]
         \/ pc'[r] = "done" /\ reply'[r] = "refused"
  BY <1>1, StepMoves, MoveSound
<1>5. /\ accounts' \in [Users -> Account \union {NoAccount}]
      /\ rights' \in [Requests -> Roles \union {None}]
      /\ \A q \in Requests \ {r} : rights'[q] = rights[q]
      /\ pc'[r] = "insert" => rights'[r] \in Roles
      /\ audits' = audits \/ (audits' = audits \union {r} /\ pc[r] = "audit" /\ Proceed(r))
      /\ ended' = ended \/ (pc[r] = "update" /\ pc'[r] = "revoke"
                           /\ ended' = [ended EXCEPT ![r] = SessionsOf(job[r].user)])
  BY <1>1, OthersStep
<1>6. /\ sessions' \in [Requests -> Session \union {None}]
      /\ \A s \in Requests :
           \/ /\ sessions'[s] # None => sessions[s] # None
              /\ Live(s)' => Live(s)
           \/ s = r /\ pc[r] = "insert" /\ Insert(r)
  BY <1>1, SessionsStep
<1>7. TypeOK'
  <2>1. SessionsOf(job[r].user) \subseteq Requests
    BY DEF SessionsOf
  <2>2. ended' \in [Requests -> SUBSET Requests]
    BY <1>2, <1>5, <2>1
  <2>3. audits' \subseteq Requests
    BY <1>1, <1>5 DEF TypeOK
  <2>4. QED
    BY <1>1, <1>3, <1>4, <1>5, <1>6, <2>2, <2>3 DEF TypeOK, Stages
\* The stage of r after the step.
<1>8. /\ pc'[r] # "idle" /\ pc'[r] # "authorise"
      /\ pc'[r] = "update" => job[r].kind \in {"change", "own"}
      /\ pc'[r] = "revoke" => pc[r] = "update"
      /\ pc'[r] = "end" => pc[r] = "authorise"
      /\ pc'[r] = "done" /\ reply'[r] = "ok" => pc[r] = "audit" \/ job[r].kind = "read"
      /\ pc[r] = "revoke" => pc'[r] \in {"audit", "done"}
      /\ pc[r] = "insert" => pc'[r] \in {"audit", "done"}
      /\ reply'[r] = "ok" => pc'[r] = "done"
  <2>1. pc[r] \in Stages /\ (reply[r] = "ok" => pc[r] = "done")
    BY <1>1, <1>2 DEF JobSound
  <2>2. QED
    BY <1>3, <1>4, <2>1, AfterSound DEF Stages
<1>9. \A q \in Requests : JobSound(q)'
  <2>1. ASSUME NEW q \in Requests \ {r} PROVE JobSound(q)'
    <3>1. JobSound(q) /\ pc'[q] = pc[q] /\ reply'[q] = reply[q] /\ rights'[q] = rights[q]
      BY <1>1, <1>4, <1>5
    <3>2. \A b \in Requests : pc[b] = "done" => pc'[b] = "done"
      BY <1>3, <1>4
    <3>3. QED
      BY <1>3, <1>5, <3>1, <3>2 DEF JobSound, Changes
  <2>2. JobSound(r)'
    <3>1. JobSound(r)
      BY <1>1
    <3>2. \A b \in Requests : pc[b] = "done" => pc'[b] = "done"
      BY <1>3, <1>4
    <3>3. r \in audits' => reply'[r] = "ok"
      <4>1. r \notin audits
        BY <1>3, <3>1 DEF JobSound
      <4>2. Proceed(r) /\ pc[r] = "audit" => pc'[r] = "done" /\ reply'[r] = "ok"
        BY <1>1, <1>2 DEF Proceed, After, TypeOK, Stages
      <4>3. QED
        BY <1>5, <4>1, <4>2
    <3>4. QED
      BY <1>3, <1>5, <1>8, <3>1, <3>2, <3>3 DEF JobSound, Changes
  <2>3. QED
    BY <2>1, <2>2
<1>10. ASSUME NEW s \in Requests PROVE SessionSound(s)'
  <2>1. CASE s = r
    <3>1. pc[r] # "insert" => (sessions'[r] # None => sessions[r] # None)
      BY <1>6
    <3>2. sessions[r] # None => pc[r] = "audit"
      BY <1>1, <1>3 DEF SessionSound
    <3>3. pc[r] = "audit" => pc'[r] = "done"
      BY <1>4 DEF After
    <3>4. QED
      BY <1>8, <2>1, <3>1, <3>2, <3>3 DEF SessionSound
  <2>2. CASE s # r
    BY <1>1, <1>4, <1>6, <2>2 DEF SessionSound
  <2>3. QED
    BY <2>1, <2>2
\* A session with an end coming stays inserted, and is not made live again.
<1>11. ASSUME NEW s \in Requests, pc[s] \in {"audit", "done"}
       PROVE  pc'[s] \in {"audit", "done"} /\ (Live(s)' => Live(s))
  <2>1. pc[r] = "audit" => pc'[r] = "done"
    BY <1>4 DEF After
  <2>2. QED
    BY <1>3, <1>4, <1>6, <1>11, <2>1
<1>12. ASSUME NEW c \in Requests PROVE EndedSound(c)'
  <2>. USE DEF EndedSound
  <2>1. EndedSound(c) /\ ended[c] \subseteq Requests
    BY <1>1, <1>2
  <2>2. CASE c # r
    <3>1. ended'[c] = ended[c] /\ pc'[c] = pc[c] /\ reply'[c] = reply[c]
      BY <1>2, <1>4, <1>5, <2>2
    <3>2. QED
      BY <1>3, <1>11, <2>1, <3>1
  <2>3. CASE c = r /\ ended' = ended /\ pc[r] # "revoke"
    <3>1. pc'[r] \notin {"revoke", "audit", "done"} => pc[r] \notin {"audit", "done", "revoke"}
      BY <1>3, <1>4, <2>3 DEF After
    <3>2. ASSUME pc'[r] = "audit" \/ reply'[r] = "ok"
          PROVE  pc[r] = "audit" \/ ended[r] = {}
      BY <1>3, <2>1, <2>3
    <3>3. QED
      BY <1>3, <1>11, <2>1, <2>3, <3>1, <3>2
  <2>4. CASE c = r /\ pc[r] = "revoke"
    <3>1. ended' = ended /\ pc'[r] \in {"audit", "done"}
      BY <1>5, <1>8, <2>4
    <3>2. CASE Revoke(r)
      <4>1. \A s \in ended[r] : sessions[s] # None => s \in SessionsOf(job[r].user)
        BY <2>1, <2>4 DEF SessionsOf
      <4>2. \A s \in Requests :
              sessions'[s] = IF s \in SessionsOf(job[r].user)
                             THEN [sessions[s] EXCEPT !.state = "revoked"] ELSE sessions[s]
        BY <3>2 DEF Revoke
      <4>3. \A s \in SessionsOf(job[r].user) :
              sessions[s] \in Session /\ [sessions[s] EXCEPT !.state = "revoked"].state # "live"
        BY <1>2 DEF SessionsOf, Session
      <4>4. \A s \in ended[r] : ~Live(s)'
        <5>1. ASSUME NEW s \in ended[r] PROVE ~Live(s)'
          <6>1. s \in Requests /\ (s \notin SessionsOf(job[r].user) => sessions[s] = None)
            BY <2>1, <2>4, <4>1
          <6>2. CASE s \in SessionsOf(job[r].user)
            <7>1. sessions'[s] = [sessions[s] EXCEPT !.state = "revoked"]
              BY <4>2, <6>1, <6>2
            <7>2. sessions'[s].state # "live"
              BY <4>3, <6>2, <7>1
            <7>3. QED
              BY <7>2 DEF Live
          <6>3. CASE s \notin SessionsOf(job[r].user)
            BY <4>2, <6>1, <6>3 DEF Live
          <6>4. QED
            BY <6>2, <6>3
        <5>2. QED
          BY <5>1
      <4>5. QED
        BY <1>3, <1>11, <2>1, <2>4, <3>1, <4>4
    <3>3. CASE Fail(r)
      <4>1. pc'[r] = "done" /\ reply'[r] = "refused"
        BY <1>1, <3>3 DEF Fail, Refuse, TypeOK
      <4>2. QED
        BY <1>3, <1>11, <2>1, <2>4, <3>1, <4>1
    <3>4. QED
      BY <2>4, <3>2, <3>3 DEF Step, Authorise, Verify, Select, Insert, Count,
         CreateUser, Update, End, Audit
  <2>5. CASE c = r /\ pc[r] = "update" /\ pc'[r] = "revoke"
             /\ ended' = [ended EXCEPT ![r] = SessionsOf(job[r].user)]
    <3>1. ended'[r] = SessionsOf(job[r].user)
      BY <1>2, <2>5
    <3>2. \A s \in SessionsOf(job[r].user) :
            s \in Requests /\ pc[s] \in {"audit", "done"} /\ job[s].user = job[r].user
      BY <1>1 DEF SessionsOf, SessionSound
    <3>3. reply'[r] # "ok"
      BY <1>8, <2>5
    <3>4. QED
      BY <1>3, <1>11, <2>5, <3>1, <3>2, <3>3
  <2>6. QED
    BY <1>5, <2>2, <2>3, <2>4, <2>5
<1>13. QED
  BY <1>7, <1>9, <1>10, <1>12 DEF Inv

LEMMA ArriveSound ==
  ASSUME Inv, NEW r \in Requests, NEW j \in Job, Arrive(r, j),
         j.kind \in {"change", "own"} => j.field \in Fields /\ j.value \in ValuesOf(j.field),
         j.kind \notin {"login", "bootstrap"} => j.by \in Requests /\ reply[j.by] = "ok"
  PROVE  Inv'
<1>1. TypeOK /\ \A q \in Requests : JobSound(q) /\ SessionSound(q) /\ EndedSound(q)
  BY DEF Inv
<1>2. /\ pc \in [Requests -> Stages] /\ job \in [Requests -> Job \union {NoJob}]
      /\ before \in [Requests -> SUBSET Requests]
  BY <1>1 DEF TypeOK, Stages
<1>3. /\ pc[r] = "idle" /\ job' = [job EXCEPT ![r] = j]
      /\ pc' = [pc EXCEPT ![r] = First(j.kind)]
      /\ before' = [before EXCEPT ![r] = {q \in Requests : reply[q] = "ok"}]
      /\ UNCHANGED <<accounts, sessions, audits, rights, reply, ended>>
  BY DEF Arrive, tables
<1>4. /\ First(j.kind) \in {"verify", "count", "authorise"}
      /\ First(j.kind) = "authorise" => j.kind \notin {"login", "bootstrap"}
  BY DEF First
<1>5. TypeOK'
  <2>1. pc' \in [Requests -> Stages] /\ job' \in [Requests -> Job \union {NoJob}]
        /\ before' \in [Requests -> SUBSET Requests]
    BY <1>2, <1>3, <1>4 DEF Stages
  <2>2. QED
    BY <1>1, <1>3, <2>1 DEF TypeOK, Stages
<1>6. /\ job'[r] = j /\ pc'[r] = First(j.kind)
      /\ \A q \in Requests \ {r} : job'[q] = job[q] /\ pc'[q] = pc[q]
  BY <1>2, <1>3
<1>7. \A b \in Requests : pc[b] = "done" => pc'[b] = "done"
  BY <1>3, <1>6
<1>8. ASSUME NEW q \in Requests PROVE JobSound(q)'
  <2>1. CASE q = r
    <3>1. reply[r] # "ok" /\ r \notin audits
      BY <1>1, <1>3 DEF JobSound
    <3>2. First(j.kind) = "authorise" => j.by \in Requests /\ pc'[j.by] = "done"
      BY <1>1, <1>4, <1>7 DEF JobSound
    <3>3. QED
      BY <1>3, <1>4, <1>6, <2>1, <3>1, <3>2 DEF JobSound, Changes
  <2>2. CASE q # r
    BY <1>1, <1>3, <1>6, <1>7, <2>2 DEF JobSound, Changes
  <2>3. QED
    BY <2>1, <2>2
<1>9. ASSUME NEW q \in Requests PROVE SessionSound(q)'
  BY <1>1, <1>3, <1>6 DEF SessionSound
<1>10. ASSUME NEW c \in Requests PROVE EndedSound(c)'
  <2>1. EndedSound(c) /\ ended'[c] = ended[c] /\ ended[c] \subseteq Requests
    BY <1>1, <1>3 DEF TypeOK
  <2>2. \A s \in ended[c] : s # r /\ pc'[s] = pc[s] /\ job'[s] = job[s]
                           /\ (Live(s)' <=> Live(s))
    BY <1>3, <1>6, <2>1 DEF EndedSound, Live
  <2>3. CASE c = r
    BY <1>3, <1>4, <1>6, <2>1, <2>3 DEF EndedSound
  <2>4. CASE c # r
    BY <1>3, <1>6, <2>1, <2>2, <2>4 DEF EndedSound
  <2>5. QED
    BY <2>3, <2>4
<1>11. QED
  BY <1>5, <1>8, <1>9, <1>10 DEF Inv

\* Each arrival is a well-formed request.
LEMMA ArrivalIsJob ==
  ASSUME Inv, NEW r \in Requests,
         Login(r) \/ Bootstrap(r) \/ Create(r) \/ Change(r) \/ ChangePassword(r)
         \/ Logout(r) \/ Read(r)
  PROVE  \E j \in Job :
           /\ Arrive(r, j)
           /\ j.kind \in {"change", "own"} => j.field \in Fields /\ j.value \in ValuesOf(j.field)
           /\ j.kind \notin {"login", "bootstrap"} => j.by \in Requests /\ reply[j.by] = "ok"
           /\ j.kind \in {"login", "bootstrap"} => j.by = None
<1>1. TypeOK /\ \A q \in Requests : JobSound(q)
  BY DEF Inv
<1>2. \A s \in Requests : Known(s) => reply[s] = "ok" /\ job[s].user \in Users
  BY <1>1 DEF Known, JobSound, Job
<1>3. QED
  <2>. DEFINE Plain(k, u, s, p) == [kind |-> k, user |-> u, by |-> s, given |-> p,
                                    field |-> None, value |-> None]
  <2>a. \A k \in Kinds, u \in Users, s \in Requests \union {None}, p \in Passwords \union {None} :
          Plain(k, u, s, p) \in Job
    BY DEF Job
  <2>b. \A k, u, s, p : Plain(k, u, s, p).kind = k /\ Plain(k, u, s, p).by = s
    OBVIOUS
  <2>c. Kinds = {"login", "bootstrap", "create", "change", "own", "logout", "read"}
    BY DEF Kinds
  <2>1. CASE Login(r) \/ Bootstrap(r)
    <3>1. PICK k \in {"login", "bootstrap"}, u \in Users, p \in Passwords \union {None} :
            Arrive(r, Plain(k, u, None, p))
      BY <2>1 DEF Login, Bootstrap
    <3>. HIDE DEF Plain
    <3>2. QED
      BY <2>a, <2>b, <2>c, <3>1
  <2>2. CASE Create(r) \/ Logout(r) \/ Read(r)
    <3>1. PICK k \in {"create", "logout", "read"}, u \in Users, s \in Requests :
            Known(s) /\ Arrive(r, Plain(k, u, s, None))
      BY <1>2, <2>2 DEF Create, Logout, Read
    <3>. HIDE DEF Plain
    <3>2. QED
      BY <1>2, <2>a, <2>b, <2>c, <3>1
  <2>3. CASE Change(r)
    <3>1. \A f \in Fields : ValuesOf(f) \subseteq Values
      BY DEF Values
    <3>2. QED
      BY <1>2, <2>3, <3>1 DEF Change, Job, Kinds
  <2>4. CASE ChangePassword(r)
    <3>1. "password" \in Fields /\ ValuesOf("password") = Passwords /\ Passwords \subseteq Values
      BY DEF Fields, Values, ValuesOf
    <3>2. QED
      BY <1>2, <2>4, <3>1 DEF ChangePassword, Job, Kinds
  <2>5. QED
    BY <2>1, <2>2, <2>3, <2>4

LEMMA ArrivalSound ==
  ASSUME Inv, NEW r \in Requests,
         Login(r) \/ Bootstrap(r) \/ Create(r) \/ Change(r) \/ ChangePassword(r)
         \/ Logout(r) \/ Read(r)
  PROVE  Inv'
BY ArrivalIsJob, ArriveSound

LEMMA ExpireSound ==
  ASSUME Inv, NEW s \in Requests, Expire(s)
  PROVE  Inv'
<1>1. TypeOK /\ \A q \in Requests : JobSound(q) /\ SessionSound(q) /\ EndedSound(q)
  BY DEF Inv
<1>2. UNCHANGED <<accounts, audits, job, pc, rights, reply, before, ended>>
  BY DEF Expire
<1>3. /\ sessions' \in [Requests -> Session \union {None}]
      /\ \A q \in Requests : (sessions'[q] # None => sessions[q] # None)
                           /\ (Live(q)' => Live(q))
  <2>1. Expire(s) => ~Insert(s)
    BY <1>1 DEF Insert, SessionSound, Expire
  <2>2. QED
    BY <1>1, <2>1, SessionsStep
<1>4. TypeOK'
  BY <1>1, <1>2, <1>3 DEF TypeOK
<1>5. \A q \in Requests : JobSound(q)' /\ SessionSound(q)'
  BY <1>1, <1>2, <1>3 DEF JobSound, SessionSound, Changes
<1>6. \A c \in Requests : EndedSound(c)'
  <2>1. \A c \in Requests : ended[c] \subseteq Requests
    BY <1>1 DEF TypeOK
  <2>2. QED
    BY <1>1, <1>2, <1>3, <2>1 DEF EndedSound
<1>7. QED
  BY <1>4, <1>5, <1>6 DEF Inv

LEMMA InitSound == Init => Inv
<1>1. SUFFICES ASSUME Init PROVE Inv
  OBVIOUS
<1>2. PICK u \in Users, p \in Passwords :
        /\ job = [r \in Requests |-> IF r \in Past THEN PastLogin(r, u, p) ELSE NoJob]
        /\ \/ /\ accounts = [v \in Users |-> NoAccount]
              /\ sessions = [r \in Requests |-> None]
              /\ rights = [r \in Requests |-> None]
              /\ reply = [r \in Requests |-> IF r \in Past THEN "refused" ELSE "none"]
           \/ /\ accounts = [v \in Users |-> IF v = u THEN Administrator(p) ELSE NoAccount]
              /\ sessions = [r \in Requests |-> IF r \in Past THEN LiveSession("admin") ELSE None]
              /\ rights = [r \in Requests |-> IF r \in Past THEN "admin" ELSE None]
              /\ reply = [r \in Requests |-> IF r \in Past THEN "ok" ELSE "none"]
  BY <1>1 DEF Init
<1>3. /\ pc = [r \in Requests |-> IF r \in Past THEN "done" ELSE "idle"]
      /\ audits = {} /\ before = [r \in Requests |-> {}] /\ ended = [r \in Requests |-> {}]
  BY <1>1 DEF Init
<1>4. /\ PastLogin(1, u, p) \in Job /\ \A r : PastLogin(r, u, p) = PastLogin(1, u, p)
      /\ PastLogin(1, u, p).kind = "login"
  BY DEF PastLogin, Job, Kinds
<1>5. Administrator(p) \in Account
  <2>1. \A f \in Fields : Administrator(p)[f] \in ValuesOf(f)
    BY RolesAssumption DEF Administrator, Fields, ValuesOf
  <2>2. Administrator(p) \in [Fields -> Values]
    BY <2>1 DEF Administrator, Values
  <2>3. QED
    BY <2>1, <2>2 DEF Account
<1>6. LiveSession("admin") \in Session
  BY RolesAssumption DEF LiveSession, Session
<1>7. job \in [Requests -> Job \union {NoJob}]
  BY <1>2, <1>4
<1>8. /\ accounts \in [Users -> Account \union {NoAccount}]
      /\ sessions \in [Requests -> Session \union {None}]
      /\ rights \in [Requests -> Roles \union {None}]
      /\ reply \in [Requests -> {"none", "ok", "refused"}]
  BY <1>2, <1>5, <1>6, RolesAssumption
<1>9. TypeOK
  BY <1>3, <1>7, <1>8 DEF TypeOK
<1>10. ASSUME NEW r \in Requests PROVE JobSound(r) /\ SessionSound(r) /\ EndedSound(r)
  <2>1. job[r].kind \notin {"change", "own"}
    BY <1>2, <1>4, NoneAssumption DEF NoJob, Kinds
  <2>2. CASE r \in Past
    <3>1. job[r] \in Job /\ pc[r] = "done"
      BY <1>2, <1>3, <1>4, <2>2
    <3>2. QED
      BY <1>3, <2>1, <3>1 DEF JobSound, SessionSound, EndedSound, Changes
  <2>3. CASE r \notin Past
    <3>1. pc[r] = "idle" /\ sessions[r] = None /\ reply[r] = "none"
      BY <1>2, <1>3, <2>3
    <3>2. QED
      BY <1>3, <2>1, <3>1 DEF JobSound, SessionSound, EndedSound, Changes
  <2>4. QED
    BY <2>2, <2>3
<1>11. QED
  BY <1>9, <1>10 DEF Inv

LEMMA NextSound == Inv /\ [Next]_vars => Inv'
<1>1. SUFFICES ASSUME Inv, [Next]_vars PROVE Inv'
  OBVIOUS
<1>2. ASSUME NEW r \in Requests, Step(r) PROVE Inv'
  BY <1>1, <1>2, StepSound
<1>3. ASSUME NEW r \in Requests,
             Login(r) \/ Bootstrap(r) \/ Create(r) \/ Change(r) \/ ChangePassword(r)
             \/ Logout(r) \/ Read(r)
      PROVE  Inv'
  BY <1>1, <1>3, ArrivalSound
<1>4. ASSUME NEW r \in Requests, Expire(r) PROVE Inv'
  BY <1>1, <1>4, ExpireSound
<1>5. CASE UNCHANGED vars
  BY <1>1, <1>5 DEF Inv, TypeOK, JobSound, SessionSound, EndedSound, Live, Changes, vars, tables
<1>6. QED
  BY <1>1, <1>2, <1>3, <1>4, <1>5 DEF Next

-----------------------------------------------------------------------------
(* What requests see of each other *)

\* The transactions of an endpoint.
StagesOf(kind) ==
  CASE kind = "login"     -> {"verify", "select", "insert", "audit", "done"}
    [] kind = "bootstrap" -> {"count", "create", "audit", "done"}
    [] kind = "create"    -> {"authorise", "create", "audit", "done"}
    [] kind = "change"    -> {"authorise", "update", "revoke", "audit", "done"}
    [] kind = "own"       -> {"authorise", "verify", "update", "revoke", "audit", "done"}
    [] kind = "logout"    -> {"authorise", "end", "audit", "done"}
    [] kind = "read"      -> {"authorise", "done"}

\* A request keeps to its endpoint, under a session whose login was over.
FlowSound(r) ==
  /\ pc[r] = "idle" => job[r] = NoJob /\ rights[r] = None
  /\ pc[r] # "idle" => pc[r] \in StagesOf(job[r].kind)
  /\ pc[r] # "idle" /\ job[r].by # None => pc[job[r].by] = "done"
  /\ pc[r] # "idle" /\ job[r].kind = "login" => job[r].by = None
  /\ \A c \in before[r] : reply[c] = "ok"

\* The request has created its account.
Made(r) ==
  job[r].kind \in {"bootstrap", "create"} /\ (pc[r] = "audit" \/ reply[r] = "ok")

MadeSound(r) ==
  Made(r) =>
    /\ accounts[job[r].user] # NoAccount
    /\ \A q \in Requests \ {r} : Made(q) => job[q].user # job[r].user

\* The request has changed its account, and the change stays when it is the only one.
Applied(c) == Changes(c) /\ (pc[c] \in {"revoke", "audit"} \/ reply[c] = "ok")

AppliedSound(c) ==
  Applied(c) =>
    /\ accounts[job[c].user] # NoAccount
    /\ OnlyChange(c) => accounts[job[c].user][job[c].field] = job[c].value

\* The password of a login has been verified.
Verified(r) ==
  job[r].kind = "login" /\ (pc[r] \in {"select", "insert", "audit"} \/ rights[r] # None)

\* What request r found of a change c that was answered before it arrived.
SeenSound(r, c) ==
  c \in before[r] /\ Changes(c) /\ OnlyChange(c) =>
    /\ rights[r] # None /\ Actor(r) = job[c].user =>
         /\ job[c].field = "role" => rights[r] = job[c].value
         /\ job[c].field = "state" => job[c].value = "active"
    /\ Verified(r) /\ job[r].user = job[c].user /\ job[c].field = "password" =>
         job[r].given = job[c].value

SeenInv ==
  /\ \A r \in Requests : FlowSound(r) /\ MadeSound(r) /\ AppliedSound(r)
  /\ \A r, c \in Requests : SeenSound(r, c)

LEMMA AfterStays ==
  ASSUME NEW kind \in Kinds, NEW step \in StagesOf(kind), step # "done"
  PROVE  /\ After(kind, step) \in StagesOf(kind)
         /\ After(kind, step) = "audit" => step \in {"insert", "create", "revoke", "end"}
         /\ After(kind, step) = "done" => step = "audit" \/ kind = "read"
         /\ After(kind, step) = "select" => step = "verify"
         /\ After(kind, step) = "insert" => step = "select"
         /\ After(kind, step) = "revoke" => step = "update"
         /\ kind \in {"change", "own"} /\ step \in {"revoke", "audit"} =>
              After(kind, step) \in {"audit", "done"}
         /\ step \in {"create", "audit"} => After(kind, step) \in {"audit", "done"}
<1>1. kind \in {"login", "bootstrap", "create", "change", "own", "logout", "read"}
  BY DEF Kinds
<1>2. CASE kind = "login"
  BY <1>2 DEF StagesOf, After
<1>3. CASE kind = "bootstrap"
  BY <1>3 DEF StagesOf, After
<1>4. CASE kind = "create"
  BY <1>4 DEF StagesOf, After
<1>5. CASE kind = "change"
  BY <1>5 DEF StagesOf, After
<1>6. CASE kind = "own"
  BY <1>6 DEF StagesOf, After
<1>7. CASE kind = "logout"
  BY <1>7 DEF StagesOf, After
<1>8. CASE kind = "read"
  BY <1>8 DEF StagesOf, After
<1>9. QED
  BY <1>1, <1>2, <1>3, <1>4, <1>5, <1>6, <1>7, <1>8

\* Which kinds of request get where.
LEMMA StageKinds ==
  ASSUME NEW kind \in Kinds
  PROVE  /\ "create" \in StagesOf(kind) => kind \in {"bootstrap", "create"}
         /\ kind \in {"bootstrap", "create"} =>
              StagesOf(kind) = {"count", "create", "audit", "done"}
              \/ StagesOf(kind) = {"authorise", "create", "audit", "done"}
         /\ kind \in {"change", "own"} =>
              StagesOf(kind) \subseteq {"authorise", "verify", "update", "revoke", "audit", "done"}
         /\ kind = "login" => StagesOf(kind) = {"verify", "select", "insert", "audit", "done"}
         /\ "select" \in StagesOf(kind) => kind = "login"
         /\ "authorise" \in StagesOf(kind) => kind # "login"
         /\ StagesOf(kind) \subseteq Stages \ {"idle"}
         /\ First(kind) \in StagesOf(kind) /\ First(kind) # "audit"
BY DEF Kinds, StagesOf, Stages, First

\* An account is never none.
LEMMA AccountIsSome == \A a \in Account : a # NoAccount /\ a \in [Fields -> Values]
<1>1. \A a \in Account : a \in [Fields -> Values] /\ a["state"] \in {"active", "disabled"}
  BY DEF Account, Fields, ValuesOf
<1>2. NoAccount["state"] = None /\ None \notin {"active", "disabled"}
  BY NoneAssumption DEF NoAccount, Fields, Values, ValuesOf
<1>3. QED
  BY <1>1, <1>2

\* What a step does to the accounts: nothing, or it creates that of its request, or
\* it sets one field of it.
LEMMA AccountsStep ==
  ASSUME Inv, NEW r \in Requests, Step(r), NEW u \in Users
  PROVE  \/ accounts'[u] = accounts[u]
         \/ pc[r] = "create" /\ u = job[r].user /\ accounts[u] = NoAccount
            /\ accounts'[u] \in Account
         \/ pc[r] = "update" /\ u = job[r].user /\ accounts[u] # NoAccount
            /\ accounts'[u] \in Account
            /\ \A f \in Fields :
                 accounts'[u][f] = IF f = job[r].field THEN job[r].value ELSE accounts[u][f]
<1>1. /\ accounts \in [Users -> Account \union {NoAccount}] /\ TypeOK /\ JobSound(r)
      /\ \A q \in Requests : JobSound(q)
  BY DEF Inv, TypeOK
<1>2. job[r].user \in Users
  BY <1>1, StepMoves DEF Busy, JobSound, Job
<1>3. CASE CreateUser(r)
  <2>1. pc[r] = "create"
    BY <1>3 DEF CreateUser
  <2>2. \/ accounts' = accounts
        \/ accounts[job[r].user] = NoAccount
           /\ \E a \in Account : accounts' = [accounts EXCEPT ![job[r].user] = a]
    BY <1>3 DEF CreateUser
  <2>3. QED
    BY <1>1, <1>2, <2>1, <2>2
<1>4. CASE Update(r)
  <2>1. pc[r] = "update" /\ job[r].field \in Fields
    BY <1>1, <1>4 DEF Update, JobSound
  <2>2. CASE accounts[job[r].user] = NoAccount
    BY <1>4, <2>2 DEF Update
  <2>3. CASE accounts[job[r].user] # NoAccount
    <3>. DEFINE a == accounts[job[r].user]
                b == [a EXCEPT ![job[r].field] = job[r].value]
    <3>1. accounts' = [accounts EXCEPT ![job[r].user] = b]
      BY <1>4, <2>3 DEF Update
    <3>2. a \in Account /\ a \in [Fields -> Values]
      BY <1>1, <1>2, <2>3, AccountIsSome
    <3>3. \A f \in Fields : b[f] = IF f = job[r].field THEN job[r].value ELSE a[f]
      BY <2>1, <3>2
    <3>. HIDE DEF b
    <3>4. accounts'[job[r].user] = b
          /\ \A v \in Users \ {job[r].user} : accounts'[v] = accounts[v]
      BY <1>1, <1>2, <3>1
    <3>5. accounts' \in [Users -> Account \union {NoAccount}]
      BY <1>1, OthersStep
    <3>6. b # NoAccount
      <4>1. b["state"] # None
        <5>1. "state" \in Fields /\ a["state"] \in {"active", "disabled"}
          BY <3>2 DEF Account, Fields, ValuesOf
        <5>2. job[r].field = "state" => job[r].value \in {"active", "disabled"}
          BY <1>1, <2>1 DEF JobSound, ValuesOf
        <5>3. None \notin {"active", "disabled"}
          BY NoneAssumption DEF Values, Fields, ValuesOf
        <5>4. QED
          BY <3>3, <5>1, <5>2, <5>3
      <4>2. NoAccount["state"] = None
        BY DEF NoAccount, Fields
      <4>3. QED
        BY <4>1, <4>2
    <3>7. accounts'[job[r].user] \in Account
      BY <1>2, <3>4, <3>5, <3>6
    <3>8. QED
      BY <2>1, <2>3, <3>3, <3>4, <3>7
  <2>4. QED
    BY <2>2, <2>3
<1>5. CASE ~(CreateUser(r) \/ Update(r))
  <2>1. accounts' = accounts
    BY <1>5 DEF Step, Authorise, Verify, Select, Insert, Count, Revoke, End, Audit, Fail, tables
  <2>2. QED
    BY <2>1
<1>6. QED
  BY <1>3, <1>4, <1>5

\* A request is let in with the role its account has, while that is active.
LEMMA RightsStep ==
  ASSUME Inv, NEW r \in Requests, FlowSound(r), Step(r)
  PROVE  \/ rights'[r] = rights[r]
         \/ /\ pc[r] \in {"authorise", "select"}
            /\ accounts[Actor(r)]["state"] = "active"
            /\ rights'[r] = accounts[Actor(r)]["role"]
<1>1. rights \in [Requests -> Roles \union {None}] /\ JobSound(r)
  BY DEF Inv, TypeOK
<1>2. CASE Authorise(r)
  <2>1. job[r].by \in Requests /\ pc[r] = "authorise"
    BY <1>1, <1>2 DEF Authorise, JobSound
  <2>2. Actor(r) = job[job[r].by].user
    BY <2>1, NoneAssumption DEF Actor
  <2>3. \/ rights' = rights
        \/ /\ Usable(job[r].by)
           /\ rights' = [rights EXCEPT ![r] = accounts[job[job[r].by].user]["role"]]
    BY <1>2 DEF Authorise
  <2>4. Usable(job[r].by) => accounts[job[job[r].by].user]["state"] = "active"
    BY DEF Usable
  <2>5. QED
    BY <1>1, <2>1, <2>2, <2>3, <2>4
<1>3. CASE Select(r)
  <2>1. pc[r] = "select" /\ job[r] \in Job
    BY <1>1, <1>3 DEF Select, JobSound
  <2>2. job[r].kind \in Kinds
    BY <2>1 DEF Job
  <2>3. job[r].kind = "login" /\ job[r].by = None
    BY <2>1, <2>2, StageKinds DEF FlowSound
  <2>4. Actor(r) = job[r].user
    BY <2>3 DEF Actor
  <2>5. \/ rights' = rights
        \/ /\ accounts[job[r].user]["state"] = "active"
           /\ rights' = [rights EXCEPT ![r] = accounts[job[r].user]["role"]]
    BY <1>3 DEF Select
  <2>6. QED
    BY <1>1, <2>1, <2>4, <2>5
<1>4. CASE ~(Authorise(r) \/ Select(r))
  <2>1. rights' = rights
    BY <1>4 DEF Step, Verify, Insert, Count, CreateUser, Update, Revoke, End, Audit, Fail
  <2>2. QED
    BY <2>1
<1>5. QED
  BY <1>2, <1>3, <1>4

\* Only the transaction that is next moves a request on; any may fail.
LEMMA StepGoesOn ==
  ASSUME Inv, NEW r \in Requests, FlowSound(r), Step(r)
  PROVE  /\ job[r] \in Job /\ job[r].kind \in Kinds /\ job[r].user \in Users
         /\ pc[r] \in StagesOf(job[r].kind) /\ pc[r] # "done" /\ pc[r] # "idle" /\ reply[r] # "ok"
         /\ \/ pc'[r] = After(job[r].kind, pc[r])
               /\ reply'[r] = IF pc'[r] = "done" THEN "ok" ELSE reply[r]
            \/ pc'[r] = "done" /\ reply'[r] = "refused"
         /\ \A q \in Requests \ {r} : pc'[q] = pc[q] /\ reply'[q] = reply[q] /\ rights'[q] = rights[q]
         /\ job' = job /\ before' = before
         /\ pc'[r] \in StagesOf(job[r].kind) \ {"idle"}
<1>1. TypeOK /\ JobSound(r) /\ \A q \in Requests : JobSound(q)
  BY DEF Inv
<1>2. (Proceed(r) \/ Refuse(r)) /\ pc[r] \notin {"idle", "done"} /\ job' = job /\ before' = before
  BY StepMoves DEF Busy
<1>3. job[r] \in Job /\ job[r].kind \in Kinds /\ job[r].user \in Users
  BY <1>1, <1>2 DEF JobSound, Job
<1>4. /\ \A q \in Requests \ {r} : pc'[q] = pc[q] /\ reply'[q] = reply[q]
      /\ \/ pc'[r] = After(job[r].kind, pc[r])
            /\ reply'[r] = IF pc'[r] = "done" THEN "ok" ELSE reply[r]
         \/ pc'[r] = "done" /\ reply'[r] = "refused"
  BY <1>1, <1>2, MoveSound
<1>5. \A q \in Requests \ {r} : rights'[q] = rights[q]
  BY <1>1, OthersStep
<1>6. pc[r] \in StagesOf(job[r].kind) /\ reply[r] # "ok"
  BY <1>1, <1>2 DEF FlowSound, JobSound
<1>7. "done" \in StagesOf(job[r].kind) /\ "idle" \notin StagesOf(job[r].kind)
  BY <1>3 DEF StagesOf, Kinds
<1>8. pc'[r] \in StagesOf(job[r].kind)
  BY <1>2, <1>3, <1>4, <1>6, <1>7, AfterStays
<1>9. QED
  BY <1>2, <1>3, <1>4, <1>5, <1>6, <1>7, <1>8

\* A login goes past the password only when it is that of the account.
LEMMA VerifiedStep ==
  ASSUME Inv, NEW r \in Requests, FlowSound(r), Step(r), Verified(r)', ~Verified(r)
  PROVE  job[r].given = accounts[job[r].user]["password"]
<1>1. /\ job'[r] = job[r] /\ job[r].kind = "login" /\ pc[r] \in StagesOf("login") /\ pc[r] # "done"
      /\ job[r].kind \in Kinds
      /\ pc'[r] = After("login", pc[r]) \/ pc'[r] = "done"
  BY StepGoesOn DEF Verified
<1>2. pc[r] = "verify"
  BY <1>1 DEF Verified, StagesOf
<1>3. rights[r] = None
  BY <1>1 DEF Verified
<1>4. rights'[r] = None
  BY <1>2, <1>3, RightsStep
<1>5. pc'[r] # "done"
  BY <1>4 DEF Verified
<1>6. Verify(r)
  <2>1. ~Fail(r)
    <3>1. pc \in [Requests -> Stages]
      BY DEF Inv, TypeOK, Stages
    <3>2. Fail(r) => pc'[r] = "done"
      BY <3>1 DEF Fail, Refuse
    <3>3. QED
      BY <1>5, <3>2
  <2>2. QED
    BY <1>2, <2>1 DEF Step, Authorise, Select, Insert, Count, CreateUser, Update, Revoke, End, Audit
<1>7. ~Refuse(r)
  <2>1. pc \in [Requests -> Stages]
    BY DEF Inv, TypeOK, Stages
  <2>2. QED
    BY <1>5, <2>1 DEF Refuse
<1>8. QED
  BY <1>6, <1>7 DEF Verify


\* The step of r keeps what is known of where requests are.
LEMMA FlowStep ==
  ASSUME Inv, SeenInv, NEW r \in Requests, Step(r), NEW q \in Requests
  PROVE  FlowSound(q)'
<1>1. FlowSound(r) /\ FlowSound(q) /\ JobSound(q)
  BY DEF SeenInv, Inv
<1>2. /\ pc[r] # "done" /\ pc[r] # "idle" /\ reply[r] # "ok"
      /\ \A p \in Requests \ {r} : pc'[p] = pc[p] /\ reply'[p] = reply[p] /\ rights'[p] = rights[p]
      /\ job' = job /\ before' = before
      /\ pc'[r] \in StagesOf(job[r].kind) \ {"idle"}
  BY <1>1, StepGoesOn
<1>3. \A p \in Requests : pc[p] = "done" => pc'[p] = "done"
  BY <1>2
<1>4. before[q] \subseteq Requests
  BY DEF Inv, TypeOK
<1>5. \A c \in before'[q] : reply'[c] = "ok"
  BY <1>1, <1>2, <1>4 DEF FlowSound
<1>6. pc[q] # "idle" => job[q] \in Job
  BY <1>1 DEF JobSound
<1>7. pc'[q] # "idle" /\ job'[q].by # None => pc'[job[q].by] = "done"
  <2>1. pc[q] # "idle" /\ job[q].by # None => job[q].by \in Requests /\ pc[job[q].by] = "done"
    BY <1>1, <1>6 DEF FlowSound, Job
  <2>2. pc'[q] # "idle" => pc[q] # "idle"
    BY <1>2
  <2>3. QED
    BY <1>2, <1>3, <2>1, <2>2
<1>8. QED
  <2>1. CASE q = r
    BY <1>1, <1>2, <1>5, <1>7, <2>1 DEF FlowSound
  <2>2. CASE q # r
    <3>1. pc'[q] = pc[q] /\ rights'[q] = rights[q] /\ job'[q] = job[q]
      BY <1>2, <2>2
    <3>2. QED
      BY <1>1, <1>2, <1>5, <1>7, <3>1 DEF FlowSound
  <2>3. QED
    BY <2>1, <2>2

\* An account that is there stays.
LEMMA AccountsStay ==
  ASSUME Inv, NEW r \in Requests, Step(r), NEW u \in Users, accounts[u] # NoAccount
  PROVE  accounts'[u] # NoAccount
BY AccountsStep, AccountIsSome

\* An account is created by one request at most: the user name is the primary key.
LEMMA MadeStep ==
  ASSUME Inv, SeenInv, NEW r \in Requests, Step(r), NEW q \in Requests
  PROVE  MadeSound(q)'
<1>1. FlowSound(r) /\ \A p \in Requests : MadeSound(p)
  BY DEF SeenInv
<1>2. /\ job[r] \in Job /\ job[r].kind \in Kinds /\ job[r].user \in Users
      /\ pc[r] \in StagesOf(job[r].kind) /\ pc[r] # "done" /\ reply[r] # "ok"
      /\ \/ pc'[r] = After(job[r].kind, pc[r])
            /\ reply'[r] = IF pc'[r] = "done" THEN "ok" ELSE reply[r]
         \/ pc'[r] = "done" /\ reply'[r] = "refused"
      /\ \A p \in Requests \ {r} : pc'[p] = pc[p] /\ reply'[p] = reply[p]
      /\ job' = job
  BY <1>1, StepGoesOn
<1>3. \A p \in Requests : Made(p) => job[p].user \in Users
  <2>1. \A p \in Requests : JobSound(p) /\ (pc[p] # "idle" => job[p] \in Job)
    BY DEF Inv, JobSound
  <2>2. \A p \in Requests : Made(p) => pc[p] # "idle"
    BY <2>1 DEF Made, JobSound
  <2>3. QED
    BY <2>1, <2>2 DEF Job
<1>4. \A p \in Requests \ {r} : Made(p)' <=> Made(p)
  BY <1>2 DEF Made
\* r is the one to create it.
<1>5. ASSUME Made(r)', ~Made(r)
      PROVE  /\ accounts[job[r].user] = NoAccount
             /\ accounts'[job[r].user] # NoAccount
  <2>1. job[r].kind \in {"bootstrap", "create"} /\ pc[r] # "audit"
    BY <1>2, <1>5 DEF Made
  <2>2. pc[r] = "create" /\ pc'[r] = "audit"
    <3>1. pc'[r] = "audit" \/ reply'[r] = "ok"
      BY <1>2, <1>5 DEF Made
    <3>2. pc'[r] = After(job[r].kind, pc[r]) /\ (pc'[r] = "audit" \/ pc'[r] = "done")
      BY <1>2, <3>1
    <3>3. pc[r] \in {"insert", "create", "revoke", "end"}
      BY <1>2, <2>1, <3>2, AfterStays
    <3>4. pc[r] \in {"count", "authorise", "create", "audit", "done"}
      BY <1>2, <2>1, StageKinds
    <3>5. pc[r] = "create"
      BY <3>3, <3>4
    <3>6. After(job[r].kind, "create") = "audit"
      BY DEF After
    <3>7. QED
      BY <3>2, <3>5, <3>6
  <2>3. CreateUser(r) /\ ~Refuse(r)
    <3>1. pc \in [Requests -> Stages]
      BY DEF Inv, TypeOK, Stages
    <3>2. ~Refuse(r)
      BY <2>2, <3>1 DEF Refuse
    <3>3. QED
      BY <2>2, <3>2 DEF Step, Authorise, Verify, Select, Insert, Count, Update, Revoke, End,
         Audit, Fail
  <2>4. /\ accounts[job[r].user] = NoAccount
        /\ \E a \in Account : accounts' = [accounts EXCEPT ![job[r].user] = a]
    BY <2>3 DEF CreateUser
  <2>5. accounts \in [Users -> Account \union {NoAccount}]
    BY DEF Inv, TypeOK
  <2>6. QED
    BY <1>2, <2>4, <2>5, AccountIsSome
<1>6. ASSUME NEW p \in Requests, Made(p)
      PROVE  accounts[job[p].user] # NoAccount /\ accounts'[job[p].user] # NoAccount
  BY <1>1, <1>3, <1>6, AccountsStay DEF MadeSound
<1>7. CASE q = r
  <2>1. CASE Made(r)
    BY <1>1, <1>2, <1>4, <1>6, <1>7, <2>1 DEF MadeSound
  <2>2. CASE Made(r)' /\ ~Made(r)
    BY <1>2, <1>4, <1>5, <1>6, <1>7, <2>2 DEF MadeSound
  <2>3. QED
    BY <1>7, <2>1, <2>2 DEF MadeSound
<1>8. CASE q # r
  <2>1. CASE Made(r)' => Made(r)
    BY <1>1, <1>2, <1>4, <1>6, <1>8, <2>1 DEF MadeSound
  <2>2. CASE Made(r)' /\ ~Made(r)
    BY <1>1, <1>2, <1>4, <1>5, <1>6, <1>8, <2>2 DEF MadeSound
  <2>3. QED
    BY <2>1, <2>2
<1>9. QED
  BY <1>7, <1>8

\* A change stays until another one of the same field.
LEMMA AppliedStep ==
  ASSUME Inv, SeenInv, NEW r \in Requests, Step(r), NEW c \in Requests
  PROVE  AppliedSound(c)'
<1>1. FlowSound(r) /\ AppliedSound(c) /\ JobSound(c) /\ JobSound(r)
  BY DEF SeenInv, Inv
<1>2. /\ job[r] \in Job /\ job[r].kind \in Kinds /\ job[r].user \in Users
      /\ pc[r] \in StagesOf(job[r].kind) /\ pc[r] # "done" /\ reply[r] # "ok"
      /\ \/ pc'[r] = After(job[r].kind, pc[r])
            /\ reply'[r] = IF pc'[r] = "done" THEN "ok" ELSE reply[r]
         \/ pc'[r] = "done" /\ reply'[r] = "refused"
      /\ \A p \in Requests \ {r} : pc'[p] = pc[p] /\ reply'[p] = reply[p]
      /\ job' = job
  BY <1>1, StepGoesOn
<1>3. OnlyChange(c)' = OnlyChange(c) /\ Changes(c)' = Changes(c)
  BY <1>2 DEF OnlyChange, Changes
<1>4. ASSUME Applied(c)
      PROVE  /\ accounts'[job[c].user] # NoAccount
             /\ OnlyChange(c) => accounts'[job[c].user][job[c].field] = job[c].value
  <2>1. pc[c] # "idle"
    BY <1>1, <1>4 DEF Applied, JobSound
  <2>2. job[c].user \in Users /\ job[c].field \in Fields
    BY <1>1, <1>4, <2>1 DEF JobSound, Job, Applied
  <2>3. accounts[job[c].user] # NoAccount
    BY <1>1, <1>4 DEF AppliedSound
  <2>4. accounts'[job[c].user] # NoAccount
    BY <2>2, <2>3, AccountsStay
  <2>5. ASSUME OnlyChange(c)
        PROVE  accounts'[job[c].user][job[c].field] = job[c].value
    <3>1. accounts[job[c].user][job[c].field] = job[c].value
      BY <1>1, <1>4, <2>5 DEF AppliedSound
    <3>2. CASE accounts'[job[c].user] = accounts[job[c].user]
      BY <3>1, <3>2
    <3>3. CASE /\ pc[r] = "update" /\ job[c].user = job[r].user
               /\ \A f \in Fields : accounts'[job[c].user][f] =
                    IF f = job[r].field THEN job[r].value ELSE accounts[job[c].user][f]
      <4>1. Changes(r)
        BY <1>1, <3>3 DEF JobSound
      <4>2. c # r => job[c].field # job[r].field
        BY <2>5, <3>3, <4>1 DEF OnlyChange
      <4>3. QED
        BY <2>2, <3>1, <3>3, <4>2
    <3>4. QED
      BY <2>2, <2>3, <3>2, <3>3, AccountsStep
  <2>6. QED
    BY <2>4, <2>5
<1>5. ASSUME Applied(c)', ~Applied(c)
      PROVE  /\ accounts'[job[c].user] # NoAccount
             /\ accounts'[job[c].user][job[c].field] = job[c].value
  <2>1. c = r /\ Changes(r)
    BY <1>2, <1>3, <1>5 DEF Applied
  <2>2. job[r].kind \in {"change", "own"} /\ pc[r] \notin {"revoke", "audit"}
    BY <1>5, <2>1 DEF Applied, Changes
  <2>3. pc'[r] = After(job[r].kind, pc[r]) /\ pc'[r] \in {"revoke", "audit", "done"}
    BY <1>2, <1>5, <2>1 DEF Applied
  <2>4. pc[r] \in {"authorise", "verify", "update"}
    BY <1>2, <2>2, StageKinds
  <2>5. pc[r] = "update" /\ pc'[r] = "revoke"
    BY <1>2, <2>2, <2>3, <2>4, AfterStays
  <2>6. Update(r) /\ ~Refuse(r)
    <3>1. pc \in [Requests -> Stages]
      BY DEF Inv, TypeOK, Stages
    <3>2. ~Refuse(r)
      BY <2>5, <3>1 DEF Refuse
    <3>3. QED
      BY <2>5, <3>2 DEF Step, Authorise, Verify, Select, Insert, Count, CreateUser, Revoke, End,
         Audit, Fail
  <2>. DEFINE u == job[r].user
              b == [accounts[u] EXCEPT ![job[r].field] = job[r].value]
  <2>7. accounts[u] # NoAccount /\ accounts' = [accounts EXCEPT ![u] = b]
    BY <2>6 DEF Update
  <2>8. /\ accounts \in [Users -> Account \union {NoAccount}]
        /\ job[r].field \in Fields
    BY <1>1, <2>5 DEF Inv, TypeOK, JobSound
  <2>9. accounts[u] \in [Fields -> Values]
    BY <1>2, <2>7, <2>8, AccountIsSome
  <2>10. b[job[r].field] = job[r].value
    BY <2>8, <2>9
  <2>11. accounts'[u] # NoAccount
    BY <1>2, <2>7, AccountsStay
  <2>. HIDE DEF b
  <2>12. accounts'[u] = b
    BY <1>2, <2>7, <2>8
  <2>13. QED
    BY <2>1, <2>10, <2>11, <2>12
<1>6. QED
  BY <1>2, <1>3, <1>4, <1>5 DEF AppliedSound

\* What a request finds of an answered change, it finds in the account.
LEMMA SeenStep ==
  ASSUME Inv, SeenInv, NEW r \in Requests, Step(r), NEW q \in Requests, NEW c \in Requests
  PROVE  SeenSound(q, c)'
<1>1. /\ FlowSound(r) /\ FlowSound(q) /\ FlowSound(c) /\ AppliedSound(c) /\ SeenSound(q, c)
      /\ JobSound(c) /\ JobSound(q)
  BY DEF SeenInv, Inv
<1>2. /\ job' = job /\ before' = before /\ job[r] \in Job /\ reply[r] # "ok"
      /\ \A p \in Requests \ {r} : pc'[p] = pc[p] /\ reply'[p] = reply[p] /\ rights'[p] = rights[p]
  BY <1>1, StepGoesOn
<1>3. /\ OnlyChange(c)' = OnlyChange(c) /\ Changes(c)' = Changes(c) /\ Actor(q)' = Actor(q)
  BY <1>2 DEF OnlyChange, Changes, Actor
<1>4. CASE q # r
  <2>1. Verified(q)' = Verified(q) /\ rights'[q] = rights[q]
    BY <1>2, <1>4 DEF Verified
  <2>2. QED
    BY <1>1, <1>2, <1>3, <2>1 DEF SeenSound
<1>5. CASE q = r
  <2>1. SUFFICES ASSUME c \in before[r], Changes(c), OnlyChange(c)
                 PROVE  /\ rights'[r] # None /\ Actor(r) = job[c].user =>
                             /\ job[c].field = "role" => rights'[r] = job[c].value
                             /\ job[c].field = "state" => job[c].value = "active"
                        /\ Verified(r)' /\ job[r].user = job[c].user /\ job[c].field = "password" =>
                             job[r].given = job[c].value
    BY <1>2, <1>3, <1>5 DEF SeenSound
  <2>2. reply[c] = "ok"
    BY <1>1, <1>5, <2>1 DEF FlowSound
  <2>3. accounts[job[c].user][job[c].field] = job[c].value
    BY <1>1, <2>1, <2>2 DEF AppliedSound, Applied
  <2>4. ASSUME rights'[r] # None, Actor(r) = job[c].user
        PROVE  /\ job[c].field = "role" => rights'[r] = job[c].value
               /\ job[c].field = "state" => job[c].value = "active"
    <3>1. CASE rights'[r] = rights[r]
      BY <1>1, <1>5, <2>1, <2>4, <3>1 DEF SeenSound
    <3>2. CASE rights'[r] # rights[r]
      <4>1. accounts[Actor(r)]["state"] = "active" /\ rights'[r] = accounts[Actor(r)]["role"]
        BY <1>1, <3>2, RightsStep
      <4>2. QED
        BY <2>3, <2>4, <4>1
    <3>3. QED
      BY <3>1, <3>2
  <2>5. ASSUME Verified(r)', job[r].user = job[c].user, job[c].field = "password"
        PROVE  job[r].given = job[c].value
    <3>1. CASE Verified(r)
      BY <1>1, <1>5, <2>1, <2>5, <3>1 DEF SeenSound
    <3>2. CASE ~Verified(r)
      <4>1. job[r].given = accounts[job[r].user]["password"]
        BY <1>1, <2>5, <3>2, VerifiedStep
      <4>2. QED
        BY <2>3, <2>5, <4>1
    <3>3. QED
      BY <3>1, <3>2
  <2>6. QED
    BY <2>4, <2>5
<1>6. QED
  BY <1>4, <1>5

\* A request arrives: the others stay as they are, and a change may now not be the
\* only one any more.
LEMMA ArriveSeen ==
  ASSUME Inv, SeenInv, NEW r \in Requests, NEW j \in Job, Arrive(r, j),
         j.by # None => j.by \in Requests /\ reply[j.by] = "ok",
         j.kind = "login" => j.by = None
  PROVE  SeenInv'
<1>1. \A q \in Requests : FlowSound(q) /\ MadeSound(q) /\ AppliedSound(q) /\ JobSound(q)
  BY DEF SeenInv, Inv
<1>2. \A q, c \in Requests : SeenSound(q, c)
  BY DEF SeenInv
<1>3. /\ pc[r] = "idle" /\ job[r] = NoJob /\ rights[r] = None /\ reply[r] # "ok"
      /\ UNCHANGED <<accounts, rights, reply>>
  BY <1>1 DEF Arrive, FlowSound, JobSound, tables
<1>4. /\ job'[r] = j /\ pc'[r] = First(j.kind)
      /\ before'[r] = {q \in Requests : reply[q] = "ok"}
      /\ \A q \in Requests \ {r} : job'[q] = job[q] /\ pc'[q] = pc[q] /\ before'[q] = before[q]
  BY DEF Arrive, Inv, TypeOK
<1>5. /\ j.kind \in Kinds /\ First(j.kind) \in StagesOf(j.kind)
      /\ First(j.kind) \notin {"idle", "select", "insert", "revoke", "audit", "done"}
  BY StageKinds DEF Job, First
<1>6. \A q \in Requests : pc[q] = "done" => pc'[q] = "done"
  BY <1>3, <1>4
<1>7. ASSUME NEW q \in Requests
      PROVE  FlowSound(q)'
  <2>1. CASE q = r
    <3>1. j.by # None => pc'[j.by] = "done"
      BY <1>1, <1>6 DEF JobSound
    <3>2. QED
      BY <1>3, <1>4, <1>5, <2>1, <3>1 DEF FlowSound
  <2>2. CASE q # r
    <3>1. pc[q] # "idle" /\ job[q].by # None => pc'[job[q].by] = "done"
      <4>1. pc[q] # "idle" => job[q] \in Job
        BY <1>1 DEF JobSound
      <4>2. pc[q] # "idle" /\ job[q].by # None => job[q].by \in Requests /\ pc[job[q].by] = "done"
        BY <1>1, <4>1 DEF FlowSound, Job
      <4>3. QED
        BY <1>6, <4>2
    <3>2. FlowSound(q)
      BY <1>1
    <3>3. QED
      BY <1>3, <1>4, <2>2, <3>1, <3>2 DEF FlowSound
  <2>3. QED
    BY <2>1, <2>2
<1>8. /\ ~Made(r)' /\ ~Applied(r)'
      /\ \A q \in Requests \ {r} : (Made(q)' <=> Made(q)) /\ (Applied(q)' <=> Applied(q))
  BY <1>3, <1>4, <1>5 DEF Made, Applied, Changes
<1>9. ~Changes(r)
  BY <1>3, NoneAssumption DEF Changes, NoJob, Kinds
<1>10. \A c \in Requests \ {r} : OnlyChange(c)' => OnlyChange(c)
  BY <1>4, <1>9 DEF OnlyChange, Changes
<1>11. ASSUME NEW q \in Requests
       PROVE  MadeSound(q)' /\ AppliedSound(q)'
  <2>1. CASE q = r
    BY <1>8, <2>1 DEF MadeSound, AppliedSound
  <2>2. CASE q # r
    BY <1>1, <1>3, <1>4, <1>8, <1>10, <2>2 DEF MadeSound, AppliedSound
  <2>3. QED
    BY <2>1, <2>2
<1>12. ASSUME NEW q \in Requests, NEW c \in Requests
       PROVE  SeenSound(q, c)'
  <2>1. CASE q = r
    <3>1. rights'[r] = None /\ ~Verified(r)'
      BY <1>3, <1>4, <1>5 DEF Verified
    <3>2. QED
      BY <2>1, <3>1 DEF SeenSound
  <2>2. CASE q # r
    <3>1. SUFFICES ASSUME c \in before[q], Changes(c)', OnlyChange(c)'
                   PROVE  /\ rights[q] # None /\ Actor(q)' = job'[c].user =>
                               /\ job'[c].field = "role" => rights[q] = job'[c].value
                               /\ job'[c].field = "state" => job'[c].value = "active"
                          /\ Verified(q)' /\ job'[q].user = job'[c].user
                               /\ job'[c].field = "password" => job'[q].given = job'[c].value
      BY <1>3, <1>4, <2>2 DEF SeenSound
    <3>2. reply[c] = "ok"
      BY <1>1, <3>1 DEF FlowSound
    <3>3. c # r
      BY <1>3, <3>2
    <3>4. /\ job'[c] = job[c] /\ Changes(c) /\ OnlyChange(c) /\ job'[q] = job[q]
          /\ Verified(q)' = Verified(q)
      BY <1>3, <1>4, <1>10, <2>2, <3>1, <3>3 DEF Changes, Verified
    <3>5. rights[q] # None => Actor(q)' = Actor(q)
      <4>1. rights[q] # None => pc[q] # "idle"
        BY <1>1 DEF FlowSound
      <4>2. pc[q] # "idle" => job[q] \in Job
        BY <1>1 DEF JobSound
      <4>3. pc[q] # "idle" /\ job[q].by # None => job[q].by \in Requests /\ job[q].by # r
        BY <1>1, <1>3, <4>2 DEF FlowSound, Job
      <4>4. QED
        BY <1>4, <3>4, <4>1, <4>3 DEF Actor
    <3>6. QED
      BY <1>2, <3>1, <3>4, <3>5 DEF SeenSound
  <2>3. QED
    BY <2>1, <2>2
<1>13. QED
  BY <1>7, <1>11, <1>12 DEF SeenInv

LEMMA ArrivalSeen ==
  ASSUME Inv, SeenInv, NEW r \in Requests,
         Login(r) \/ Bootstrap(r) \/ Create(r) \/ Change(r) \/ ChangePassword(r)
         \/ Logout(r) \/ Read(r)
  PROVE  SeenInv'
<1>1. PICK j \in Job :
        /\ Arrive(r, j)
        /\ j.kind \notin {"login", "bootstrap"} => j.by \in Requests /\ reply[j.by] = "ok"
        /\ j.kind \in {"login", "bootstrap"} => j.by = None
  BY ArrivalIsJob
<1>2. QED
  BY <1>1, ArriveSeen

LEMMA SeenInit == Init => SeenInv
<1>1. SUFFICES ASSUME Init PROVE SeenInv
  OBVIOUS
<1>2. PICK u \in Users, p \in Passwords :
        /\ job = [r \in Requests |-> IF r \in Past THEN PastLogin(r, u, p) ELSE NoJob]
        /\ rights = [r \in Requests |-> None]
           \/ rights = [r \in Requests |-> IF r \in Past THEN "admin" ELSE None]
  BY <1>1 DEF Init
<1>3. /\ pc = [r \in Requests |-> IF r \in Past THEN "done" ELSE "idle"]
      /\ before = [r \in Requests |-> {}]
  BY <1>1 DEF Init
<1>4. ASSUME NEW r \in Requests
      PROVE  /\ FlowSound(r) /\ MadeSound(r) /\ AppliedSound(r)
             /\ \A c \in Requests : SeenSound(r, c)
  <2>1. job[r].kind \notin {"change", "own", "bootstrap", "create"}
    BY <1>2, NoneAssumption DEF NoJob, PastLogin, Kinds
  <2>2. MadeSound(r) /\ AppliedSound(r)
    BY <2>1 DEF MadeSound, Made, AppliedSound, Applied, Changes
  <2>3. before[r] = {}
    BY <1>3
  <2>4. \A c \in Requests : SeenSound(r, c)
    BY <2>3 DEF SeenSound
  <2>5. CASE r \in Past
    <3>1. job[r].kind = "login" /\ job[r].by = None /\ pc[r] = "done"
      BY <1>2, <1>3, <2>5 DEF PastLogin
    <3>2. QED
      BY <2>2, <2>3, <2>4, <3>1 DEF FlowSound, StagesOf
  <2>6. CASE r \notin Past
    <3>1. job[r] = NoJob /\ rights[r] = None /\ pc[r] = "idle"
      BY <1>2, <1>3, <2>6
    <3>2. QED
      BY <2>2, <2>3, <2>4, <3>1 DEF FlowSound
  <2>7. QED
    BY <2>5, <2>6
<1>5. QED
  BY <1>4 DEF SeenInv

LEMMA SeenNext == Inv /\ SeenInv /\ [Next]_vars => SeenInv'
<1>1. SUFFICES ASSUME Inv, SeenInv, [Next]_vars PROVE SeenInv'
  OBVIOUS
<1>2. ASSUME NEW r \in Requests, Step(r) PROVE SeenInv'
  BY <1>1, <1>2, FlowStep, MadeStep, AppliedStep, SeenStep DEF SeenInv
<1>3. ASSUME NEW r \in Requests,
             Login(r) \/ Bootstrap(r) \/ Create(r) \/ Change(r) \/ ChangePassword(r)
             \/ Logout(r) \/ Read(r)
      PROVE  SeenInv'
  BY <1>1, <1>3, ArrivalSeen
<1>4. CASE UNCHANGED <<accounts, job, pc, rights, reply, before>>
  BY <1>1, <1>4 DEF SeenInv, FlowSound, MadeSound, Made, AppliedSound, Applied, SeenSound,
     Verified, Changes, OnlyChange, Actor
<1>5. ASSUME NEW r \in Requests, Expire(r)
      PROVE  UNCHANGED <<accounts, job, pc, rights, reply, before>>
  BY <1>5 DEF Expire
<1>6. UNCHANGED vars => UNCHANGED <<accounts, job, pc, rights, reply, before>>
  BY DEF vars, tables
<1>7. QED
  BY <1>1, <1>2, <1>3, <1>4, <1>5, <1>6 DEF Next

-----------------------------------------------------------------------------
(* Theorems *)

\* Every variable keeps its type: in particular an account never holds a role,
\* a state or a password that is none, whichever changes interleave
\* (update_user_role, set_user_active, update_user_password, create_session).
THEOREM SessionTypeCorrect == Spec => []TypeOK
BY InitSound, NextSound, PTL DEF Spec, Inv

\* Once a change of an account is answered, no session that existed when it was
\* committed is usable, not even one that a login inserted between the change
\* and the revocation, nor after the account is active again
\* (revoke_user_sessions after every change).
THEOREM ChangesEndSessions == Spec => []ChangeEndsSessions
<1>1. Inv => ChangeEndsSessions
  BY DEF Inv, JobSound, EndedSound, ChangeEndsSessions, Live, Usable
<1>2. QED
  BY <1>1, InitSound, NextSound, PTL DEF Spec

LEMMA SeenInvariant == Spec => [](Inv /\ SeenInv)
<1>1. Init => Inv /\ SeenInv
  BY InitSound, SeenInit
<1>2. Inv /\ SeenInv /\ [Next]_vars => Inv' /\ SeenInv'
  BY NextSound, SeenNext
<1>3. QED
  BY <1>1, <1>2, PTL DEF Spec

\* A request that arrives after a change was answered meets the change: it is let in
\* with the new role, by the new password only, and not at all once the account is
\* disabled, whatever the session rows and the requests that were at work hold
\* (get_auth_context, create_session).
THEOREM ChangesAreSeen == Spec => []ChangeIsSeen
<1>1. Inv /\ SeenInv => ChangeIsSeen
  <2>1. SUFFICES ASSUME Inv, SeenInv, NEW r \in Requests, NEW c \in Requests,
                        c \in before[r], Changes(c), OnlyChange(c),
                        rights[r] # None, Actor(r) = job[c].user
                 PROVE  CASE job[c].field = "role"     -> rights[r] = job[c].value
                          [] job[c].field = "password" ->
                               job[r].kind = "login" => job[r].given = job[c].value
                          [] job[c].field = "state"    -> job[c].value = "active"
    BY DEF ChangeIsSeen
  <2>2. SeenSound(r, c) /\ FlowSound(r) /\ JobSound(c)
    BY <2>1 DEF SeenInv, Inv
  <2>3. job[c].field \in {"role", "state", "password"}
    BY <2>1, <2>2 DEF JobSound, Fields
  <2>4. job[r].kind = "login" => Verified(r) /\ job[r].user = job[c].user
    BY <2>1, <2>2 DEF Verified, FlowSound, Actor
  <2>5. QED
    BY <2>1, <2>2, <2>3, <2>4 DEF SeenSound
<1>2. QED
  BY <1>1, SeenInvariant, PTL

\* Of the requests that create one account, bootstraps that all found the table empty
\* included, one at most succeeds (bootstrap_admin, create_user).
THEOREM AccountsAreCreatedOnce == Spec => []CreatedOnce
<1>1. SeenInv => CreatedOnce
  BY DEF SeenInv, MadeSound, Made, CreatedOnce
<1>2. QED
  BY <1>1, SeenInvariant, PTL
=============================================================================
