------------------------- MODULE DashboardStoreProofs -------------------------
(***************************************************************************)
(* Proofs about DashboardStore, for any number of requests: on SQLite, on  *)
(* the JSON file and across the fallback, types, and that a table never    *)
(* holds two rows with one id; on SQLite, without the fallback, that what  *)
(* was answered is stored and exported, and on the event that was meant.   *)
(***************************************************************************)
EXTENDS DashboardStore, SequenceTheorems, TLAPS

\* A thread that has begun a call has that call left to finish.
BegunIsBusy == \A r \in Requests : phase[r] # "read" => Busy(r)

\* What is inductive of the contents: those that are or may yet be stored have
\* their type and distinct ids.
StoreInv == TypeOK /\ IdsDistinct

Inv == StoreInv /\ BegunIsBusy

-----------------------------------------------------------------------------
(* Contents *)

LEMMA EmptySound == Empty \in Content /\ IdsSound(Empty)
<1>1. <<>> \in Seq(Row) /\ DOMAIN <<>> = {}
  BY EmptySeq
<1>2. Empty \in Content
  BY <1>1 DEF Empty, Content
<1>3. \A t \in Tables : Empty.rows[t] = <<>>
  BY DEF Empty
<1>4. QED
  BY <1>1, <1>2, <1>3 DEF IdsSound

\* A new row gets an id above those of its table.
LEMMA InsertSound ==
  ASSUME NEW c \in Content, IdsSound(c), NEW t \in Tables, NEW r \in Requests,
         NEW e \in Nat
  PROVE  Insert(c, t, r, e) \in Content /\ IdsSound(Insert(c, t, r, e))
<1>. DEFINE d == Insert(c, t, r, e)
            x == [id |-> c.next[t], by |-> r, event |-> e]
<1>1. /\ c.rows \in [Tables -> Seq(Row)] /\ c.next \in [Tables -> Nat]
      /\ c.rows[t] \in Seq(Row) /\ c.next[t] \in Nat
  BY DEF Content
<1>2. x \in Row
  BY <1>1 DEF Row
<1>3. /\ Append(c.rows[t], x) \in Seq(Row)
      /\ Len(Append(c.rows[t], x)) = Len(c.rows[t]) + 1
      /\ \A i \in 1..Len(c.rows[t]) : Append(c.rows[t], x)[i] = c.rows[t][i]
      /\ Append(c.rows[t], x)[Len(c.rows[t]) + 1] = x
  BY <1>1, <1>2, AppendProperties
<1>4. /\ d.rows = [c.rows EXCEPT ![t] = Append(@, x)]
      /\ d.next = [c.next EXCEPT ![t] = @ + 1]
      /\ d = [rows |-> d.rows, next |-> d.next]
  BY DEF Insert
<1>. HIDE DEF d
<1>5. d.rows \in [Tables -> Seq(Row)] /\ d.next \in [Tables -> Nat]
  BY <1>1, <1>3, <1>4
<1>6. d \in Content
  BY <1>4, <1>5 DEF Content
<1>7. ASSUME NEW u \in Tables, u # t
      PROVE  d.rows[u] = c.rows[u] /\ d.next[u] = c.next[u]
  BY <1>1, <1>4, <1>7
<1>8. d.rows[t] = Append(c.rows[t], x) /\ d.next[t] = c.next[t] + 1
  BY <1>1, <1>4
<1>9. /\ DOMAIN c.rows[t] = 1..Len(c.rows[t]) /\ Len(c.rows[t]) \in Nat
      /\ DOMAIN d.rows[t] = 1..(Len(c.rows[t]) + 1)
  BY <1>1, <1>3, <1>8, LenProperties
<1>10. \A i \in DOMAIN c.rows[t] : c.rows[t][i].id < c.next[t] /\ c.rows[t][i].id \in Nat
  <2>1. \A i \in DOMAIN c.rows[t] : c.rows[t][i] \in Row
    BY <1>1, <1>9, ElementOfSeq
  <2>2. QED
    BY <2>1 DEF IdsSound, Row
<1>11. x.id = c.next[t]
  OBVIOUS
<1>12. \A i \in DOMAIN d.rows[t] :
         d.rows[t][i].id = IF i \in DOMAIN c.rows[t] THEN c.rows[t][i].id ELSE c.next[t]
  BY <1>3, <1>8, <1>9, <1>11
<1>13. \A i \in DOMAIN d.rows[t] : d.rows[t][i].id < d.next[t]
  BY <1>1, <1>8, <1>10, <1>12
<1>14. ASSUME NEW i \in DOMAIN d.rows[t], NEW j \in DOMAIN d.rows[t], i < j
       PROVE  d.rows[t][i].id < d.rows[t][j].id
  <2>1. i \in DOMAIN c.rows[t]
    BY <1>9, <1>14
  <2>2. CASE j \in DOMAIN c.rows[t]
    BY <1>12, <1>14, <2>1, <2>2 DEF IdsSound
  <2>3. CASE j \notin DOMAIN c.rows[t]
    BY <1>10, <1>12, <2>1, <2>3
  <2>4. QED
    BY <2>2, <2>3
<1>15. IdsSound(d)
  BY <1>7, <1>13, <1>14 DEF IdsSound
<1>16. QED
  BY <1>6, <1>15 DEF d

\* Whatever call is made on a sound content leaves a sound one.
LEMMA ChangedSound ==
  ASSUME TypeOK, NEW c \in Content, IdsSound(c), NEW r \in Requests,
         NEW call \in Calls
  PROVE  /\ EventAfter(call, c, r) \in Nat
         /\ \A x \in Changed(call, c, r) : x \in Content /\ IdsSound(x)
<1>1. /\ event[r] \in Nat
      /\ "monitoring_events" \in Tables /\ "feedback" \in Tables /\ "audit_logs" \in Tables
  BY DEF TypeOK, Tables
<1>2. EventAfter(call, c, r) \in Nat
  BY <1>1 DEF EventAfter, Content
<1>3. CASE call = "init"
  BY <1>2, <1>3 DEF Changed
<1>4. CASE call = "event"
  BY <1>1, <1>2, <1>4, InsertSound DEF Changed
<1>5. CASE call = "feedback"
  <2>1. \A x \in Changed(call, c, r) : x = Insert(c, "feedback", r, event[r])
    BY <1>5 DEF Changed
  <2>2. QED
    BY <1>1, <1>2, <2>1, InsertSound
<1>6. CASE call = "audit"
  BY <1>1, <1>2, <1>6, InsertSound DEF Changed
<1>7. QED
  BY <1>3, <1>4, <1>5, <1>6 DEF Calls

-----------------------------------------------------------------------------
(* Steps *)

\* What r still has to do after its current call.
LEMMA TodoTypes ==
  ASSUME TypeOK, NEW r \in Requests
  PROVE  /\ Busy(r) => Head(todo[r]) \in Calls /\ Tail(todo[r]) \in Seq(Calls)
         /\ <<>> \in Seq(Calls)
         /\ <<"init", "event", "init", "audit">> \in Seq(Calls)
         /\ <<"init", "feedback", "init", "audit">> \in Seq(Calls)
         /\ <<"init">> \in Seq(Calls)
<1>1. todo[r] \in Seq(Calls)
  BY DEF TypeOK
<1>2. Busy(r) => Head(todo[r]) \in Calls /\ Tail(todo[r]) \in Seq(Calls)
  BY <1>1, HeadTailProperties DEF Busy
<1>3. "init" \in Calls /\ "event" \in Calls /\ "feedback" \in Calls /\ "audit" \in Calls
  BY DEF Calls
<1>4. QED
  BY <1>2, <1>3

\* A step that stores and prepares nothing new keeps the ids distinct.
LEMMA ContentsStaySound ==
  ASSUME IdsDistinct, UNCHANGED <<db, buf>>, file' = file \/ file' = Corrupt
  PROVE  IdsDistinct'
BY DEF IdsDistinct, IdsSound

LEMMA NewRequestSound ==
  ASSUME StoreInv, NEW r \in Requests, Analyze(r) \/ List(r) \/ GiveFeedback(r)
  PROVE  StoreInv'
<1>. USE DEF StoreInv
<1>1. UNCHANGED <<stored, phase, buf, raced, reply, snapshot>>
  BY DEF Analyze, List, GiveFeedback
<1>2. todo' \in [Requests -> Seq(Calls)]
  BY TodoTypes DEF Analyze, List, GiveFeedback, TypeOK
<1>3. event' \in [Requests -> Nat] /\ meant' \in [Requests -> Requests \union {NoRequest}]
  <2>1. /\ event \in [Requests -> Nat]
        /\ meant \in [Requests -> Requests \union {NoRequest}]
    BY DEF TypeOK
  <2>2. CASE Analyze(r) \/ List(r)
    BY <2>1, <2>2 DEF Analyze, List
  <2>3. CASE GiveFeedback(r)
    <3>1. PICK q \in Requests : /\ event' = [event EXCEPT ![r] = event[q]]
                               /\ meant' = [meant EXCEPT ![r] = q]
      BY <2>3 DEF GiveFeedback
    <3>2. QED
      BY ONLY <2>1, <3>1
  <2>4. QED
    BY <2>2, <2>3
<1>4. TypeOK'
  BY <1>1, <1>2, <1>3 DEF TypeOK, stored
<1>5. IdsDistinct'
  BY <1>1, ContentsStaySound DEF stored
<1>6. QED
  BY <1>4, <1>5

\* The thread of r returns from a call.
LEMMA ReturnTypes ==
  ASSUME TypeOK, NEW r \in Requests, Busy(r), Return(r)
  PROVE  /\ todo' \in [Requests -> Seq(Calls)]
         /\ phase' \in [Requests -> {"read", "open", "write"}]
         /\ reply' \in [Requests -> {"none", "ok", "error"}]
BY TodoTypes DEF Return, TypeOK

LEMMA TransactSound ==
  ASSUME StoreInv, NEW r \in Requests, Transact(r)
  PROVE  StoreInv'
<1>. USE DEF StoreInv
<1>. DEFINE call == Head(todo[r])
<1>1. /\ Busy(r) /\ Return(r) /\ dbFile' = "ready"
      /\ event' = [event EXCEPT ![r] = EventAfter(call, db, r)]
      /\ UNCHANGED <<json, file, buf, raced, meant, snapshot>>
  BY DEF Transact
<1>2. db \in Content /\ IdsSound(db) /\ call \in Calls
  BY <1>1, TodoTypes DEF TypeOK, IdsDistinct
<1>3. EventAfter(call, db, r) \in Nat /\ db' \in Content /\ IdsSound(db')
  BY <1>2, ChangedSound DEF Transact
<1>. HIDE DEF call
<1>4. event' \in [Requests -> Nat]
  BY <1>1, <1>3 DEF TypeOK
<1>5. TypeOK'
  BY <1>1, <1>3, <1>4, ReturnTypes DEF TypeOK
<1>6. IdsDistinct'
  BY <1>1, <1>3 DEF IdsDistinct, IdsSound
<1>7. QED
  BY <1>5, <1>6

LEMMA FallBackSound ==
  ASSUME StoreInv, NEW r \in Requests, FallBack(r)
  PROVE  StoreInv'
<1>. USE DEF StoreInv
<1>1. /\ file \in Content /\ IdsSound(file) /\ json' = TRUE
      /\ dbFile' \in {"absent", "bare", "ready"}
      /\ buf' = [buf EXCEPT ![r] = file]
      /\ phase' = [phase EXCEPT ![r] = "open"]
      /\ UNCHANGED <<db, file, todo, raced, event, meant, reply, snapshot>>
  BY DEF FallBack, TypeOK, IdsDistinct
<1>2. TypeOK'
  BY <1>1 DEF TypeOK
<1>3. IdsDistinct'
  <2>1. \A q \in Requests : buf'[q] = file \/ buf'[q] = buf[q]
    BY <1>1 DEF TypeOK
  <2>2. QED
    BY <1>1, <2>1 DEF IdsDistinct, IdsSound
<1>4. QED
  BY <1>2, <1>3

LEMMA ReadSound ==
  ASSUME StoreInv, NEW r \in Requests, Read(r)
  PROVE  StoreInv'
<1>. USE DEF StoreInv
<1>. DEFINE call == Head(todo[r])
<1>1. /\ Busy(r) /\ file \in Content /\ IdsSound(file) /\ call \in Calls
      /\ event' = [event EXCEPT ![r] = EventAfter(call, file, r)]
      /\ phase' = [phase EXCEPT ![r] = "open"]
      /\ UNCHANGED <<stored, todo, raced, meant, reply, snapshot>>
  BY TodoTypes DEF Read, TypeOK, IdsDistinct
<1>2. PICK c \in Changed(call, file, r) : buf' = [buf EXCEPT ![r] = c]
  BY DEF Read
<1>3. EventAfter(call, file, r) \in Nat /\ c \in Content /\ IdsSound(c)
  BY <1>1, ChangedSound
<1>. HIDE DEF call
<1>4. TypeOK'
  BY <1>1, <1>2, <1>3 DEF TypeOK, stored
<1>5. IdsDistinct'
  <2>1. \A q \in Requests : buf'[q] = c \/ buf'[q] = buf[q]
    BY <1>2 DEF TypeOK
  <2>2. QED
    BY <1>1, <1>3, <2>1 DEF IdsDistinct, IdsSound, stored
<1>6. QED
  BY <1>4, <1>5

LEMMA WriteSound ==
  ASSUME StoreInv, NEW r \in Requests, Open(r) \/ (Fill(r) /\ Busy(r))
  PROVE  StoreInv'
<1>. USE DEF StoreInv
<1>1. CASE Open(r)
  <2>1. /\ file' = Empty /\ phase' = [phase EXCEPT ![r] = "write"]
        /\ UNCHANGED <<json, db, dbFile, todo, buf, raced, event, meant, reply, snapshot>>
    BY <1>1 DEF Open
  <2>2. TypeOK'
    BY <2>1, EmptySound DEF TypeOK
  <2>3. IdsDistinct'
    BY <2>1, EmptySound DEF IdsDistinct, IdsSound
  <2>4. QED
    BY <2>2, <2>3
<1>2. CASE Fill(r) /\ Busy(r)
  <2>1. /\ file' = buf[r] \/ file' = Corrupt
        /\ raced' = (raced \union Writing) \ {r}
        /\ buf' = [buf EXCEPT ![r] = Empty]
        /\ Return(r)
        /\ UNCHANGED <<json, db, dbFile, event, meant, snapshot>>
    BY <1>2 DEF Fill
  <2>2. Writing \subseteq Requests
    BY DEF Writing
  <2>3. TypeOK'
    BY <1>2, <2>1, <2>2, EmptySound, ReturnTypes DEF TypeOK
  <2>4. \A q \in Requests : buf'[q] = Empty \/ buf'[q] = buf[q]
    BY <2>1 DEF TypeOK
  <2>5. IdsSound(buf[r])
    BY DEF IdsDistinct
  <2>6. IdsDistinct'
    BY <2>1, <2>4, <2>5, EmptySound DEF IdsDistinct, IdsSound
  <2>7. QED
    BY <2>3, <2>6
<1>3. QED
  BY <1>1, <1>2

LEMMA FailSound ==
  ASSUME StoreInv, NEW r \in Requests, Fail(r)
  PROVE  StoreInv'
<1>. USE DEF StoreInv
<1>1. /\ todo' = [todo EXCEPT ![r] = <<>>]
      /\ reply' = [reply EXCEPT ![r] = "error"]
      /\ UNCHANGED <<stored, phase, buf, raced, event, meant, snapshot>>
  BY DEF Fail
<1>2. TypeOK'
  BY <1>1, TodoTypes DEF TypeOK, stored
<1>3. IdsDistinct'
  BY <1>1, ContentsStaySound DEF stored
<1>4. QED
  BY <1>2, <1>3

LEMMA CrashSound ==
  ASSUME StoreInv, Crash
  PROVE  StoreInv'
<1>. USE DEF StoreInv
<1>1. /\ file' = file \/ file' = Corrupt
      /\ json' = FALSE /\ raced' = {}
      /\ todo' = [r \in Requests |-> <<>>]
      /\ phase' = [r \in Requests |-> "read"]
      /\ buf' = [r \in Requests |-> Empty]
      /\ reply' = [r \in Requests |-> IF Busy(r) THEN "error" ELSE reply[r]]
      /\ UNCHANGED <<db, dbFile, event, meant, snapshot>>
  BY DEF Crash
<1>2. <<>> \in Seq(Calls)
  OBVIOUS
<1>3. reply' \in [Requests -> {"none", "ok", "error"}]
  BY <1>1 DEF TypeOK
<1>4. todo' \in [Requests -> Seq(Calls)] /\ buf' \in [Requests -> Content]
  BY <1>1, <1>2, EmptySound
<1>5. TypeOK'
  BY <1>1, <1>3, <1>4 DEF TypeOK
<1>6. IdsDistinct'
  BY <1>1, EmptySound DEF IdsDistinct, IdsSound
<1>7. QED
  BY <1>5, <1>6

LEMMA ExportSound ==
  ASSUME StoreInv, Export
  PROVE  StoreInv'
<1>. USE DEF StoreInv
<1>1. snapshot' \in Exported /\ UNCHANGED <<stored, served>>
  BY DEF Export
<1>2. \A c : Joined(c) \subseteq [by : Requests, about : Requests]
  BY DEF Joined
<1>3. {} \subseteq [by : Requests, about : Requests]
  OBVIOUS
<1>4. \A s \in Exported : s \subseteq [by : Requests, about : Requests]
  <2>1. dbFile \in {"absent", "bare", "ready"}
    BY DEF TypeOK
  <2>2. QED
    BY <1>2, <1>3, <2>1 DEF Exported
<1>5. TypeOK'
  BY <1>1, <1>4 DEF TypeOK, stored, served
<1>6. IdsDistinct'
  BY <1>1, ContentsStaySound DEF stored, served
<1>7. QED
  BY <1>5, <1>6

\* A thread begins a call only when it has one left.
LEMMA BegunStaysBusy ==
  ASSUME TypeOK, BegunIsBusy, [Next]_vars
  PROVE  BegunIsBusy'
<1>. USE DEF BegunIsBusy, Busy
<1>1. ASSUME NEW r \in Requests, Analyze(r) \/ List(r) \/ GiveFeedback(r)
      PROVE  BegunIsBusy'
  <2>1. todo'[r] # <<>> /\ \A q \in Requests \ {r} : todo'[q] = todo[q]
    <3>1. PICK calls \in {<<"init", "event", "init", "audit">>, <<"init">>,
                          <<"init", "feedback", "init", "audit">>} :
            todo' = [todo EXCEPT ![r] = calls]
      BY <1>1 DEF Analyze, List, GiveFeedback
    <3>2. calls # <<>>
      OBVIOUS
    <3>3. QED
      BY <3>1, <3>2 DEF TypeOK
  <2>2. phase' = phase
    BY <1>1 DEF Analyze, List, GiveFeedback
  <2>3. QED
    BY <2>1, <2>2
<1>2. ASSUME NEW r \in Requests, Serve(r)
      PROVE  BegunIsBusy'
  <2>1. CASE Transact(r) \/ Fill(r)
    <3>1. Return(r)
      BY <2>1 DEF Transact, Fill
    <3>2. QED
      BY <3>1 DEF Return, TypeOK
  <2>2. CASE FallBack(r) \/ Read(r) \/ Open(r)
    <3>1. todo' = todo /\ Busy(r) /\ \E p : phase' = [phase EXCEPT ![r] = p]
      BY <2>2 DEF FallBack, Read, Open
    <3>2. QED
      BY <3>1 DEF TypeOK
  <2>3. CASE Fail(r)
    BY <2>3 DEF Fail, TypeOK
  <2>4. QED
    BY <1>2, <2>1, <2>2, <2>3 DEF Serve
<1>3. CASE Crash
  BY <1>3 DEF Crash
<1>4. CASE Export \/ UNCHANGED vars
  BY <1>4 DEF Export, vars, served
<1>5. QED
  BY <1>1, <1>2, <1>3, <1>4 DEF Next

-----------------------------------------------------------------------------
(* Theorems *)

LEMMA InitSound == Init => Inv
<1>1. SUFFICES ASSUME Init PROVE Inv
  OBVIOUS
<1>2. TypeOK
  <2>1. <<>> \in Seq(Calls)
    OBVIOUS
  <2>2. json \in BOOLEAN /\ db \in Content /\ dbFile \in {"absent", "bare", "ready"}
        /\ file \in Content \union {Corrupt} /\ raced \subseteq Requests
        /\ snapshot \in {NoSnapshot}
    BY <1>1, EmptySound DEF Init
  <2>3. todo \in [Requests -> Seq(Calls)]
    BY <1>1, <2>1 DEF Init
  <2>4. /\ phase \in [Requests -> {"read", "open", "write"}]
        /\ buf \in [Requests -> Content]
        /\ event \in [Requests -> Nat]
    BY <1>1, EmptySound DEF Init
  <2>5. /\ meant \in [Requests -> Requests \union {NoRequest}]
        /\ reply \in [Requests -> {"none", "ok", "error"}]
    BY <1>1 DEF Init
  <2>6. QED
    BY <2>2, <2>3, <2>4, <2>5 DEF TypeOK
<1>3. IdsDistinct
  BY <1>1, EmptySound DEF Init, IdsDistinct
<1>4. BegunIsBusy
  BY <1>1 DEF Init, BegunIsBusy
<1>5. QED
  BY <1>2, <1>3, <1>4 DEF Inv, StoreInv

LEMMA StepSound == Inv /\ [Next]_vars => Inv'
<1>1. SUFFICES ASSUME Inv, [Next]_vars PROVE Inv'
  OBVIOUS
<1>2. StoreInv /\ BegunIsBusy /\ TypeOK
  BY <1>1 DEF Inv, StoreInv
<1>3. BegunIsBusy'
  BY <1>1, <1>2, BegunStaysBusy
<1>4. StoreInv'
  <2>1. ASSUME NEW r \in Requests, Analyze(r) \/ List(r) \/ GiveFeedback(r)
        PROVE  StoreInv'
    BY <1>2, <2>1, NewRequestSound
  <2>2. ASSUME NEW r \in Requests, Transact(r) \/ FallBack(r) \/ Read(r)
        PROVE  StoreInv'
    BY <1>2, <2>2, TransactSound, FallBackSound, ReadSound
  <2>3. ASSUME NEW r \in Requests, Open(r) \/ Fill(r) \/ Fail(r)
        PROVE  StoreInv'
    <3>1. ASSUME Fill(r) PROVE Busy(r)
      <4>1. phase[r] # "read"
        BY <3>1 DEF Fill
      <4>2. QED
        BY <1>2, <4>1 DEF BegunIsBusy
    <3>2. CASE Fail(r)
      BY <1>2, <3>2, FailSound
    <3>3. CASE Open(r) \/ Fill(r)
      <4>1. Open(r) \/ (Fill(r) /\ Busy(r))
        BY <3>1, <3>3
      <4>2. QED
        BY <1>2, <4>1, WriteSound
    <3>4. QED
      BY <2>3, <3>2, <3>3
  <2>4. CASE Crash
    BY <1>2, <2>4, CrashSound
  <2>5. CASE Export
    BY <1>2, <2>5, ExportSound
  <2>6. CASE UNCHANGED vars
    BY <1>2, <2>6 DEF StoreInv, TypeOK, IdsDistinct, IdsSound, vars, stored, served
  <2>7. QED
    BY <1>1, <2>1, <2>2, <2>3, <2>4, <2>5, <2>6 DEF Next, Serve
<1>5. QED
  BY <1>3, <1>4 DEF Inv

\* Every variable keeps its type: whatever the threads, the crash and the
\* fallback do, the database holds tables of well-formed rows, and so does the
\* JSON file unless json.loads refuses it.
THEOREM StoreTypeCorrect == Spec => []TypeOK
<1>1. Inv => TypeOK
  BY DEF Inv, StoreInv
<1>2. QED
  BY InitSound, StepSound, <1>1, PTL DEF Spec

\* No two rows of a table ever have the same id, on SQLite (AUTOINCREMENT), on
\* the JSON file (next_event_id and its siblings in _empty_state), and in every
\* copy a thread is about to write, so get_monitoring_event and save_feedback
\* find at most one event.
THEOREM NoIdTwice == Spec => []IdsDistinct
<1>1. Inv => IdsDistinct
  BY DEF Inv, StoreInv
<1>2. QED
  BY InitSound, StepSound, <1>1, PTL DEF Spec

-----------------------------------------------------------------------------
(* The store on SQLite: without ALLOW_INSECURE_JSON_FALLBACK *)

\* The database holds a row of table t that r inserted about event e.
HasRow(t, r, e) == \E x \in RowsOf(db, t) : x.by = r /\ x.event = e

BeforeEvent ==
  {<<"init">>, <<"init", "event", "init", "audit">>, <<"event", "init", "audit">>}

BeforeFeedback ==
  {<<"init", "feedback", "init", "audit">>, <<"feedback", "init", "audit">>}

BeforeAudit == {<<"init", "audit">>, <<"audit">>}

Starts ==
  {<<>>, <<"init">>, <<"init", "event", "init", "audit">>,
   <<"init", "feedback", "init", "audit">>}

\* What the calls r still has to make say of the others it has made.
Progress(r) ==
  /\ todo[r] \in {<<>>} \union BeforeEvent \union BeforeFeedback \union BeforeAudit
  /\ Busy(r) => reply[r] = "none"
  /\ todo[r] \in BeforeEvent \/ (todo[r] = <<>> /\ reply[r] = "none")
       => meant[r] = NoRequest /\ event[r] = 0
  /\ todo[r] \in BeforeFeedback => meant[r] # NoRequest
  /\ todo[r] \in BeforeAudit => event[r] # 0

\* What r has stored by now.
Kept(r) ==
  /\ meant[r] = NoRequest /\ event[r] # 0 =>
       \E x \in RowsOf(db, "monitoring_events") :
         x.by = r /\ x.event = event[r] /\ x.id = event[r]
  /\ meant[r] # NoRequest /\ (todo[r] \in BeforeAudit \/ reply[r] = "ok") =>
       HasRow("feedback", r, event[r])
  /\ reply[r] = "ok" /\ event[r] # 0 => HasRow("audit_logs", r, event[r])

\* The author of a feedback was shown the event of an answered analysis.
Shown(r) ==
  meant[r] # NoRequest =>
    /\ event[r] # 0 /\ event[meant[r]] = event[r]
    /\ reply[meant[r]] = "ok" /\ meant[meant[r]] = NoRequest

\* Every row is of a request that meant it.
FeedbackTrue ==
  \A f \in RowsOf(db, "feedback") : meant[f.by] # NoRequest /\ event[f.by] = f.event

AuditTrue ==
  \A a \in RowsOf(db, "audit_logs") :
    HasRow("monitoring_events", a.by, a.event) \/ HasRow("feedback", a.by, a.event)

\* The JSON file is not used, and before the first call that succeeds there is
\* nothing in the database.
OnDatabase ==
  /\ json = FALSE /\ file = Empty
  /\ \A r \in Requests : phase[r] = "read"
  /\ db.next["monitoring_events"] # 0
  /\ dbFile = "ready" => TRUE \in DbOpens
  /\ dbFile # "ready" =>
       /\ dbFile = "absent" /\ db = Empty
       /\ \A r \in Requests : todo[r] \in Starts /\ reply[r] # "ok"

AllKept == \A r \in Requests : Progress(r) /\ Kept(r) /\ Shown(r)

SqliteInv == OnDatabase /\ AllKept /\ FeedbackTrue /\ AuditTrue

\* The calls that are left after each one.
LEMMA TodoTails ==
  /\ Tail(<<"init">>) = <<>> /\ Tail(<<"audit">>) = <<>>
  /\ Tail(<<"init", "audit">>) = <<"audit">>
  /\ Tail(<<"event", "init", "audit">>) = <<"init", "audit">>
  /\ Tail(<<"feedback", "init", "audit">>) = <<"init", "audit">>
  /\ Tail(<<"init", "event", "init", "audit">>) = <<"event", "init", "audit">>
  /\ Tail(<<"init", "feedback", "init", "audit">>) = <<"feedback", "init", "audit">>
OBVIOUS

LEMMA TodoHeads ==
  /\ \A x \in Starts \ {<<>>} : Head(x) = "init"
  /\ Head(<<"init", "audit">>) = "init" /\ Head(<<"audit">>) = "audit"
  /\ Head(<<"event", "init", "audit">>) = "event"
  /\ Head(<<"feedback", "init", "audit">>) = "feedback"
BY DEF Starts

LEMMA TodoSetsApart ==
  /\ <<>> \notin BeforeEvent \union BeforeFeedback \union BeforeAudit
  /\ BeforeEvent \intersect (BeforeFeedback \union BeforeAudit) = {}
  /\ BeforeFeedback \intersect BeforeAudit = {}
  /\ Starts \intersect BeforeAudit = {}
BY DEF Starts, BeforeEvent, BeforeFeedback, BeforeAudit

\* An insertion adds one row to its table.
LEMMA InsertRows ==
  ASSUME NEW c \in Content, NEW t \in Tables, NEW r, NEW e
  PROVE  /\ RowsOf(Insert(c, t, r, e), t) =
              RowsOf(c, t) \union {[id |-> c.next[t], by |-> r, event |-> e]}
         /\ \A u \in Tables \ {t} : RowsOf(Insert(c, t, r, e), u) = RowsOf(c, u)
         /\ \A u \in Tables : c.next[u] # 0 => Insert(c, t, r, e).next[u] # 0
<1>. DEFINE d == Insert(c, t, r, e)
            x == [id |-> c.next[t], by |-> r, event |-> e]
<1>1. /\ c.rows \in [Tables -> Seq(Row)] /\ c.next \in [Tables -> Nat]
      /\ c.rows[t] \in Seq(Row) /\ c.next[t] \in Nat
  BY DEF Content
<1>2. /\ d.rows = [c.rows EXCEPT ![t] = Append(@, x)]
      /\ d.next = [c.next EXCEPT ![t] = @ + 1]
  BY DEF Insert
<1>. HIDE DEF d, x
<1>3. DOMAIN c.rows[t] = 1..Len(c.rows[t]) /\ Len(c.rows[t]) \in Nat
  BY <1>1, LenProperties
<1>4. d.rows[t] = Append(c.rows[t], x)
  BY <1>1, <1>2
<1>5. c.rows[t] \in Seq(Row \union {x})
  BY <1>1
<1>6. /\ Len(d.rows[t]) = Len(c.rows[t]) + 1
      /\ DOMAIN d.rows[t] = 1..(Len(c.rows[t]) + 1)
      /\ \A i \in 1..Len(c.rows[t]) : d.rows[t][i] = c.rows[t][i]
      /\ d.rows[t][Len(c.rows[t]) + 1] = x
  <2>1. d.rows[t] \in Seq(Row \union {x})
    BY <1>4, <1>5, AppendProperties
  <2>2. QED
    BY <1>4, <1>5, <2>1, AppendProperties, LenProperties
<1>7. RowsOf(d, t) = RowsOf(c, t) \union {x}
  <2>1. ASSUME NEW y \in RowsOf(d, t) PROVE y \in RowsOf(c, t) \union {x}
    <3>1. PICK i \in DOMAIN d.rows[t] : y = d.rows[t][i]
      BY <2>1 DEF RowsOf
    <3>2. i \in 1..Len(c.rows[t]) \/ i = Len(c.rows[t]) + 1
      BY <1>3, <1>6, <3>1
    <3>3. QED
      BY <1>3, <1>6, <3>1, <3>2 DEF RowsOf
  <2>2. ASSUME NEW y \in RowsOf(c, t) PROVE y \in RowsOf(d, t)
    <3>1. PICK i \in DOMAIN c.rows[t] : y = c.rows[t][i]
      BY <2>2 DEF RowsOf
    <3>2. i \in DOMAIN d.rows[t] /\ d.rows[t][i] = y
      BY <1>3, <1>6, <3>1
    <3>3. QED
      BY <3>2 DEF RowsOf
  <2>3. x \in RowsOf(d, t)
    <3>1. Len(c.rows[t]) + 1 \in DOMAIN d.rows[t]
      BY <1>3, <1>6
    <3>2. QED
      BY <1>6, <3>1 DEF RowsOf
  <2>4. QED
    BY <2>1, <2>2, <2>3
<1>8. \A u \in Tables \ {t} : d.rows[u] = c.rows[u] /\ d.next[u] = c.next[u]
  BY <1>1, <1>2
<1>9. d.next[t] # 0
  BY <1>1, <1>2
<1>10. QED
  BY <1>7, <1>8, <1>9 DEF d, x, RowsOf

\* The rows of a content are rows.
LEMMA RowTypes ==
  ASSUME TypeOK, NEW t \in Tables
  PROVE  RowsOf(db, t) \subseteq Row
<1>1. db.rows[t] \in Seq(Row)
  BY DEF TypeOK, Content
<1>2. QED
  BY <1>1, ElementOfSeq, LenProperties DEF RowsOf

\* A step of r, which has not been answered, leaves what it says of the others.
LEMMA OthersKept ==
  ASSUME TypeOK, AllKept, NEW r \in Requests, reply[r] = "none",
         \A q \in Requests \ {r} : /\ todo'[q] = todo[q] /\ reply'[q] = reply[q]
                                   /\ event'[q] = event[q] /\ meant'[q] = meant[q],
         \A t \in Tables : RowsOf(db, t) \subseteq RowsOf(db', t)
  PROVE  \A q \in Requests \ {r} : (Progress(q) /\ Kept(q) /\ Shown(q))'
<1>1. SUFFICES ASSUME NEW q \in Requests \ {r}
               PROVE  (Progress(q) /\ Kept(q) /\ Shown(q))'
  OBVIOUS
<1>2. Progress(q) /\ Kept(q) /\ Shown(q)
  BY DEF AllKept
<1>3. todo'[q] = todo[q] /\ reply'[q] = reply[q] /\ event'[q] = event[q] /\ meant'[q] = meant[q]
  OBVIOUS
<1>4. Progress(q)'
  BY <1>2, <1>3 DEF Progress, Busy
<1>5. Kept(q)'
  <2>1. "monitoring_events" \in Tables /\ "feedback" \in Tables /\ "audit_logs" \in Tables
    BY DEF Tables
  <2>2. QED
    BY <1>2, <1>3, <2>1 DEF Kept, HasRow
<1>6. Shown(q)'
  <2>1. ASSUME meant[q] # NoRequest PROVE meant[q] \in Requests \ {r}
    BY <1>2, <2>1 DEF Shown, TypeOK
  <2>2. QED
    BY <1>2, <1>3, <2>1 DEF Shown
<1>7. QED
  BY <1>4, <1>5, <1>6

\* A step that stores nothing and changes the event or the analysis meant of
\* no request that has stored a row leaves the rows true.
LEMMA RowsStayTrue ==
  ASSUME TypeOK, FeedbackTrue, AuditTrue, db' = db,
         \A q \in Requests : meant[q] # NoRequest => meant'[q] = meant[q] /\ event'[q] = event[q]
  PROVE  FeedbackTrue' /\ AuditTrue'
<1>1. \A f \in RowsOf(db, "feedback") : f.by \in Requests
  BY RowTypes DEF Tables, Row
<1>2. FeedbackTrue'
  BY <1>1 DEF FeedbackTrue
<1>3. AuditTrue'
  BY DEF AuditTrue, HasRow
<1>4. QED
  BY <1>2, <1>3

\* A request is accepted.
LEMMA BeginKept ==
  ASSUME TypeOK, SqliteInv, NEW r \in Requests, Analyze(r) \/ List(r) \/ GiveFeedback(r)
  PROVE  SqliteInv'
<1>1. /\ OnDatabase /\ AllKept /\ FeedbackTrue /\ AuditTrue
      /\ Progress(r) /\ Kept(r) /\ Shown(r)
  BY DEF SqliteInv, AllKept
<1>2. ~Busy(r) /\ todo[r] = <<>> /\ reply[r] = "none"
  BY DEF Analyze, List, GiveFeedback, Fresh, Busy
<1>3. meant[r] = NoRequest /\ event[r] = 0
  BY <1>1, <1>2 DEF Progress
<1>4. UNCHANGED <<json, db, dbFile, file, phase, reply>>
  BY DEF Analyze, List, GiveFeedback, stored
<1>5. \A q \in Requests \ {r} : /\ todo'[q] = todo[q] /\ reply'[q] = reply[q]
                                /\ event'[q] = event[q] /\ meant'[q] = meant[q]
  BY DEF Analyze, List, GiveFeedback, TypeOK
<1>6. \A q \in Requests \ {r} : (Progress(q) /\ Kept(q) /\ Shown(q))'
  BY <1>1, <1>2, <1>4, <1>5, OthersKept
<1>7. todo'[r] \in Starts \ {<<>>} /\ Progress(r)' /\ Kept(r)' /\ Shown(r)'
  <2>1. CASE Analyze(r) \/ List(r)
    <3>1. /\ todo'[r] \in Starts \ {<<>>} /\ todo'[r] \in BeforeEvent
          /\ event' = event /\ meant' = meant /\ reply' = reply
      <4>1. CASE Analyze(r)
        BY <4>1 DEF Analyze, Starts, BeforeEvent, TypeOK
      <4>2. CASE List(r)
        BY <4>2 DEF List, Starts, BeforeEvent, TypeOK
      <4>3. QED
        BY <2>1, <4>1, <4>2
    <3>2. Progress(r)'
      BY <1>2, <1>3, <3>1, TodoSetsApart DEF Progress, Busy
    <3>3. Kept(r)' /\ Shown(r)'
      BY <1>2, <1>3, <3>1 DEF Kept, Shown
    <3>4. QED
      BY <3>1, <3>2, <3>3
  <2>2. CASE GiveFeedback(r)
    <3>1. PICK q \in Requests :
            /\ reply[q] = "ok" /\ event[q] # 0 /\ meant[q] = NoRequest
            /\ event' = [event EXCEPT ![r] = event[q]]
            /\ meant' = [meant EXCEPT ![r] = q]
      BY <2>2 DEF GiveFeedback
    <3>2. /\ todo'[r] \in Starts \ {<<>>} /\ todo'[r] \in BeforeFeedback /\ reply' = reply
      BY <2>2 DEF GiveFeedback, Starts, BeforeFeedback, TypeOK
    <3>3. event'[r] = event[q] /\ meant'[r] = q /\ q # r /\ q # NoRequest
      BY <1>2, <3>1, NoRequestAssumption DEF TypeOK
    <3>4. event'[q] = event[q] /\ meant'[q] = NoRequest
      BY <1>5, <3>1, <3>3
    <3>5. Progress(r)'
      BY <1>2, <3>2, <3>3, TodoSetsApart DEF Progress, Busy
    <3>6. Kept(r)'
      BY <1>2, <3>2, <3>3, TodoSetsApart DEF Kept
    <3>7. Shown(r)'
      BY <3>1, <3>2, <3>3, <3>4 DEF Shown
    <3>8. QED
      BY <3>2, <3>5, <3>6, <3>7
  <2>3. QED
    BY <2>1, <2>2
<1>8. AllKept'
  BY <1>6, <1>7 DEF AllKept
<1>9. FeedbackTrue' /\ AuditTrue'
  BY <1>1, <1>3, <1>4, <1>5, RowsStayTrue
<1>10. OnDatabase'
  BY <1>1, <1>4, <1>5, <1>7 DEF OnDatabase
<1>11. QED
  BY <1>8, <1>9, <1>10 DEF SqliteInv

\* A request fails.
LEMMA FailKept ==
  ASSUME TypeOK, SqliteInv, NEW r \in Requests, Fail(r)
  PROVE  SqliteInv'
<1>1. /\ OnDatabase /\ AllKept /\ FeedbackTrue /\ AuditTrue
      /\ Progress(r) /\ Kept(r) /\ Shown(r)
  BY DEF SqliteInv, AllKept
<1>2. Busy(r) /\ reply[r] = "none"
  BY <1>1 DEF Fail, Progress
<1>3. UNCHANGED <<json, db, dbFile, file, phase, event, meant>>
  BY DEF Fail, stored
<1>4. todo'[r] = <<>> /\ reply'[r] = "error"
  BY DEF Fail, TypeOK
<1>5. \A q \in Requests \ {r} : todo'[q] = todo[q] /\ reply'[q] = reply[q]
  BY DEF Fail, TypeOK
<1>6. \A q \in Requests \ {r} : (Progress(q) /\ Kept(q) /\ Shown(q))'
  BY <1>1, <1>2, <1>3, <1>5, OthersKept
<1>7. Progress(r)'
  BY <1>3, <1>4, TodoSetsApart DEF Progress, Busy
<1>8. Kept(r)'
  BY <1>1, <1>3, <1>4, TodoSetsApart DEF Kept
<1>9. Shown(r)'
  <2>1. ASSUME meant[r] # NoRequest PROVE meant[r] \in Requests \ {r}
    BY <1>1, <1>2, <2>1 DEF Shown, TypeOK
  <2>2. QED
    BY <1>1, <1>3, <1>5, <2>1 DEF Shown
<1>10. AllKept'
  BY <1>6, <1>7, <1>8, <1>9 DEF AllKept
<1>11. FeedbackTrue' /\ AuditTrue'
  BY <1>1, <1>3, RowsStayTrue
<1>12. OnDatabase'
  BY <1>1, <1>3, <1>4, <1>5 DEF OnDatabase, Starts
<1>13. QED
  BY <1>10, <1>11, <1>12 DEF SqliteInv

\* The dashboard dies: what has been stored and answered stays.
LEMMA CrashKept ==
  ASSUME TypeOK, SqliteInv, Crash
  PROVE  SqliteInv'
<1>1. OnDatabase /\ AllKept /\ FeedbackTrue /\ AuditTrue
  BY DEF SqliteInv
<1>2. Writing = {}
  BY <1>1 DEF OnDatabase, Writing
<1>3. UNCHANGED <<db, dbFile, file, event, meant>> /\ json' = FALSE
  BY <1>2 DEF Crash
<1>4. \A r \in Requests :
        /\ todo'[r] = <<>> /\ phase'[r] = "read"
        /\ reply'[r] = IF Busy(r) THEN "error" ELSE reply[r]
  BY DEF Crash
<1>5. ASSUME NEW r \in Requests PROVE (Progress(r) /\ Kept(r) /\ Shown(r))'
  <2>1. Progress(r) /\ Kept(r) /\ Shown(r)
    BY <1>1 DEF AllKept
  <2>2. Progress(r)'
    BY <1>3, <1>4, <2>1, TodoSetsApart DEF Progress, Busy
  <2>3. Kept(r)'
    BY <1>3, <1>4, <2>1, TodoSetsApart DEF Kept, HasRow
  <2>4. Shown(r)'
    <3>1. ASSUME meant[r] # NoRequest
          PROVE  meant[r] \in Requests /\ reply'[meant[r]] = "ok"
      <4>1. meant[r] \in Requests /\ reply[meant[r]] = "ok"
        BY <2>1, <3>1 DEF Shown, TypeOK
      <4>2. ~Busy(meant[r])
        BY <1>1, <4>1 DEF AllKept, Progress
      <4>3. QED
        BY <1>4, <4>1, <4>2
    <3>2. QED
      BY <1>3, <2>1, <3>1 DEF Shown
  <2>5. QED
    BY <2>2, <2>3, <2>4
<1>6. AllKept'
  BY <1>5 DEF AllKept
<1>7. FeedbackTrue' /\ AuditTrue'
  BY <1>1, <1>3, RowsStayTrue
<1>8. OnDatabase'
  BY <1>1, <1>3, <1>4 DEF OnDatabase, Starts
<1>9. QED
  BY <1>6, <1>7, <1>8 DEF SqliteInv

\* A transaction of r: what it does besides the insertion.
LEMMA TransactSteps ==
  ASSUME TypeOK, SqliteInv, NEW r \in Requests, Transact(r)
  PROVE  /\ Busy(r) /\ reply[r] = "none" /\ dbFile' = "ready" /\ TRUE \in DbOpens
         /\ todo'[r] = Tail(todo[r])
         /\ reply'[r] = IF Len(todo[r]) = 1 THEN "ok" ELSE "none"
         /\ event'[r] = EventAfter(Head(todo[r]), db, r)
         /\ db' \in Changed(Head(todo[r]), db, r)
         /\ UNCHANGED <<json, file, meant>>
         /\ \A q \in Requests : phase'[q] = "read"
         /\ \A q \in Requests \ {r} :
              todo'[q] = todo[q] /\ reply'[q] = reply[q] /\ event'[q] = event[q]
<1>1. OnDatabase /\ Progress(r)
  BY DEF SqliteInv, AllKept
<1>2. Busy(r) /\ reply[r] = "none"
  BY <1>1 DEF Transact, Progress
<1>3. /\ todo' = [todo EXCEPT ![r] = Tail(@)]
      /\ phase' = [phase EXCEPT ![r] = "read"]
      /\ reply' = [reply EXCEPT ![r] = IF Len(todo[r]) = 1 THEN "ok" ELSE @]
      /\ event' = [event EXCEPT ![r] = EventAfter(Head(todo[r]), db, r)]
      /\ UNCHANGED <<json, file, meant>> /\ dbFile' = "ready"
      /\ Head(todo[r]) = "init" => TRUE \in DbOpens
      /\ db' \in Changed(Head(todo[r]), db, r)
  BY DEF Transact, Return
<1>4. /\ todo'[r] = Tail(todo[r])
      /\ reply'[r] = IF Len(todo[r]) = 1 THEN "ok" ELSE "none"
      /\ event'[r] = EventAfter(Head(todo[r]), db, r)
  BY <1>2, <1>3 DEF TypeOK
<1>5. \A q \in Requests \ {r} :
        todo'[q] = todo[q] /\ reply'[q] = reply[q] /\ event'[q] = event[q]
  BY <1>3 DEF TypeOK
<1>6. \A q \in Requests : phase'[q] = "read"
  BY <1>1, <1>3 DEF OnDatabase, TypeOK
<1>7. TRUE \in DbOpens
  <2>1. CASE dbFile = "ready"
    BY <1>1, <2>1 DEF OnDatabase
  <2>2. CASE dbFile # "ready"
    <3>1. todo[r] \in Starts \ {<<>>}
      BY <1>1, <1>2, <2>2 DEF OnDatabase, Busy
    <3>2. QED
      BY <1>3, <3>1, TodoHeads
  <2>3. QED
    BY <2>1, <2>2
<1>8. QED
  BY <1>2, <1>3, <1>4, <1>5, <1>6, <1>7

\* What the next call of r is, and what is left to do after it.
LEMMA NextCall ==
  ASSUME NEW r \in Requests, Progress(r), Busy(r)
  PROVE  \/ /\ Head(todo[r]) = "init" /\ Len(todo[r]) = 1 /\ Tail(todo[r]) = <<>>
            /\ todo[r] \in BeforeEvent
         \/ /\ Head(todo[r]) = "init" /\ Len(todo[r]) # 1
            /\ \/ todo[r] \in BeforeEvent /\ Tail(todo[r]) \in BeforeEvent
               \/ todo[r] \in BeforeFeedback /\ Tail(todo[r]) \in BeforeFeedback
               \/ todo[r] \in BeforeAudit /\ Tail(todo[r]) \in BeforeAudit
         \/ /\ Head(todo[r]) = "event" /\ Len(todo[r]) # 1
            /\ todo[r] \in BeforeEvent /\ Tail(todo[r]) \in BeforeAudit
         \/ /\ Head(todo[r]) = "feedback" /\ Len(todo[r]) # 1
            /\ todo[r] \in BeforeFeedback /\ Tail(todo[r]) \in BeforeAudit
         \/ /\ Head(todo[r]) = "audit" /\ Len(todo[r]) = 1 /\ Tail(todo[r]) = <<>>
            /\ todo[r] \in BeforeAudit
<1>1. todo[r] \in BeforeEvent \union BeforeFeedback \union BeforeAudit
  BY DEF Progress, Busy
<1>. DEFINE left == todo[r]
<1>2. left \in BeforeEvent \union BeforeFeedback \union BeforeAudit
  BY <1>1
<1>. HIDE DEF left
<1>3. CASE left \in BeforeEvent
  <2>1. CASE left = <<"init">>
    BY <1>3, <2>1, TodoTails DEF left
  <2>2. CASE left = <<"init", "event", "init", "audit">>
    BY <1>3, <2>2, TodoTails DEF left, BeforeEvent
  <2>3. CASE left = <<"event", "init", "audit">>
    BY <1>3, <2>3, TodoTails DEF left, BeforeAudit
  <2>4. QED
    BY <1>3, <2>1, <2>2, <2>3 DEF BeforeEvent
<1>4. CASE left \in BeforeFeedback
  <2>1. CASE left = <<"init", "feedback", "init", "audit">>
    BY <1>4, <2>1, TodoTails DEF left, BeforeFeedback
  <2>2. CASE left = <<"feedback", "init", "audit">>
    BY <1>4, <2>2, TodoTails DEF left, BeforeAudit
  <2>3. QED
    BY <1>4, <2>1, <2>2 DEF BeforeFeedback
<1>5. CASE left \in BeforeAudit
  <2>1. CASE left = <<"init", "audit">>
    BY <1>5, <2>1, TodoTails DEF left, BeforeAudit
  <2>2. CASE left = <<"audit">>
    BY <1>5, <2>2, TodoTails DEF left, BeforeAudit
  <2>3. QED
    BY <1>5, <2>1, <2>2 DEF BeforeAudit
<1>6. QED
  BY <1>2, <1>3, <1>4, <1>5

\* What each call stores.
LEMMA TransactRows ==
  ASSUME TypeOK, SqliteInv, NEW r \in Requests, Transact(r)
  PROVE  LET call == Head(todo[r]) IN
         /\ call = "init" => db' = db /\ event'[r] = event[r]
         /\ call = "event" =>
              /\ event'[r] = db.next["monitoring_events"]
              /\ RowsOf(db', "monitoring_events") = RowsOf(db, "monitoring_events")
                   \union {[id |-> event'[r], by |-> r, event |-> event'[r]]}
              /\ RowsOf(db', "feedback") = RowsOf(db, "feedback")
              /\ RowsOf(db', "audit_logs") = RowsOf(db, "audit_logs")
         /\ call = "feedback" =>
              /\ event'[r] = event[r]
              /\ RowsOf(db', "feedback") = RowsOf(db, "feedback")
                   \union {[id |-> db.next["feedback"], by |-> r, event |-> event[r]]}
              /\ RowsOf(db', "monitoring_events") = RowsOf(db, "monitoring_events")
              /\ RowsOf(db', "audit_logs") = RowsOf(db, "audit_logs")
         /\ call = "audit" =>
              /\ event'[r] = event[r]
              /\ RowsOf(db', "audit_logs") = RowsOf(db, "audit_logs")
                   \union {[id |-> db.next["audit_logs"], by |-> r, event |-> event[r]]}
              /\ RowsOf(db', "monitoring_events") = RowsOf(db, "monitoring_events")
              /\ RowsOf(db', "feedback") = RowsOf(db, "feedback")
         /\ db'.next["monitoring_events"] # 0
<1>. DEFINE call == Head(todo[r])
<1>1. /\ db' \in Changed(call, db, r) /\ event'[r] = EventAfter(call, db, r)
      /\ call \in Calls /\ db \in Content
  BY TransactSteps, TodoTypes DEF TypeOK
<1>2. db.next["monitoring_events"] # 0
  BY DEF SqliteInv, OnDatabase
<1>3. /\ "monitoring_events" \in Tables /\ "feedback" \in Tables /\ "audit_logs" \in Tables
      /\ "monitoring_events" # "feedback" /\ "feedback" # "audit_logs"
      /\ "monitoring_events" # "audit_logs"
  BY DEF Tables
<1>. HIDE DEF call
<1>4. ASSUME call = "init"
      PROVE  db' = db /\ event'[r] = event[r]
  BY <1>1, <1>4 DEF Changed, EventAfter
<1>5. ASSUME call = "event"
      PROVE  /\ event'[r] = db.next["monitoring_events"]
             /\ db' = Insert(db, "monitoring_events", r, event'[r])
  BY <1>1, <1>5 DEF Changed, EventAfter
<1>6. ASSUME call = "feedback"
      PROVE  event'[r] = event[r] /\ db' = Insert(db, "feedback", r, event[r])
  BY <1>1, <1>6 DEF Changed, EventAfter
<1>7. ASSUME call = "audit"
      PROVE  event'[r] = event[r] /\ db' = Insert(db, "audit_logs", r, event[r])
  BY <1>1, <1>7 DEF Changed, EventAfter
<1>8. db'.next["monitoring_events"] # 0
  BY <1>1, <1>2, <1>3, <1>4, <1>5, <1>6, <1>7, InsertRows DEF Calls
<1>9. ASSUME call = "event"
      PROVE  /\ RowsOf(db', "monitoring_events") = RowsOf(db, "monitoring_events")
                  \union {[id |-> event'[r], by |-> r, event |-> event'[r]]}
             /\ RowsOf(db', "feedback") = RowsOf(db, "feedback")
             /\ RowsOf(db', "audit_logs") = RowsOf(db, "audit_logs")
  BY <1>1, <1>3, <1>5, <1>9, InsertRows
<1>10. ASSUME call = "feedback"
      PROVE  /\ RowsOf(db', "feedback") = RowsOf(db, "feedback")
                   \union {[id |-> db.next["feedback"], by |-> r, event |-> event[r]]}
             /\ RowsOf(db', "monitoring_events") = RowsOf(db, "monitoring_events")
             /\ RowsOf(db', "audit_logs") = RowsOf(db, "audit_logs")
  BY <1>1, <1>3, <1>6, <1>10, InsertRows
<1>11. ASSUME call = "audit"
      PROVE  /\ RowsOf(db', "audit_logs") = RowsOf(db, "audit_logs")
                   \union {[id |-> db.next["audit_logs"], by |-> r, event |-> event[r]]}
             /\ RowsOf(db', "monitoring_events") = RowsOf(db, "monitoring_events")
             /\ RowsOf(db', "feedback") = RowsOf(db, "feedback")
  BY <1>1, <1>3, <1>7, <1>11, InsertRows
<1>12. QED
  BY <1>4, <1>5, <1>6, <1>7, <1>8, <1>9, <1>10, <1>11 DEF call

\* A transaction keeps every earlier row.
LEMMA RowsGrow ==
  ASSUME TypeOK, SqliteInv, NEW r \in Requests, Transact(r)
  PROVE  \A t \in Tables : RowsOf(db, t) \subseteq RowsOf(db', t)
<1>1. Head(todo[r]) \in Calls
  BY TransactSteps, TodoTypes
<1>2. QED
  BY <1>1, TransactRows DEF Calls, Tables

LEMMA TransactKept ==
  ASSUME TypeOK, SqliteInv, NEW r \in Requests, Transact(r)
  PROVE  SqliteInv'
<1>. DEFINE call == Head(todo[r])
            done == IF Len(todo[r]) = 1 THEN "ok" ELSE "none"
<1>1. /\ OnDatabase /\ AllKept /\ FeedbackTrue /\ AuditTrue
      /\ Progress(r) /\ Kept(r) /\ Shown(r)
  BY DEF SqliteInv, AllKept
<1>2. /\ Busy(r) /\ reply[r] = "none" /\ dbFile' = "ready" /\ TRUE \in DbOpens
      /\ todo'[r] = Tail(todo[r]) /\ reply'[r] = done
      /\ UNCHANGED <<json, file, meant>>
      /\ \A q \in Requests : phase'[q] = "read"
      /\ \A q \in Requests \ {r} :
           todo'[q] = todo[q] /\ reply'[q] = reply[q] /\ event'[q] = event[q]
  BY TransactSteps
<1>3. \A t \in Tables : RowsOf(db, t) \subseteq RowsOf(db', t)
  BY RowsGrow
<1>4. db'.next["monitoring_events"] # 0 /\ db.next["monitoring_events"] # 0
  BY <1>1, TransactRows DEF OnDatabase
<1>5. OnDatabase'
  BY <1>1, <1>2, <1>4 DEF OnDatabase
<1>6. \A q \in Requests \ {r} : (Progress(q) /\ Kept(q) /\ Shown(q))'
  BY <1>1, <1>2, <1>3, OthersKept
<1>7. meant[r] # NoRequest => meant[r] \in Requests \ {r}
  BY <1>1, <1>2 DEF Shown, TypeOK
<1>8. "monitoring_events" \in Tables /\ "feedback" \in Tables /\ "audit_logs" \in Tables
  BY DEF Tables
<1>9. \A t \in Tables : \A q, e : HasRow(t, q, e) => HasRow(t, q, e)'
  BY <1>3 DEF HasRow
<1>10. \A f \in RowsOf(db, "feedback") : f.by \in Requests
  BY <1>8, RowTypes DEF Row
\* The event of a feedback stays.
<1>11. ASSUME meant[r] # NoRequest PROVE event'[r] = event[r]
  <2>1. todo[r] \notin BeforeEvent
    BY <1>1, <1>11 DEF Progress
  <2>2. call # "event"
    BY <1>1, <1>2, <2>1, NextCall
  <2>3. call \in Calls
    BY <1>2, TodoTypes
  <2>4. QED
    BY <2>2, <2>3, TransactRows DEF Calls
<1>12. Shown(r)'
  BY <1>1, <1>2, <1>7, <1>11 DEF Shown
<1>. HIDE DEF call
<1>13. ASSUME call = "init"
       PROVE  Progress(r)' /\ Kept(r)' /\ FeedbackTrue' /\ AuditTrue'
  <2>1. db' = db /\ event'[r] = event[r]
    BY <1>13, TransactRows DEF call
  <2>2. FeedbackTrue' /\ AuditTrue'
    BY <1>1, <1>2, <2>1, RowsStayTrue
  <2>3. Progress(r)' /\ Kept(r)'
    <3>1. CASE Len(todo[r]) = 1
      <4>1. todo[r] \in BeforeEvent /\ todo'[r] = <<>> /\ reply'[r] = "ok"
        BY <1>1, <1>2, <1>13, <3>1, NextCall DEF call
      <4>2. meant'[r] = NoRequest /\ event'[r] = 0
        BY <1>1, <1>2, <2>1, <4>1 DEF Progress
      <4>3. QED
        BY <4>1, <4>2, TodoSetsApart DEF Progress, Kept, Busy
    <3>2. CASE Len(todo[r]) # 1
      <4>1. /\ reply'[r] = "none"
            /\ \/ todo[r] \in BeforeEvent /\ todo'[r] \in BeforeEvent
               \/ todo[r] \in BeforeFeedback /\ todo'[r] \in BeforeFeedback
               \/ todo[r] \in BeforeAudit /\ todo'[r] \in BeforeAudit
        BY <1>1, <1>2, <1>13, <3>2, NextCall DEF call
      <4>2. Progress(r)'
        BY <1>1, <1>2, <2>1, <4>1, TodoSetsApart DEF Progress
      <4>3. Kept(r)'
        BY <1>1, <1>2, <2>1, <4>1, TodoSetsApart DEF Kept, HasRow
      <4>4. QED
        BY <4>2, <4>3
    <3>3. QED
      BY <3>1, <3>2
  <2>4. QED
    BY <2>2, <2>3
<1>14. ASSUME call = "event"
       PROVE  Progress(r)' /\ Kept(r)' /\ FeedbackTrue' /\ AuditTrue'
  <2>1. /\ event'[r] = db.next["monitoring_events"]
        /\ RowsOf(db', "monitoring_events") = RowsOf(db, "monitoring_events")
             \union {[id |-> event'[r], by |-> r, event |-> event'[r]]}
        /\ RowsOf(db', "feedback") = RowsOf(db, "feedback")
        /\ RowsOf(db', "audit_logs") = RowsOf(db, "audit_logs")
    BY <1>14, TransactRows DEF call
  <2>2. /\ todo[r] \in BeforeEvent /\ todo'[r] \in BeforeAudit /\ reply'[r] = "none"
        /\ meant'[r] = NoRequest /\ meant[r] = NoRequest
    BY <1>1, <1>2, <1>14, NextCall DEF call, Progress
  <2>3. event'[r] # 0
    BY <1>4, <2>1
  <2>4. Progress(r)'
    BY <2>2, <2>3, TodoSetsApart DEF Progress
  <2>5. Kept(r)'
    <3>. DEFINE x == [id |-> event'[r], by |-> r, event |-> event'[r]]
    <3>0. x.by = r /\ x.event = event'[r] /\ x.id = event'[r] /\ x \in RowsOf(db', "monitoring_events")
      BY <2>1
    <3>. HIDE DEF x
    <3>1. \E y \in RowsOf(db', "monitoring_events") :
            y.by = r /\ y.event = event'[r] /\ y.id = event'[r]
      BY <3>0
    <3>2. QED
      BY <2>2, <3>1 DEF Kept
  <2>6. FeedbackTrue'
    BY <1>1, <1>2, <1>10, <2>1, <2>2 DEF FeedbackTrue
  <2>7. AuditTrue'
    BY <1>1, <1>8, <1>9, <2>1 DEF AuditTrue
  <2>8. QED
    BY <2>4, <2>5, <2>6, <2>7
<1>15. ASSUME call = "feedback"
       PROVE  Progress(r)' /\ Kept(r)' /\ FeedbackTrue' /\ AuditTrue'
  <2>1. /\ event'[r] = event[r]
        /\ RowsOf(db', "feedback") = RowsOf(db, "feedback")
             \union {[id |-> db.next["feedback"], by |-> r, event |-> event[r]]}
        /\ RowsOf(db', "monitoring_events") = RowsOf(db, "monitoring_events")
        /\ RowsOf(db', "audit_logs") = RowsOf(db, "audit_logs")
    BY <1>15, TransactRows DEF call
  <2>2. /\ todo[r] \in BeforeFeedback /\ todo'[r] \in BeforeAudit /\ reply'[r] = "none"
        /\ meant'[r] # NoRequest /\ meant[r] # NoRequest /\ event'[r] # 0
    BY <1>1, <1>2, <1>15, <2>1, NextCall DEF call, Progress, Shown
  <2>3. Progress(r)'
    BY <2>2, TodoSetsApart DEF Progress
  <2>4. Kept(r)'
    <3>. DEFINE x == [id |-> db.next["feedback"], by |-> r, event |-> event[r]]
    <3>1. x.by = r /\ x.event = event'[r] /\ x \in RowsOf(db', "feedback")
      BY <2>1
    <3>. HIDE DEF x
    <3>2. HasRow("feedback", r, event[r])'
      BY <3>1 DEF HasRow
    <3>3. todo'[r] \in BeforeAudit /\ meant'[r] # NoRequest /\ reply'[r] # "ok"
      BY <2>2
    <3>4. QED
      BY ONLY <3>2, <3>3 DEF Kept
  <2>5. FeedbackTrue'
    BY <1>1, <1>2, <1>10, <2>1, <2>2 DEF FeedbackTrue
  <2>6. AuditTrue'
    BY <1>1, <1>8, <1>9, <2>1 DEF AuditTrue
  <2>7. QED
    BY <2>3, <2>4, <2>5, <2>6
<1>16. ASSUME call = "audit"
       PROVE  Progress(r)' /\ Kept(r)' /\ FeedbackTrue' /\ AuditTrue'
  <2>1. /\ event'[r] = event[r]
        /\ RowsOf(db', "audit_logs") = RowsOf(db, "audit_logs")
             \union {[id |-> db.next["audit_logs"], by |-> r, event |-> event[r]]}
        /\ RowsOf(db', "monitoring_events") = RowsOf(db, "monitoring_events")
        /\ RowsOf(db', "feedback") = RowsOf(db, "feedback")
    BY <1>16, TransactRows DEF call
  <2>2. /\ todo[r] \in BeforeAudit /\ todo'[r] = <<>> /\ reply'[r] = "ok" /\ event[r] # 0
    BY <1>1, <1>2, <1>16, NextCall DEF call, Progress
  <2>3. Progress(r)'
    BY <2>2, TodoSetsApart DEF Progress, Busy
  <2>4. Kept(r)'
    <3>. DEFINE x == [id |-> db.next["audit_logs"], by |-> r, event |-> event[r]]
    <3>1. x.by = r /\ x.event = event'[r] /\ x \in RowsOf(db', "audit_logs")
      BY <2>1
    <3>. HIDE DEF x
    <3>2. HasRow("audit_logs", r, event[r])'
      BY <3>1 DEF HasRow
    <3>3. meant[r] # NoRequest => HasRow("feedback", r, event[r])'
      <4>1. meant[r] # NoRequest => HasRow("feedback", r, event[r])
        BY <1>1, <2>2 DEF Kept
      <4>2. HasRow("feedback", r, event[r]) => HasRow("feedback", r, event[r])'
        BY <2>1 DEF HasRow
      <4>3. QED
        BY <4>1, <4>2
    <3>4. meant[r] = NoRequest =>
            \E y \in RowsOf(db', "monitoring_events") :
              y.by = r /\ y.event = event'[r] /\ y.id = event'[r]
      BY <1>1, <2>1, <2>2 DEF Kept
    <3>5. QED
      BY <1>2, <3>2, <3>3, <3>4 DEF Kept
  <2>5. FeedbackTrue'
    BY <1>1, <1>2, <1>10, <2>1 DEF FeedbackTrue
  <2>6. AuditTrue'
    <3>1. ASSUME NEW a \in RowsOf(db, "audit_logs")
          PROVE  HasRow("monitoring_events", a.by, a.event)' \/ HasRow("feedback", a.by, a.event)'
      BY <1>1, <1>8, <1>9 DEF AuditTrue
    <3>2. HasRow("monitoring_events", r, event[r])' \/ HasRow("feedback", r, event[r])'
      BY <1>1, <1>8, <1>9, <2>1, <2>2 DEF Kept, HasRow
    <3>3. QED
      BY <2>1, <3>1, <3>2 DEF AuditTrue
  <2>7. QED
    BY <2>3, <2>4, <2>5, <2>6
<1>17. Progress(r)' /\ Kept(r)' /\ FeedbackTrue' /\ AuditTrue'
  <2>1. call \in Calls
    BY <1>2, TodoTypes DEF call
  <2>2. QED
    BY <1>13, <1>14, <1>15, <1>16, <2>1 DEF Calls
<1>18. AllKept'
  BY <1>6, <1>12, <1>17 DEF AllKept
<1>19. QED
  BY <1>5, <1>17, <1>18 DEF SqliteInv

LEMMA SqliteInit == Init => SqliteInv
<1>1. SUFFICES ASSUME Init PROVE SqliteInv
  OBVIOUS
<1>2. /\ json = FALSE /\ db = Empty /\ dbFile = "absent" /\ file = Empty
      /\ \A r \in Requests : /\ todo[r] = <<>> /\ phase[r] = "read" /\ event[r] = 0
                             /\ meant[r] = NoRequest /\ reply[r] = "none"
  BY <1>1 DEF Init
<1>3. \A t \in Tables : RowsOf(Empty, t) = {} /\ Empty.next[t] = 1
  <2>1. \A t \in Tables : Empty.rows[t] = <<>> /\ Empty.next[t] = 1
    BY DEF Empty
  <2>2. QED
    BY <2>1 DEF RowsOf
<1>4. "monitoring_events" \in Tables /\ "feedback" \in Tables /\ "audit_logs" \in Tables
  BY DEF Tables
<1>5. OnDatabase
  BY <1>2, <1>3, <1>4 DEF OnDatabase, Starts
<1>6. AllKept
  BY <1>2, TodoSetsApart DEF AllKept, Progress, Kept, Shown, Busy
<1>7. FeedbackTrue /\ AuditTrue
  BY <1>2, <1>3, <1>4 DEF FeedbackTrue, AuditTrue
<1>8. QED
  BY <1>5, <1>6, <1>7 DEF SqliteInv

LEMMA SqliteStep ==
  ASSUME ~AllowFallback, TypeOK, SqliteInv, [Next]_vars
  PROVE  SqliteInv'
<1>1. json = FALSE /\ \A r \in Requests : phase[r] = "read"
  BY DEF SqliteInv, OnDatabase
<1>2. ASSUME NEW r \in Requests, Analyze(r) \/ List(r) \/ GiveFeedback(r)
      PROVE  SqliteInv'
  BY <1>2, BeginKept
<1>3. ASSUME NEW r \in Requests, Serve(r)
      PROVE  SqliteInv'
  <2>1. ~FallBack(r) /\ ~Read(r) /\ ~Open(r) /\ ~Fill(r)
    BY <1>1 DEF FallBack, Read, Open, Fill
  <2>2. QED
    BY <1>3, <2>1, TransactKept, FailKept DEF Serve
<1>4. CASE Crash
  BY <1>4, CrashKept
<1>5. CASE Export \/ UNCHANGED vars
  <2>1. UNCHANGED <<stored, served>>
    BY <1>5 DEF Export, vars
  <2>2. UNCHANGED <<json, db, dbFile, file, todo, phase, event, meant, reply>>
    BY <2>1 DEF stored, served
  <2>3. OnDatabase' /\ FeedbackTrue' /\ AuditTrue'
    BY <2>2 DEF SqliteInv, OnDatabase, FeedbackTrue, AuditTrue, HasRow
  <2>4. AllKept'
    BY <2>2 DEF SqliteInv, AllKept, Progress, Kept, Shown, HasRow, Busy
  <2>5. QED
    BY <2>3, <2>4 DEF SqliteInv
<1>6. QED
  BY <1>2, <1>3, <1>4, <1>5 DEF Next

LEMMA SqliteInvariant == ASSUME ~AllowFallback PROVE Spec => [](Inv /\ SqliteInv)
<1>1. Init => Inv /\ SqliteInv
  BY InitSound, SqliteInit
<1>2. Inv /\ SqliteInv /\ [Next]_vars => (Inv /\ SqliteInv)'
  BY StepSound, SqliteStep DEF Inv, StoreInv
<1>3. QED
  BY <1>1, <1>2, PTL DEF Spec

\* The dashboard reads the database.
LEMMA SqliteVisible ==
  ASSUME SqliteInv
  PROVE  Visible = db
<1>1. json = FALSE /\ file = Empty
  BY DEF SqliteInv, OnDatabase
<1>2. CASE TRUE \in DbOpens
  BY <1>1, <1>2 DEF Visible
<1>3. CASE TRUE \notin DbOpens
  <2>1. db = Empty
    BY <1>1, <1>3 DEF SqliteInv, OnDatabase
  <2>2. QED
    BY <1>1, <1>3, <2>1 DEF Visible
<1>4. QED
  BY <1>2, <1>3

\* An id stands for one event.
LEMMA EventOfId ==
  ASSUME Inv, NEW x \in RowsOf(db, "monitoring_events"),
         NEW y \in RowsOf(db, "monitoring_events"), x.id = y.id
  PROVE  x = y
<1>1. PICK i \in DOMAIN db.rows["monitoring_events"] : x = db.rows["monitoring_events"][i]
  BY DEF RowsOf
<1>2. PICK j \in DOMAIN db.rows["monitoring_events"] : y = db.rows["monitoring_events"][j]
  BY DEF RowsOf
<1>3. IdsSound(db) /\ TypeOK /\ "monitoring_events" \in Tables
  BY DEF Inv, StoreInv, IdsDistinct, Tables
<1>4. db.rows["monitoring_events"] \in Seq(Row)
  BY <1>3 DEF TypeOK, Content
<1>5. i \in Nat /\ j \in Nat
  BY <1>1, <1>2, <1>4, LenProperties
<1>6. x.id \in Nat /\ y.id \in Nat
  BY <1>3, RowTypes DEF Row
<1>7. ~(i < j) /\ ~(j < i)
  BY <1>1, <1>2, <1>3, <1>6 DEF IdsSound
<1>8. QED
  BY <1>1, <1>2, <1>5, <1>7

\* Without the JSON fallback, what was answered is in the database: whatever
\* requests fail, are interrupted between their transactions or are cut off by
\* a crash, an answered Live Analyze has its event and its audit entry there,
\* and an answered feedback its row and its audit entry.
THEOREM AnsweredRequestsAreStored ==
  ASSUME ~AllowFallback PROVE Spec => []AnsweredIsStored
<1>1. ASSUME Inv, SqliteInv PROVE AnsweredIsStored
  <2>1. SUFFICES ASSUME NEW r \in Requests, reply[r] = "ok", event[r] # 0
                 PROVE  /\ IF meant[r] = NoRequest
                           THEN Stored("monitoring_events", r, event[r])
                           ELSE Stored("feedback", r, event[r])
                        /\ Stored("audit_logs", r, event[r])
    BY DEF AnsweredIsStored
  <2>2. Kept(r)
    BY <1>1 DEF SqliteInv, AllKept
  <2>3. QED
    BY <1>1, <2>1, <2>2, SqliteVisible DEF Kept, HasRow, Stored
<1>2. QED
  BY <1>1, SqliteInvariant, PTL

\* Without the JSON fallback, feedback is on the event its author was shown:
\* the id save_feedback is given still stands for the event of the analysis
\* that answered with it.
THEOREM FeedbackIsOnShownEvent ==
  ASSUME ~AllowFallback PROVE Spec => []FeedbackOnShownEvent
<1>1. ASSUME Inv, SqliteInv PROVE FeedbackOnShownEvent
  <2>1. SUFFICES ASSUME NEW f \in RowsOf(db, "feedback"),
                        NEW x \in RowsOf(db, "monitoring_events"), x.id = f.event
                 PROVE  x.by = meant[f.by]
    BY <1>1, SqliteVisible DEF FeedbackOnShownEvent
  <2>2. TypeOK /\ f.by \in Requests /\ meant[f.by] # NoRequest /\ event[f.by] = f.event
    <3>1. TypeOK /\ "feedback" \in Tables
      BY <1>1 DEF Inv, StoreInv, Tables
    <3>2. QED
      BY <1>1, <3>1, RowTypes DEF SqliteInv, FeedbackTrue, Row
  <2>3. /\ meant[f.by] \in Requests /\ meant[meant[f.by]] = NoRequest
        /\ event[meant[f.by]] = f.event /\ event[meant[f.by]] # 0
    BY <1>1, <2>2 DEF SqliteInv, AllKept, Shown, TypeOK
  <2>4. PICK y \in RowsOf(db, "monitoring_events") : y.by = meant[f.by] /\ y.id = f.event
    BY <1>1, <2>3 DEF SqliteInv, AllKept, Kept
  <2>5. QED
    BY <1>1, <2>1, <2>4, EventOfId
<1>2. QED
  BY <1>1, SqliteInvariant, PTL

\* Without the JSON fallback, no audit entry reports an analysis or a feedback
\* that was not stored: write_audit_log is called after the insertion it is
\* about has been committed.
THEOREM AuditEntriesFollowChanges ==
  ASSUME ~AllowFallback PROVE Spec => []AuditFollowsChange
<1>1. ASSUME SqliteInv PROVE AuditFollowsChange
  BY <1>1, SqliteVisible DEF AuditFollowsChange, SqliteInv, AuditTrue, HasRow, Stored
<1>2. QED
  BY <1>1, SqliteInvariant, PTL

\* Without the JSON fallback, an export that succeeds holds the feedback of
\* every request answered by then, joined to the event its author was shown.
THEOREM ExportsAreComplete ==
  ASSUME ~AllowFallback PROVE Spec => ExportComplete
<1>1. ASSUME Inv, SqliteInv, Export PROVE HoldsAllFeedback(snapshot')
  <2>1. SUFFICES ASSUME NEW r \in Requests, reply[r] = "ok", meant[r] # NoRequest
                 PROVE  [by |-> r, about |-> meant[r]] \in snapshot'
    BY DEF HoldsAllFeedback
  <2>2. TypeOK /\ OnDatabase /\ Kept(r) /\ Shown(r)
    BY <1>1 DEF Inv, StoreInv, SqliteInv, AllKept
  <2>3. dbFile = "ready" /\ snapshot' = Joined(db)
    BY <1>1, <2>1, <2>2 DEF OnDatabase, Export, Exported
  <2>4. PICK f \in RowsOf(db, "feedback") : f.by = r /\ f.event = event[r]
    BY <2>1, <2>2 DEF Kept, HasRow
  <2>5. /\ meant[r] \in Requests /\ meant[meant[r]] = NoRequest
        /\ event[meant[r]] = event[r] /\ event[meant[r]] # 0
    BY <2>1, <2>2 DEF Shown, TypeOK
  <2>6. PICK x \in RowsOf(db, "monitoring_events") : x.by = meant[r] /\ x.id = event[r]
    BY <1>1, <2>5 DEF SqliteInv, AllKept, Kept
  <2>7. [by |-> r, about |-> meant[r]] \in Joined(db)
    BY <2>4, <2>5, <2>6 DEF Joined
  <2>8. QED
    BY <2>3, <2>7
<1>2. Inv /\ SqliteInv => [Export => HoldsAllFeedback(snapshot')]_vars
  BY <1>1
<1>3. QED
  BY <1>2, SqliteInvariant, PTL DEF ExportComplete
=============================================================================
