---------------------------- MODULE DashboardStore ----------------------------
(***************************************************************************)
(* The dashboard's store of monitoring events, operator feedback and audit *)
(* entries, and the export of the feedback for retraining.  With SQLite    *)
(* every insertion is one transaction.  When init_store cannot set up the  *)
(* database the process may fall back, for the rest of its life, to a JSON *)
(* file: every call of the store then rewrites the whole file (init_store),*)
(* reads it, changes its copy and writes it back, without a lock, from a   *)
(* pool of request threads.  write_text empties the file before it writes, *)
(* and an empty file reads as an empty store.                              *)
(***************************************************************************)
EXTENDS Integers, Sequences, FiniteSets

CONSTANTS
  Requests,     \* requests the dashboard serves, each by a thread of its own
  DbOpens,      \* the outcomes init_store's script may have on the database
  AllowFallback,\* ALLOW_INSECURE_JSON_FALLBACK
  Corrupt,      \* a file that json.loads refuses
  NoRequest,
  MaxServed,    \* bound: requests that are served at the same time
  CanCrash      \* TRUE: the dashboard process may be killed and restarted

ASSUME DatabaseAssumption == DbOpens \subseteq BOOLEAN /\ DbOpens # {}
ASSUME FlagAssumption == AllowFallback \in BOOLEAN /\ CanCrash \in BOOLEAN
ASSUME MaxServedAssumption == MaxServed \in Nat \ {0}
ASSUME NoRequestAssumption == NoRequest \notin Requests

VARIABLES
  json,     \* _FALLBACK_TO_JSON
  db,       \* the content of the database
  dbFile,   \* the database file: "absent", "bare" (no tables) or "ready"
  file,     \* the content of the JSON file, or Corrupt
  todo,     \* the store calls each request still has to make
  phase,    \* where a request is in its current call: "read", "open", "write"
  buf,      \* the content a request is about to write
  raced,    \* requests whose open file another one has filled meanwhile
  event,    \* the event id each request works on, 0 when it has none yet
  meant,    \* the analysis whose event the author of a feedback was shown
  reply,    \* "none", "ok" or "error"
  snapshot  \* the feedback the last export wrote, with whose event it is on

stored == <<json, db, dbFile, file>>
served == <<todo, phase, buf, raced, event, meant, reply>>
vars == <<stored, served, snapshot>>

-----------------------------------------------------------------------------
(* Contents *)

Tables == {"monitoring_events", "feedback", "audit_logs"}

\* A row: its id, the request that inserted it and the event it is about.
Row == [id : Nat, by : Requests, event : Nat]

Content == [rows : [Tables -> Seq(Row)], next : [Tables -> Nat]]

Empty == [rows |-> [t \in Tables |-> <<>>], next |-> [t \in Tables |-> 1]]

RowsOf(c, t) == {c.rows[t][i] : i \in DOMAIN c.rows[t]}

\* Fault: two columns of the INSERT are swapped.
Insert_SwapsColumns(c, t, r, e) ==
  [rows |-> [c.rows EXCEPT ![t] = Append(@, [id |-> c.next[t], by |-> e, event |-> r])],
   next |-> [c.next EXCEPT ![t] = @ + 1]]

\* Fault: the counter is not written back.
Insert_KeepsNext(c, t, r, e) ==
  [rows |-> [c.rows EXCEPT ![t] = Append(@, [id |-> c.next[t], by |-> r, event |-> e])],
   next |-> c.next]

\* Append a row with the next id of its table.
Insert(c, t, r, e) ==
  [rows |-> [c.rows EXCEPT ![t] =
               Append(@, [id |-> c.next[t], by |-> r, event |-> e])],
   next |-> [c.next EXCEPT ![t] = @ + 1]]

-----------------------------------------------------------------------------
(* Store calls *)

Calls == {"init", "event", "feedback", "audit"}

\* The event id a request works on once it has made a call on content c.
EventAfter(call, c, r) ==
  IF call = "event" THEN c.next["monitoring_events"] ELSE event[r]

\* Fault: the audit entry is never committed.
Changed_NoCommit(call, c, r) ==
  CASE call \in {"init", "audit"} -> {c}
    [] call = "event"    -> {Insert(c, "monitoring_events", r, EventAfter(call, c, r))}
    [] call = "feedback" -> {Insert(c, "feedback", r, event[r])}

\* Fault: feedback goes to the newest event.
Changed_NewestEvent(call, c, r) ==
  CASE call = "init"     -> {c}
    [] call = "event"    -> {Insert(c, "monitoring_events", r, EventAfter(call, c, r))}
    [] call = "feedback" -> {Insert(c, "feedback", r, c.next["monitoring_events"] - 1)}
    [] call = "audit"    -> {Insert(c, "audit_logs", r, event[r])}

\* What a call makes of the content it read: empty when it raises KeyError.
Changed(call, c, r) ==
  CASE call = "init"     -> {c}
    [] call = "event"    -> {Insert(c, "monitoring_events", r, EventAfter(call, c, r))}
    [] call = "feedback" -> {Insert(c, "feedback", r, event[r]) :
                               x \in {x \in RowsOf(c, "monitoring_events") : x.id = event[r]}}
    [] call = "audit"    -> {Insert(c, "audit_logs", r, event[r])}

\* Before the first export.
NoSnapshot == {NoRequest}

\* The export's join of feedback and events, from the database or the file.
Joined(c) ==
  {p \in [by : Requests, about : Requests] :
     \E f \in RowsOf(c, "feedback"), x \in RowsOf(c, "monitoring_events") :
       f.event = x.id /\ p = [by |-> f.by, about |-> x.by]}

\* Fault: the JSON file is exported whenever there is no ready database.
Exported_FileFirst ==
  IF file # Corrupt THEN {Joined(file)} ELSE {{}}

\* What an export writes: the database counts when its file is there, and the
\* export raises when that has no tables.  A JSON file that cannot be parsed
\* is taken for an empty one.
Exported ==
  CASE dbFile = "ready"  -> {Joined(db)}
    [] dbFile = "bare"   -> {}
    [] dbFile = "absent" -> {IF file = Corrupt THEN {} ELSE Joined(file)}

Busy(r) == todo[r] # <<>>

Writing == {r \in Requests : phase[r] = "write"}

\* The thread of r is through with its current call.
Return(r) ==
  /\ todo' = [todo EXCEPT ![r] = Tail(@)]
  /\ phase' = [phase EXCEPT ![r] = "read"]
  /\ reply' = [reply EXCEPT ![r] = IF Len(todo[r]) = 1 THEN "ok" ELSE @]

-----------------------------------------------------------------------------
(* Requests *)

Init ==
  /\ json = FALSE /\ db = Empty /\ dbFile = "absent" /\ file = Empty
  /\ todo = [r \in Requests |-> <<>>]
  /\ phase = [r \in Requests |-> "read"]
  /\ buf = [r \in Requests |-> Empty]
  /\ raced = {}
  /\ event = [r \in Requests |-> 0]
  /\ meant = [r \in Requests |-> NoRequest]
  /\ reply = [r \in Requests |-> "none"]
  /\ snapshot = NoSnapshot

Fresh(r) ==
  /\ ~Busy(r) /\ reply[r] = "none"
  /\ Cardinality({q \in Requests : Busy(q)}) < MaxServed

\* live_analyze stores its event and then an audit entry about it.
Analyze(r) ==
  /\ Fresh(r)
  /\ todo' = [todo EXCEPT ![r] = <<"init", "event", "init", "audit">>]
  /\ UNCHANGED <<stored, phase, buf, raced, event, meant, reply, snapshot>>

\* Any request that only reads the store still calls init_store.
List(r) ==
  /\ Fresh(r)
  /\ todo' = [todo EXCEPT ![r] = <<"init">>]
  /\ UNCHANGED <<stored, phase, buf, raced, event, meant, reply, snapshot>>

\* Fault: the audit entry is written before the feedback it reports.
GiveFeedback_AuditFirst(r) ==
  /\ Fresh(r)
  /\ \E q \in Requests :
       /\ reply[q] = "ok" /\ event[q] # 0 /\ meant[q] = NoRequest
       /\ event' = [event EXCEPT ![r] = event[q]]
       /\ meant' = [meant EXCEPT ![r] = q]
  /\ todo' = [todo EXCEPT ![r] = <<"init", "audit", "init", "feedback">>]
  /\ UNCHANGED <<stored, phase, buf, raced, reply, snapshot>>

\* An operator gives feedback on the event an analysis has answered with.
GiveFeedback(r) ==
  /\ Fresh(r)
  /\ \E q \in Requests :
       /\ reply[q] = "ok" /\ event[q] # 0 /\ meant[q] = NoRequest
       /\ event' = [event EXCEPT ![r] = event[q]]
       /\ meant' = [meant EXCEPT ![r] = q]
  /\ todo' = [todo EXCEPT ![r] = <<"init", "feedback", "init", "audit">>]
  /\ UNCHANGED <<stored, phase, buf, raced, reply, snapshot>>

\* SQLite: a call is one transaction; init_store only creates the tables.
Transact(r) ==
  /\ ~json /\ Busy(r)
  /\ Head(todo[r]) = "init" => TRUE \in DbOpens
  /\ \E c \in Changed(Head(todo[r]), db, r) : db' = c
  /\ dbFile' = "ready"
  /\ event' = [event EXCEPT ![r] = EventAfter(Head(todo[r]), db, r)]
  /\ Return(r)
  /\ UNCHANGED <<json, file, buf, raced, meant, snapshot>>

\* init_store fails on the database, which may have been created by then, and
\* the process goes over to the JSON file, rewriting it at once.
FallBack(r) ==
  /\ ~json /\ Busy(r) /\ Head(todo[r]) = "init"
  /\ FALSE \in DbOpens /\ AllowFallback
  /\ file # Corrupt
  /\ json' = TRUE
  /\ \/ dbFile' = dbFile
     \/ dbFile = "absent" /\ dbFile' = "bare"
  /\ buf' = [buf EXCEPT ![r] = file]
  /\ phase' = [phase EXCEPT ![r] = "open"]
  /\ UNCHANGED <<db, file, todo, raced, event, meant, reply, snapshot>>

\* JSON: _read_state and the change of the copy in memory.
Read(r) ==
  /\ json /\ Busy(r) /\ phase[r] = "read" /\ file # Corrupt
  /\ \E c \in Changed(Head(todo[r]), file, r) : buf' = [buf EXCEPT ![r] = c]
  /\ event' = [event EXCEPT ![r] = EventAfter(Head(todo[r]), file, r)]
  /\ phase' = [phase EXCEPT ![r] = "open"]
  /\ UNCHANGED <<stored, todo, raced, meant, reply, snapshot>>

\* JSON: write_text opens the file, which empties it ...
Open(r) ==
  /\ phase[r] = "open"
  /\ file' = Empty
  /\ phase' = [phase EXCEPT ![r] = "write"]
  /\ UNCHANGED <<json, db, dbFile, todo, buf, raced, event, meant, reply, snapshot>>

\* ... and writes the text; the rest of a longer text that another thread
\* wrote since the file was opened stays behind it.
Fill(r) ==
  /\ phase[r] = "write"
  /\ file' = buf[r] \/ (r \in raced /\ file' = Corrupt)
  /\ raced' = (raced \union Writing) \ {r}
  /\ buf' = [buf EXCEPT ![r] = Empty]
  /\ Return(r)
  /\ UNCHANGED <<json, db, dbFile, event, meant, snapshot>>

\* A call raises.  SQLite: it gives up on a locked or broken database, or the
\* event is not there.  JSON: the event is not there, or the file cannot be
\* parsed, as when it is read half written.
Raises(r) ==
  IF json
  THEN \/ file = Corrupt \/ Writing # {}
       \/ file # Corrupt /\ Changed(Head(todo[r]), file, r) = {}
  ELSE \/ FALSE \in DbOpens /\ ~AllowFallback
       \/ Head(todo[r]) # "init" /\ \E q \in Requests \ {r} : Busy(q)
       \/ Changed(Head(todo[r]), db, r) = {}

Fail(r) ==
  /\ Busy(r) /\ phase[r] = "read"
  /\ Raises(r)
  /\ todo' = [todo EXCEPT ![r] = <<>>]
  /\ reply' = [reply EXCEPT ![r] = "error"]
  /\ UNCHANGED <<stored, phase, buf, raced, event, meant, snapshot>>

\* The dashboard is killed and restarted: every thread is gone, the fallback
\* is forgotten, and a file that was being written is left empty or cut.
Crash ==
  /\ CanCrash
  /\ \E r \in Requests : Busy(r)
  /\ file' = file \/ (Writing # {} /\ file' = Corrupt)
  /\ json' = FALSE
  /\ todo' = [r \in Requests |-> <<>>]
  /\ phase' = [r \in Requests |-> "read"]
  /\ buf' = [r \in Requests |-> Empty]
  /\ raced' = {}
  /\ reply' = [r \in Requests |-> IF Busy(r) THEN "error" ELSE reply[r]]
  /\ UNCHANGED <<db, dbFile, event, meant, snapshot>>

\* export_feedback_training_set.py, run by the retraining DAG.
Export ==
  /\ snapshot' \in Exported
  /\ UNCHANGED <<stored, served>>

Serve(r) ==
  Transact(r) \/ FallBack(r) \/ Read(r) \/ Open(r) \/ Fill(r) \/ Fail(r)

Next ==
  \/ \E r \in Requests : Analyze(r) \/ List(r) \/ GiveFeedback(r) \/ Serve(r)
  \/ Crash
  \/ Export

Spec == Init /\ [][Next]_vars

-----------------------------------------------------------------------------
(* Properties *)

\* Every variable has its type.
TypeOK ==
  /\ json \in BOOLEAN
  /\ db \in Content
  /\ dbFile \in {"absent", "bare", "ready"}
  /\ file \in Content \union {Corrupt}
  /\ todo \in [Requests -> Seq(Calls)]
  /\ phase \in [Requests -> {"read", "open", "write"}]
  /\ buf \in [Requests -> Content]
  /\ raced \subseteq Requests
  /\ event \in [Requests -> Nat]
  /\ meant \in [Requests -> Requests \union {NoRequest}]
  /\ reply \in [Requests -> {"none", "ok", "error"}]
  /\ snapshot \in {NoSnapshot} \union SUBSET [by : Requests, about : Requests]

\* What the dashboard can find in the store it uses.
Visible ==
  IF ~json /\ TRUE \in DbOpens THEN db ELSE IF file = Corrupt THEN Empty ELSE file

IdsSound(c) ==
  \A t \in Tables :
    /\ \A i \in DOMAIN c.rows[t] : c.rows[t][i].id < c.next[t]
    /\ \A i, j \in DOMAIN c.rows[t] :
         i < j => c.rows[t][i].id < c.rows[t][j].id

\* Whatever is lost in a race, no two rows of a table ever have the same id,
\* so get_monitoring_event and save_feedback find at most one event.
IdsDistinct ==
  /\ IdsSound(db)
  /\ file # Corrupt => IdsSound(file)
  /\ \A r \in Requests : IdsSound(buf[r])

\* The request inserted a row about event e into table t.
Stored(t, r, e) == \E x \in RowsOf(Visible, t) : x.by = r /\ x.event = e

\* A request that was answered has its event, or its feedback, and its audit
\* entry in the store ("every run of Live Analyze stores a monitoring event"),
\* whenever nobody holds the JSON file open.
AnsweredIsStored ==
  \A r \in Requests :
    Writing = {} /\ reply[r] = "ok" /\ event[r] # 0 =>
      /\ IF meant[r] = NoRequest
         THEN Stored("monitoring_events", r, event[r])
         ELSE Stored("feedback", r, event[r])
      /\ Stored("audit_logs", r, event[r])

\* Feedback is on the event its author was shown, never on another event that
\* came to have the same id: save_feedback is given the id alone.
FeedbackOnShownEvent ==
  \A f \in RowsOf(Visible, "feedback") :
    \A x \in RowsOf(Visible, "monitoring_events") :
      x.id = f.event => x.by = meant[f.by]

\* No audit entry without the event or the feedback it reports: the entry is
\* a call of its own, made after the other one has succeeded.
AuditFollowsChange ==
  \A a \in RowsOf(Visible, "audit_logs") :
    \E t \in {"monitoring_events", "feedback"} : Stored(t, a.by, a.event)

\* An export that succeeds holds the feedback of every request answered by
\* then, on the event its author was shown: nothing that was reviewed is
\* missing from the training set.
HoldsAllFeedback(s) ==
  \A r \in Requests :
    reply[r] = "ok" /\ meant[r] # NoRequest => [by |-> r, about |-> meant[r]] \in s

ExportComplete == [][Export => HoldsAllFeedback(snapshot')]_vars
=============================================================================
