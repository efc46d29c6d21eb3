------------------------------ MODULE UserSessions ------------------------------
(***************************************************************************)
(* Accounts and sessions of the dashboard, in SQLite, with authentication  *)
(* enabled.  Every statement group under one connection is a transaction;  *)
(* a request makes several, and requests interleave between them.  A       *)
(* change of an account and the revocation of its sessions are two         *)
(* transactions; so are the check of a password, the check that the        *)
(* account is active and the insertion of the session.                     *)
(***************************************************************************)
EXTENDS Integers, FiniteSets

CONSTANTS
  Users,      \* user names
  Requests,   \* requests the dashboard serves, each by a thread of its own
  Past,       \* those of them that were logins before the last restart
  Roles,      \* VALID_ROLES, "admin" the one with the permission user_manage
  Passwords,
  MaxServed,  \* bound: requests that are served at the same time
  None

ASSUME RolesAssumption == "admin" \in Roles
ASSUME PastAssumption == Past \subseteq Requests
ASSUME MaxServedAssumption == MaxServed \in Nat \ {0}

VARIABLES
  accounts,  \* the table users
  sessions,  \* the table user_sessions, by the login request that inserts
  job,       \* what each request is to do
  pc,        \* the transaction each request makes next
  rights,    \* the role each request was let in with, or has read for a session
  audits,    \* the requests since the restart with an audit entry on their success
  reply,     \* "none", "ok" or "refused" (refused: any error status)
  before,    \* the requests that had succeeded when this one arrived
  ended      \* the sessions a change was to end: those that existed at its commit

tables == <<accounts, sessions, audits>>
vars == <<tables, job, pc, rights, reply, before, ended>>

-----------------------------------------------------------------------------
(* Accounts, sessions, requests *)

Fields == {"role", "state", "password"}

ValuesOf(field) ==
  CASE field = "role"     -> Roles
    [] field = "state"    -> {"active", "disabled"}
    [] field = "password" -> Passwords

Values == UNION {ValuesOf(f) : f \in Fields}

Account == {a \in [Fields -> Values] : \A f \in Fields : a[f] \in ValuesOf(f)}

\* A row of user_sessions: expired ones are deleted, revoked ones are kept.
Session == [state : {"live", "expired", "revoked"}, role : Roles]

LiveSession(role) == [state |-> "live", role |-> role]

Kinds == {"login", "bootstrap", "create", "change", "own", "logout", "read"}

\* by is the session of the request, given the password in it; field and value
\* say what a change changes.
Job == [kind : Kinds, user : Users, by : Requests \union {None},
        given : Passwords \union {None}, field : Fields \union {None},
        value : Values \union {None}]

NoJob == [kind |-> None]

ASSUME NoneAssumption == None \notin Users \union Requests \union Values \union Kinds

First(kind) ==
  CASE kind = "login"     -> "verify"
    [] kind = "bootstrap" -> "count"
    [] OTHER              -> "authorise"

\* Fault: the sessions are revoked before the account is changed.
After_RevokeFirst(kind, step) ==
  CASE step = "authorise" /\ kind = "change" -> "revoke"
    [] step = "authorise" /\ kind = "own"    -> "verify"
    [] step = "authorise" /\ kind = "create" -> "create"
    [] step = "authorise" /\ kind = "logout" -> "end"
    [] step = "authorise" /\ kind = "read"   -> "done"
    [] step = "verify" /\ kind = "login"     -> "select"
    [] step = "verify" /\ kind = "own"       -> "revoke"
    [] step = "select" -> "insert"
    [] step = "count"  -> "create"
    [] step = "revoke" -> "update"
    [] step = "audit"  -> "done"
    [] OTHER           -> "audit"

\* The transactions of each endpoint, in order.
After(kind, step) ==
  CASE step = "authorise" /\ kind = "change" -> "update"
    [] step = "authorise" /\ kind = "own"    -> "verify"
    [] step = "authorise" /\ kind = "create" -> "create"
    [] step = "authorise" /\ kind = "logout" -> "end"
    [] step = "authorise" /\ kind = "read"   -> "done"
    [] step = "verify" /\ kind = "login"     -> "select"
    [] step = "verify" /\ kind = "own"       -> "update"
    [] step = "select" -> "insert"
    [] step = "count"  -> "create"
    [] step = "update" -> "revoke"
    [] step = "audit"  -> "done"
    [] OTHER           -> "audit"

NoAccount == [f \in Fields |-> None]

Administrator(p) ==
  [f \in Fields |-> CASE f = "role" -> "admin" [] f = "state" -> "active" [] f = "password" -> p]

Busy(r) == pc[r] \notin {"idle", "done"}

Changes(r) == job[r].kind \in {"change", "own"}

SessionsOf(u) == {s \in Requests : sessions[s] # None /\ job[s].user = u}

\* get_active_session finds the session and its account.
Usable(s) ==
  /\ sessions[s] # None /\ sessions[s].state = "live"
  /\ accounts[job[s].user]["state"] = "active"

\* The request is through with a step; after the last one it is answered.
Proceed(r) ==
  /\ pc' = [pc EXCEPT ![r] = After(job[r].kind, @)]
  /\ reply' = [reply EXCEPT ![r] = IF pc'[r] = "done" THEN "ok" ELSE @]

\* The request ends with an error status; audit entries on refusals are left
\* out.
Refuse(r) ==
  /\ pc' = [pc EXCEPT ![r] = "done"]
  /\ reply' = [reply EXCEPT ![r] = "refused"]

-----------------------------------------------------------------------------
(* Arrivals *)

\* A login of r that is over.
PastLogin(r, u, p) ==
  [kind |-> "login", user |-> u, by |-> None, given |-> p, field |-> None, value |-> None]

\* The store is new and past logins were refused, or there is an administrator
\* (created at startup from the configuration), whose sessions are still there.
Init ==
  /\ \E u \in Users, p \in Passwords :
       /\ job = [r \in Requests |-> IF r \in Past THEN PastLogin(r, u, p) ELSE NoJob]
       /\ \/ /\ accounts = [v \in Users |-> NoAccount]
             /\ sessions = [r \in Requests |-> None]
             /\ rights = [r \in Requests |-> None]
             /\ reply = [r \in Requests |-> IF r \in Past THEN "refused" ELSE "none"]
          \/ /\ accounts = [v \in Users |-> IF v = u THEN Administrator(p) ELSE NoAccount]
             /\ sessions = [r \in Requests |-> IF r \in Past THEN LiveSession("admin") ELSE None]
             /\ rights = [r \in Requests |-> IF r \in Past THEN "admin" ELSE None]
             /\ reply = [r \in Requests |-> IF r \in Past THEN "ok" ELSE "none"]
  /\ pc = [r \in Requests |-> IF r \in Past THEN "done" ELSE "idle"]
  /\ audits = {}
  /\ before = [r \in Requests |-> {}]
  /\ ended = [r \in Requests |-> {}]

Arrive(r, j) ==
  /\ pc[r] = "idle"
  /\ Cardinality({q \in Requests : Busy(q)}) < MaxServed
  /\ job' = [job EXCEPT ![r] = j]
  /\ pc' = [pc EXCEPT ![r] = First(j.kind)]
  /\ before' = [before EXCEPT ![r] = {q \in Requests : reply[q] = "ok"}]
  /\ UNCHANGED <<tables, rights, reply, ended>>

\* A session whose cookie a client has: its login was answered.
Known(s) == reply[s] = "ok" /\ job[s].kind = "login"

Login(r) ==
  \E u \in Users, p \in Passwords :
    Arrive(r, [kind |-> "login", user |-> u, by |-> None, given |-> p,
               field |-> None, value |-> None])

Bootstrap(r) ==
  \E u \in Users :
    Arrive(r, [kind |-> "bootstrap", user |-> u, by |-> None, given |-> None,
               field |-> None, value |-> None])

Create(r) ==
  \E u \in Users, s \in Requests :
    /\ Known(s)
    /\ Arrive(r, [kind |-> "create", user |-> u, by |-> s, given |-> None,
                  field |-> None, value |-> None])

\* patch_user_role, patch_user_active and patch_user_password.
Change(r) ==
  \E u \in Users, s \in Requests, f \in Fields : \E v \in ValuesOf(f) :
    /\ Known(s)
    /\ Arrive(r, [kind |-> "change", user |-> u, by |-> s, given |-> None,
                  field |-> f, value |-> v])

ChangePassword(r) ==
  \E s \in Requests, p, v \in Passwords :
    /\ Known(s)
    /\ Arrive(r, [kind |-> "own", user |-> job[s].user, by |-> s, given |-> p,
                  field |-> "password", value |-> v])

Logout(r) ==
  \E s \in Requests :
    /\ Known(s)
    /\ Arrive(r, [kind |-> "logout", user |-> job[s].user, by |-> s,
                  given |-> None, field |-> None, value |-> None])

\* Any request that changes nothing here and needs the permission read alone,
\* which every role has.
Read(r) ==
  \E s \in Requests :
    /\ Known(s)
    /\ Arrive(r, [kind |-> "read", user |-> job[s].user, by |-> s,
                  given |-> None, field |-> None, value |-> None])

-----------------------------------------------------------------------------
(* Steps *)

\* cleanup_expired_sessions deletes what has expired and was not revoked; no
\* other step tells a deleted row from an expired one.
Cleanup ==
  sessions' = [s \in Requests |->
                 IF sessions[s] # None /\ sessions[s].state = "expired"
                 THEN None ELSE sessions[s]]

\* Fault: the role copied into the session row counts.
Authorise_StoredRole(r) ==
  /\ pc[r] = "authorise"
  /\ Cleanup
  /\ IF Usable(job[r].by)
     THEN /\ rights' = [rights EXCEPT ![r] = sessions[job[r].by].role]
          /\ IF job[r].kind \in {"create", "change"} /\ rights'[r] # "admin"
             THEN Refuse(r) ELSE Proceed(r)
     ELSE Refuse(r) /\ UNCHANGED rights
  /\ UNCHANGED <<accounts, audits, job, before, ended>>

\* get_auth_context and require_permission.
Authorise(r) ==
  /\ pc[r] = "authorise"
  /\ Cleanup
  /\ IF Usable(job[r].by)
     THEN LET role == accounts[job[job[r].by].user]["role"] IN
          /\ rights' = [rights EXCEPT ![r] = role]
          /\ IF job[r].kind \in {"create", "change"} /\ role # "admin"
             THEN Refuse(r) ELSE Proceed(r)
     ELSE Refuse(r) /\ UNCHANGED rights
  /\ UNCHANGED <<accounts, audits, job, before, ended>>

\* login and change_password read the account and verify the password.
Verify(r) ==
  /\ pc[r] = "verify"
  /\ LET a == accounts[job[r].user] IN
     IF /\ a # NoAccount /\ a["password"] = job[r].given
        /\ (job[r].kind = "login" => a["state"] = "active")
     THEN Proceed(r) ELSE Refuse(r)
  /\ UNCHANGED <<tables, job, rights, before, ended>>

\* Fault: the role is not read.
Select_NoRole(r) ==
  /\ pc[r] = "select"
  /\ Cleanup
  /\ IF accounts[job[r].user]["state"] = "active" THEN Proceed(r) ELSE Refuse(r)
  /\ UNCHANGED <<accounts, audits, job, rights, before, ended>>

\* create_session cleans up and reads the account again, for its role ...
Select(r) ==
  /\ pc[r] = "select"
  /\ Cleanup
  /\ LET a == accounts[job[r].user] IN
     IF a["state"] = "active"
     THEN rights' = [rights EXCEPT ![r] = a["role"]] /\ Proceed(r)
     ELSE Refuse(r) /\ UNCHANGED rights
  /\ UNCHANGED <<accounts, audits, job, before, ended>>

\* ... and inserts the session in a transaction of its own: a SELECT does not
\* begin one.
Insert(r) ==
  /\ pc[r] = "insert"
  /\ sessions' = [sessions EXCEPT ![r] = LiveSession(rights[r])]
  /\ Proceed(r)
  /\ UNCHANGED <<accounts, audits, job, rights, before, ended>>

\* count_users, before an administrator may be bootstrapped.
Count(r) ==
  /\ pc[r] = "count"
  /\ IF \A u \in Users : accounts[u] = NoAccount THEN Proceed(r) ELSE Refuse(r)
  /\ UNCHANGED <<tables, job, rights, before, ended>>

\* Fault: an existing account is replaced.
CreateUser_Replaces(r) ==
  /\ pc[r] = "create"
  /\ \E a \in Account :
       /\ job[r].kind = "bootstrap" => a["role"] = "admin" /\ a["state"] = "active"
       /\ accounts' = [accounts EXCEPT ![job[r].user] = a]
  /\ Proceed(r)
  /\ UNCHANGED <<sessions, audits, job, rights, before, ended>>

\* create_user: the user name is the primary key.
CreateUser(r) ==
  /\ pc[r] = "create"
  /\ \/ /\ accounts[job[r].user] = NoAccount
        /\ \E a \in Account :
             /\ job[r].kind = "bootstrap" => a["role"] = "admin" /\ a["state"] = "active"
             /\ accounts' = [accounts EXCEPT ![job[r].user] = a]
        /\ Proceed(r)
     \/ accounts[job[r].user] # NoAccount /\ Refuse(r) /\ UNCHANGED accounts
  /\ UNCHANGED <<sessions, audits, job, rights, before, ended>>

\* update_user_role, set_user_active and update_user_password commit the change
Update(r) ==
  /\ pc[r] = "update"
  /\ LET u == job[r].user IN
     IF accounts[u] # NoAccount
     THEN /\ accounts' = [accounts EXCEPT ![u] = [@ EXCEPT ![job[r].field] = job[r].value]]
          /\ ended' = [ended EXCEPT ![r] = SessionsOf(u)]
          /\ Proceed(r)
     ELSE Refuse(r) /\ UNCHANGED <<accounts, ended>>
  /\ UNCHANGED <<sessions, audits, job, rights, before>>

\* ... and then revoke the sessions of the account.
Revoke(r) ==
  /\ pc[r] = "revoke"
  /\ sessions' = [s \in Requests |->
                    IF s \in SessionsOf(job[r].user)
                    THEN [sessions[s] EXCEPT !.state = "revoked"] ELSE sessions[s]]
  /\ Proceed(r)
  /\ UNCHANGED <<accounts, audits, job, rights, before, ended>>

\* logout revokes the session of the request, if its row is still there.
End(r) ==
  /\ pc[r] = "end"
  /\ sessions' = IF sessions[job[r].by] = None THEN sessions
                 ELSE [sessions EXCEPT ![job[r].by].state = "revoked"]
  /\ Proceed(r)
  /\ UNCHANGED <<accounts, audits, job, rights, before, ended>>

Audit(r) ==
  /\ pc[r] = "audit"
  /\ audits' = audits \union {r}
  /\ Proceed(r)
  /\ UNCHANGED <<accounts, sessions, job, rights, before, ended>>

\* A transaction fails on a locked or broken database, or the process dies.
Fail(r) ==
  /\ Busy(r)
  /\ Refuse(r)
  /\ UNCHANGED <<tables, job, rights, before, ended>>

\* The lifetime of a session is over.
Expire(s) ==
  /\ sessions[s] # None /\ sessions[s].state = "live"
  /\ sessions' = [sessions EXCEPT ![s].state = "expired"]
  /\ UNCHANGED <<accounts, audits, job, pc, rights, reply, before, ended>>

Step(r) ==
  \/ Authorise(r) \/ Verify(r) \/ Select(r) \/ Insert(r) \/ Count(r)
  \/ CreateUser(r) \/ Update(r) \/ Revoke(r) \/ End(r) \/ Audit(r) \/ Fail(r)

Next ==
  \E r \in Requests :
    \/ Login(r) \/ Bootstrap(r) \/ Create(r) \/ Change(r) \/ ChangePassword(r)
    \/ Logout(r) \/ Read(r)
    \/ Step(r)
    \/ Expire(r)

Spec == Init /\ [][Next]_vars

-----------------------------------------------------------------------------
(* Properties *)

\* Every variable has its type.
TypeOK ==
  /\ accounts \in [Users -> Account \union {NoAccount}]
  /\ sessions \in [Requests -> Session \union {None}]
  /\ job \in [Requests -> Job \union {NoJob}]
  /\ pc \in [Requests -> {"idle", "authorise", "verify", "select", "insert", "count",
                          "create", "update", "revoke", "end", "audit", "done"}]
  /\ rights \in [Requests -> Roles \union {None}]
  /\ audits \subseteq Requests
  /\ reply \in [Requests -> {"none", "ok", "refused"}]
  /\ before \in [Requests -> SUBSET Requests]
  /\ ended \in [Requests -> SUBSET Requests]

\* Once a change of role, state or password is answered, or the audit log
\* reports it, no session that existed when it was committed is ever usable
\* again, not even after the account is disabled and active again.
ChangeEndsSessions ==
  \A c \in Requests :
    Changes(c) /\ (reply[c] = "ok" \/ c \in audits) => \A s \in ended[c] : ~Usable(s)

\* The user a request acts as.
Actor(r) == IF job[r].by = None THEN job[r].user ELSE job[job[r].by].user

\* Nobody else was changing what c changed.
OnlyChange(c) ==
  \A d \in Requests \ {c} :
    Changes(d) => job[d].user # job[c].user \/ job[d].field # job[c].field

\* A request that arrives after a change was answered meets the change, though
\* the session rows hold copies of roles and logins work on accounts they read
\* before: it is let in with the new role, only by the new password, and not at
\* all when the account was disabled.
ChangeIsSeen ==
  \A r, c \in Requests :
    c \in before[r] /\ Changes(c) /\ OnlyChange(c)
    /\ rights[r] # None /\ Actor(r) = job[c].user
    => CASE job[c].field = "role"     -> rights[r] = job[c].value
         [] job[c].field = "password" -> job[r].kind = "login" => job[r].given = job[c].value
         [] job[c].field = "state"    -> job[c].value = "active"

\* Of the requests that create one account, in bootstraps and by
\* administrators, one at most succeeds.
CreatedOnce ==
  \A r, q \in Requests :
    r # q /\ {job[r].kind, job[q].kind} \subseteq {"bootstrap", "create"}
    /\ reply[r] = "ok" /\ reply[q] = "ok"
    => job[r].user # job[q].user
=============================================================================
