---------------------------- MODULE ModelRegistry ----------------------------
(***************************************************************************)
(* The model registry of aiops_framework: one JSON file per model root,    *)
(* with a block (production, previous, candidates) for every monitored     *)
(* system, changed by training scripts, by the dashboard's promote         *)
(* endpoint and by the promotion script.  No operation takes a lock: each  *)
(* one loads the whole file, changes its copy and writes the whole file    *)
(* back (write_text truncates first), so loads and writes of different     *)
(* processes interleave, and a process may die between any two steps.      *)
(***************************************************************************)
EXTENDS Integers, FiniteSets, SequencesExt

CONSTANTS
  Models,          \* names of model artifact directories under the root
  Scores,          \* rank scores the metrics of an artifact can produce
  Systems,         \* monitored systems that share the root
  NoModel,         \* None: no production model, or no model asked for
  NoSystem,        \* the legacy stages section was never rebuilt
  Trainers,        \* runs of 27_train_anomaly.py or 28_train_rca.py
  Dashboards,      \* threads serving POST /api/models/promote
  Clis,            \* runs of 31_promote_model.py
  MaxCandidates,   \* MAX_CANDIDATES
  KeepPrevious,    \* keep_previous of promote_model
  FreshRoot,       \* TRUE: the root starts with no registry file
  RetrainInPlace,  \* TRUE: training may reuse a directory (default --output-dir)
  CanCrash         \* TRUE: a process may be killed in the middle of a job

ASSUME ModelsAssumption == IsFiniteSet(Models) /\ NoModel \notin Models
ASSUME ScoresAssumption == Scores \subseteq Nat \ {0}
ASSUME SystemsAssumption == NoSystem \notin Systems
ASSUME LimitsAssumption ==
  MaxCandidates \in Nat \ {0} /\ KeepPrevious \in Nat \ {0}

VARIABLES
  artifact,    \* score of each model's directory, 0 when there is none
  disk,        \* what a reader finds: "absent", "torn" or "ok"
  registry,    \* the content last written; readable only when disk = "ok"
  step,        \* where each process is in its current job
  todo,        \* the jobs each process still has to do
  buf,         \* the content a process is about to write
  raced,       \* writers whose open file another writer has filled meanwhile
  reviewed,    \* models whose current artifact a human has been shown
  registered,  \* (system, record) nominations neither promoted nor outranked since
  audit        \* (system, model) promotions in the dashboard's audit log

vars == <<artifact, disk, registry, step, todo, buf, raced, reviewed,
          registered, audit>>

Procs == Trainers \union Dashboards \union Clis

-----------------------------------------------------------------------------
(* Candidate lists and blocks *)

Ranks == Scores \union {0}   \* 0: no metrics could be read

Record == [model : Models, rank : Ranks]

Block == [production : Models \union {NoModel},
          previous   : Seq(Models),
          candidates : Seq(Record)]

EmptyBlock == [production |-> NoModel, previous |-> <<>>, candidates |-> <<>>]

Content == [block : [Systems -> Block], stages : Systems \union {NoSystem}]

EmptyContent == [block |-> [s \in Systems |-> EmptyBlock], stages |-> NoSystem]

Names(list) == {list[i].model : i \in DOMAIN list}

Keep(list, n) == IF Len(list) <= n THEN list ELSE SubSeq(list, 1, n)

\* The candidates but m (names are distinct: at most one record goes).
Without(list, m) ==
  IF m \in Names(list)
  THEN RemoveAt(list, CHOOSE i \in DOMAIN list : list[i].model = m)
  ELSE list

\* A stable descending sort leaves an appended record behind every record
\* of at least its score.
Rankable(list, r) == Cardinality({i \in DOMAIN list : list[i].rank >= r.rank})
Ranked(list, r) == InsertAt(list, Rankable(list, r) + 1, r)

\* Faults for the mutation runs: a nomination that never cuts the list, and
\* one that puts the new record first.
WithCandidate_Uncut(b, m) ==
  [b EXCEPT !.candidates =
     Ranked(Without(@, m), [model |-> m, rank |-> artifact[m]])]

WithCandidate_NewestFirst(b, m) ==
  [b EXCEPT !.candidates =
     Keep(<<[model |-> m, rank |-> artifact[m]]>> \o Without(@, m),
          MaxCandidates)]

WithCandidate(b, m) ==
  [b EXCEPT !.candidates =
     Keep(Ranked(Without(@, m), [model |-> m, rank |-> artifact[m]]),
          MaxCandidates)]

\* set_stage(production): the old model is overwritten, not archived.
WithProduction(b, m) == [b EXCEPT !.production = m]

WithPrevious(b, m) == [b EXCEPT !.previous = Keep(<<m>> \o @, MaxCandidates)]

\* Faults: archiving a production model that is not there; keeping the
\* promoted model among the candidates.
Promoted_ArchivesNone(b, m) ==
  [production |-> m,
   previous   |-> Keep(<<b.production>> \o b.previous, KeepPrevious),
   candidates |-> Without(b.candidates, m)]

Promoted_StillCandidate(b, m) ==
  [production |-> m,
   previous   |-> IF b.production = NoModel THEN b.previous
                  ELSE Keep(<<b.production>> \o b.previous, KeepPrevious),
   candidates |-> b.candidates]

Promoted(b, m) ==
  [production |-> m,
   previous   |-> IF b.production = NoModel THEN b.previous
                  ELSE Keep(<<b.production>> \o b.previous, KeepPrevious),
   candidates |-> Without(b.candidates, m)]

-----------------------------------------------------------------------------
(* Jobs: one load-change-write of the file each *)

Ops == {"candidate", "production", "previous", "promote", "promote_top",
        "resync", "unsupported"}

\* Only the jobs of the script that take no name do without a model.
Job == {j \in [op : Ops, system : Systems, model : Models \union {NoModel}] :
          j.op \in {"candidate", "production", "previous", "promote"}
            => j.model \in Models}

\* Fault: a name that is not found falls back to the top candidate.
Selected_FallsBack(j, b) ==
  IF j.op = "promote" /\ j.model \in Names(b.candidates)
  THEN {j.model}
  ELSE {b.candidates[i].model : i \in DOMAIN b.candidates \intersect {1}}

\* The candidate promote_model picks: the one asked for, or the top one.
\* promote_stage never passes the name on.
Selected(j, b) ==
  IF j.op = "promote"
  THEN Names(b.candidates) \intersect {j.model}
  ELSE {b.candidates[i].model : i \in DOMAIN b.candidates \intersect {1}}

\* The blocks a job can leave; empty when it raises ValueError instead.
Results(j, b) ==
  CASE j.op = "candidate"   -> {WithCandidate(b, j.model)}
    [] j.op = "production"  -> {WithProduction(b, j.model)}
    [] j.op = "previous"    -> {WithPrevious(b, j.model)}
    [] j.op = "resync"      -> {x \in {b} : b.production # NoModel}
    [] j.op = "unsupported" -> {}
    [] OTHER                -> {Promoted(b, m) : m \in Selected(j, b)}

\* What load_registry makes of a root without a file: the only artifact is
\* put in production, several become the best candidates, in any order
\* among equals (the code takes them by name).
Discovered == {m \in Models : artifact[m] # 0}

TopListings ==
  LET n == Min({Cardinality(Discovered), MaxCandidates})
  IN  {l \in [1..n -> [model : Discovered, rank : Scores]] :
         /\ \A i \in 1..n : l[i].rank = artifact[l[i].model]
         /\ \A i, j \in 1..n : i < j => /\ l[i].model # l[j].model
                                       /\ l[i].rank >= l[j].rank
         /\ \A m \in Discovered \ Names(l) : artifact[m] <= l[n].rank}

Bootstrapped(s) ==
  IF Cardinality(Discovered) = 1
  THEN {[EmptyContent EXCEPT !.block[s].production = m] : m \in Discovered}
  ELSE {[EmptyContent EXCEPT !.block[s].candidates = l] : l \in TopListings}

\* What load_registry can return to a caller working on system s.  (The
\* sort and cut it applies change nothing: lists are stored sorted and cut.)
Loaded(s) ==
  CASE disk = "ok"     -> {registry}
    [] disk = "absent" -> Bootstrapped(s)
    [] disk = "torn"   -> {}

-----------------------------------------------------------------------------
(* Processes *)

Init ==
  /\ artifact = [m \in Models |-> 0]
  /\ disk = IF FreshRoot THEN "absent" ELSE "ok"
  /\ registry = EmptyContent
  /\ step = [p \in Procs |-> "load"]
  /\ todo = [p \in Procs |-> <<>>]
  /\ buf = [p \in Procs |-> EmptyContent]
  /\ raced = {}
  /\ reviewed = {}
  /\ registered = {}
  /\ audit = {}

Idle(p) == todo[p] = <<>>

Assign(p, jobs) == todo' = [todo EXCEPT ![p] = jobs]

\* A training run saves its artifact directory, metrics included, and then
\* nominates it with set_stage(candidate).
Train(p) ==
  /\ Idle(p)
  /\ \E s \in Systems, m \in Models, score \in Scores :
       /\ artifact[m] = 0 \/ RetrainInPlace
       /\ artifact' = [artifact EXCEPT ![m] = score]
       /\ reviewed' = reviewed \ {m}
       /\ Assign(p, <<[op |-> "candidate", system |-> s, model |-> m]>>)
  /\ UNCHANGED <<disk, registry, step, buf, raced, registered, audit>>

\* Somebody asks the dashboard to promote a model it listed.
AskPromotion(p) ==
  /\ Idle(p)
  /\ \E s \in Systems, m \in reviewed :
       Assign(p, <<[op |-> "promote", system |-> s, model |-> m]>>)
  /\ UNCHANGED <<artifact, disk, registry, step, buf, raced, reviewed,
                 registered, audit>>

\* Somebody runs the promotion script, with --model-name (m) or without,
\* and with a --source-stage: set_stage first if a name is given.  Giving
\* the name of a model is a human decision about it.
Program(stage, s, m) ==
  LET job(o) == [op |-> o, system |-> s, model |-> m]
      last   == CASE stage = "candidate"  -> "promote_top"
                  [] stage = "production" -> "resync"
                  [] stage = "previous"   -> "unsupported"
  IN  IF m = NoModel THEN <<job(last)>> ELSE <<job(stage), job(last)>>

RunScript(p) ==
  /\ Idle(p)
  /\ \E stage \in {"candidate", "production", "previous"}, s \in Systems,
        m \in Models \union {NoModel} :
       /\ Assign(p, Program(stage, s, m))
       /\ reviewed' = reviewed \union ({m} \ {NoModel})
  /\ UNCHANGED <<artifact, disk, registry, step, buf, raced, registered, audit>>

\* load_registry and the change of the copy in memory.
Load(p) ==
  /\ ~Idle(p)
  /\ step[p] = "load"
  /\ LET j == Head(todo[p]) IN
     \E c \in Loaded(j.system) : \E b \in Results(j, c.block[j.system]) :
       buf' = [buf EXCEPT ![p] = [block  |-> [c.block EXCEPT ![j.system] = b],
                                  stages |-> j.system]]
  /\ step' = [step EXCEPT ![p] = "loaded"]
  /\ UNCHANGED <<artifact, disk, registry, todo, raced, reviewed, registered,
                 audit>>

\* An unreadable file, a candidate that is not there, an unsupported stage:
\* the exception ends the process's work, later jobs included.
Fail(p) ==
  /\ ~Idle(p)
  /\ step[p] = "load"
  /\ LET j == Head(todo[p]) IN
       \/ Loaded(j.system) = {}
       \/ \E c \in Loaded(j.system) : Results(j, c.block[j.system]) = {}
  /\ Assign(p, <<>>)
  /\ UNCHANGED <<artifact, disk, registry, step, buf, raced, reviewed,
                 registered, audit>>

\* write_text opens the file for writing, which empties it ...
Truncate(p) ==
  /\ step[p] = "loaded"
  /\ step' = [step EXCEPT ![p] = "writing"]
  /\ disk' = "torn"
  /\ UNCHANGED <<artifact, registry, todo, buf, raced, reviewed, registered,
                 audit>>

PromotionOps == {"promote", "promote_top"}

\* The nominations the registry owes a place once p has written: one goes
\* when its model is promoted or nominated again, or when the list is full of
\* candidates at least as good.
StillOwed(p) ==
  LET j    == Head(todo[p])
      b    == buf[p].block[j.system]
      new  == IF j.op = "candidate"
              THEN {<<j.system, [model |-> j.model, rank |-> artifact[j.model]]>>}
              ELSE {}
      Replaced(e) == j.op = "candidate" /\ e[2].model = j.model
      IsPromoted(e) == j.op \in PromotionOps /\ e[2].model = b.production
      Outranked(e) == /\ Len(b.candidates) >= MaxCandidates
                      /\ e[2] \notin ToSet(b.candidates)
                      /\ \A c \in ToSet(b.candidates) : c.rank >= e[2].rank
  IN  {e \in registered \union new :
         e[1] = j.system =>
           /\ e \in new \/ ~Replaced(e)
           /\ ~IsPromoted(e)
           /\ ~Outranked(e)}

\* ... and then writes the whole text.  If another writer filled the file
\* meanwhile and its text was longer, the rest of it stays behind.
Flush(p) ==
  /\ step[p] = "writing"
  /\ \/ disk' = "ok" /\ registry' = buf[p]
     \/ p \in raced /\ disk' = "torn" /\ UNCHANGED registry
  /\ raced' = (raced \union {q \in Procs : step[q] = "writing"}) \ {p}
  /\ registered' = StillOwed(p)
  /\ buf' = [buf EXCEPT ![p] = EmptyContent]
  /\ IF p \in Dashboards /\ Head(todo[p]).op = "promote"
     THEN step' = [step EXCEPT ![p] = "audit"] /\ UNCHANGED todo
     ELSE step' = [step EXCEPT ![p] = "load"] /\ Assign(p, Tail(todo[p]))
  /\ UNCHANGED <<artifact, reviewed, audit>>

\* Fault: a failed audit write is swallowed.
WriteAudit_Swallowed(p) ==
  /\ step[p] = "audit"
  /\ step' = [step EXCEPT ![p] = "load"]
  /\ Assign(p, Tail(todo[p]))
  /\ UNCHANGED <<artifact, disk, registry, buf, raced, reviewed, registered,
                 audit>>

\* The promote endpoint writes its audit log entry after the registry.
WriteAudit(p) ==
  /\ step[p] = "audit"
  /\ LET j == Head(todo[p]) IN audit' = audit \union {<<j.system, j.model>>}
  /\ step' = [step EXCEPT ![p] = "load"]
  /\ Assign(p, Tail(todo[p]))
  /\ UNCHANGED <<artifact, disk, registry, buf, raced, reviewed, registered>>

Crash(p) ==
  /\ CanCrash
  /\ ~Idle(p)
  /\ step' = [step EXCEPT ![p] = "load"]
  /\ Assign(p, <<>>)
  /\ raced' = raced \ {p}
  /\ buf' = [buf EXCEPT ![p] = EmptyContent]
  /\ UNCHANGED <<artifact, disk, registry, reviewed, registered, audit>>

\* The candidate review bundle, and the dashboard's model page, show a human
\* the production model and the candidates of a system.
Review(s) ==
  /\ \E c \in Loaded(s) :
       reviewed' = (reviewed \union Names(c.block[s].candidates)
                      \union {c.block[s].production}) \ {NoModel}
  /\ UNCHANGED <<artifact, disk, registry, step, todo, buf, raced,
                 registered, audit>>

Write(p) == Load(p) \/ Fail(p) \/ Truncate(p) \/ Flush(p) \/ WriteAudit(p)

Next ==
  \/ \E p \in Trainers : Train(p)
  \/ \E p \in Dashboards : AskPromotion(p)
  \/ \E p \in Clis : RunScript(p)
  \/ \E p \in Procs : Write(p) \/ Crash(p)
  \/ \E s \in Systems : Review(s)

Spec == Init /\ [][Next]_vars

\* A process that is not killed gets on with its job.
FairSpec == Spec /\ \A p \in Procs : WF_vars(Write(p))

-----------------------------------------------------------------------------
(* Properties *)

\* Every variable has its type.
TypeOK ==
  /\ artifact \in [Models -> Ranks]
  /\ disk \in {"absent", "torn", "ok"}
  /\ registry \in Content
  /\ step \in [Procs -> {"load", "loaded", "writing", "audit"}]
  /\ todo \in [Procs -> Seq(Job)]
  /\ buf \in [Procs -> Content]
  /\ raced \subseteq Procs
  /\ reviewed \subseteq Models
  /\ registered \subseteq Systems \X Record
  /\ audit \subseteq Systems \X Models

WellRanked(list) ==
  /\ Len(list) <= MaxCandidates
  /\ \A i, j \in DOMAIN list :
       i < j => list[i].rank >= list[j].rank /\ list[i].model # list[j].model

BlockSound(b) ==
  /\ WellRanked(b.candidates)
  /\ Len(b.previous) <= MaxCandidates \/ Len(b.previous) <= KeepPrevious

\* Whatever processes interleave or die, every content that is or may yet be
\* written lists at most MAX_CANDIDATES models per system, best first, none
\* twice, so that promoting "the top candidate" means promoting the best one
\* (set_stage, register and promote_model all rely on it).
CandidateListsSound ==
  \A s \in Systems :
    /\ BlockSound(registry.block[s])
    /\ \A p \in Procs : BlockSound(buf[p].block[s])

\* Only a model a human was shown goes to production: "a human reviews
\* candidates before promotion to production" (pipeline/airflow/README.md).
NoUnreviewedProduction ==
  \A s \in Systems : registry.block[s].production \in reviewed \union {NoModel}

\* A finished training's model stays a candidate until it is promoted or
\* outranked: set_stage of another run never loses it.
RegisteredModelsListed ==
  disk = "ok" =>
    \A e \in registered : e[2] \in ToSet(registry.block[e[1]].candidates)

\* When callers take turns, the file behaves as RegistryContract says, even
\* if a caller dies: every call of set_stage, promote_model or promote_stage
\* takes effect at its last write, on its own system only, and a promotion
\* archives the production model the file has at that moment.
Contract == INSTANCE RegistryContract WITH
  production <- [s \in Systems |-> registry.block[s].production],
  previous   <- [s \in Systems |-> registry.block[s].previous],
  candidates <- [s \in Systems |-> ToSet(registry.block[s].candidates)]

CallsTakeEffectAtomically == Contract!Spec

\* A promotion written by the dashboard reaches the audit log.
PromotionsAudited ==
  \A p \in Dashboards, s \in Systems, m \in Models :
    (step[p] = "writing" /\ Head(todo[p]).system = s /\ Head(todo[p]).model = m)
      ~> (<<s, m>> \in audit)
=============================================================================
