----------------------- MODULE ModelGovernanceProofs ------------------------
(***************************************************************************)
(* The human review of production models, proved for any number of         *)
(* training runs and dashboard threads, interleaved and killed anywhere.   *)
(* Three things outside the proof break it, and the runs show each: the    *)
(* promotion script, a root that starts without a registry file, and a     *)
(* training run that overwrites the directory of an older model.           *)
(***************************************************************************)
EXTENDS ModelRegistryProofs

\* Promotions come from the dashboard only, the registry file exists, and
\* every training run writes a directory of its own.
Governable == Clis = {} /\ ~FreshRoot /\ ~RetrainInPlace

-----------------------------------------------------------------------------
(* The inductive invariant *)

Trained(m) == artifact[m] # 0

\* Only reviewed models are, or are about to be, in production, and every
\* candidate has a directory (so no training run will touch it again).
ContentGoverned(c) ==
  \A s \in Systems :
    /\ c.block[s].production \in reviewed \union {NoModel}
    /\ \A m \in Names(c.block[s].candidates) : Trained(m)
    /\ c.block[s].production # NoModel => Trained(c.block[s].production)

JobGoverned(j) ==
  /\ j.op \in {"candidate", "promote"}
  /\ Trained(j.model)
  /\ j.op = "promote" => j.model \in reviewed

GInv ==
  /\ IInv
  /\ disk # "absent"
  /\ \A m \in reviewed : Trained(m)
  /\ ContentGoverned(registry)
  /\ \A p \in Procs : ContentGoverned(buf[p])
  /\ \A p \in Procs : \A i \in DOMAIN todo[p] : JobGoverned(todo[p][i])

-----------------------------------------------------------------------------
(* What a job adds to a block *)

LEMMA ListNames ==
  ASSUME NEW list \in Seq(Record)
  PROVE  Names(list) \subseteq Models
<1>1. \A i \in DOMAIN list : list[i] \in Record
  OBVIOUS
<1>2. QED
  BY <1>1 DEF Names, Record

\* Cutting a list adds no name.
LEMMA KeepNames ==
  ASSUME NEW list \in Seq(Record), NEW n \in Nat \ {0}
  PROVE  Names(Keep(list, n)) \subseteq Names(list)
<1>1. /\ Keep(list, n) \in Seq(Record)
      /\ Len(Keep(list, n)) <= Len(list)
      /\ \A i \in 1..Len(Keep(list, n)) : Keep(list, n)[i] = list[i]
  BY KeepSound
<1>2. DOMAIN Keep(list, n) = 1..Len(Keep(list, n)) /\ DOMAIN list = 1..Len(list)
      /\ Len(Keep(list, n)) \in Nat /\ Len(list) \in Nat
  BY <1>1
<1>3. \A i \in DOMAIN Keep(list, n) : i \in DOMAIN list
  BY <1>1, <1>2
<1>4. QED
  BY <1>1, <1>2, <1>3 DEF Names

\* A nomination adds its own model to the candidates and touches nothing else.
LEMMA WithCandidateNames ==
  ASSUME NEW b \in Block, NEW m \in Models, artifact[m] \in Ranks,
         BlockSound(b)
  PROVE  /\ Names(WithCandidate(b, m).candidates) \subseteq
              Names(b.candidates) \union {m}
         /\ WithCandidate(b, m).production = b.production
<1>. DEFINE r == [model |-> m, rank |-> artifact[m]]
            less == Without(b.candidates, m)
            more == Ranked(less, r)
<1>1. r \in Record /\ r.model = m
  BY DEF Record
<1>2. b.candidates \in Seq(Record) /\ Ordered(b.candidates)
  BY DEF Block, BlockSound, WellRanked, Ordered
<1>3. /\ less \in Seq(Record) /\ Ordered(less) /\ m \notin Names(less)
      /\ Names(less) \subseteq Names(b.candidates)
  BY <1>2, WithoutSound
<1>4. WithCandidate(b, m).candidates = Keep(more, MaxCandidates)
      /\ WithCandidate(b, m).production = b.production
  BY DEF WithCandidate, Block
<1>. HIDE DEF less, r
<1>5. more \in Seq(Record) /\ Names(more) = Names(less) \union {m}
  BY <1>1, <1>3, RankedSound
<1>. HIDE DEF more
<1>6. Names(Keep(more, MaxCandidates)) \subseteq Names(more)
  BY <1>5, KeepNames, LimitsAssumption
<1>7. QED
  BY <1>3, <1>4, <1>5, <1>6

\* A governed job puts no other model in production than the one it names.
LEMMA ResultNames ==
  ASSUME NEW j \in Job, NEW b \in Block, BlockSound(b),
         NEW x \in Results(j, b), artifact \in [Models -> Ranks],
         j.op \in {"candidate", "promote"}
  PROVE  /\ Names(x.candidates) \subseteq Names(b.candidates) \union {j.model}
         /\ \/ x.production = b.production
            \/ j.op = "promote" /\ x.production = j.model
<1>1. j.model \in Models
  BY DEF Job
<1>2. CASE j.op = "candidate"
  <2>1. x = WithCandidate(b, j.model)
    BY <1>2 DEF Results
  <2>2. QED
    BY <1>1, <2>1, WithCandidateNames
<1>3. CASE j.op = "promote"
  <2>1. PICK m \in Selected(j, b) : x = Promoted(b, m)
    BY <1>3 DEF Results
  <2>2. m = j.model
    BY <1>3, <2>1 DEF Selected
  <2>3. x.production = j.model /\ x.candidates = Without(b.candidates, j.model)
    BY <2>1, <2>2 DEF Promoted
  <2>4. b.candidates \in Seq(Record) /\ Ordered(b.candidates)
    BY DEF Block, BlockSound, WellRanked, Ordered
  <2>5. QED
    BY <1>1, <1>3, <2>3, <2>4, WithoutSound
<1>4. QED
  BY <1>2, <1>3

-----------------------------------------------------------------------------
(* The invariant holds *)

LEMMA EmptyContentGoverned == ContentGoverned(EmptyContent)
<1>1. Names(<<>>) = {}
  BY DEF Names
<1>2. QED
  BY <1>1 DEF ContentGoverned, EmptyContent, EmptyBlock

LEMMA InitGInv == Governable /\ Init => GInv
<1>. SUFFICES ASSUME Governable, Init PROVE GInv
  OBVIOUS
<1>1. IInv
  BY InitIInv
<1>2. QED
  BY <1>1, EmptyContentGoverned DEF Governable, Init, GInv

LEMMA NextGInv == Governable /\ GInv /\ [Next]_vars => GInv'
<1>. SUFFICES ASSUME Governable, GInv, [Next]_vars PROVE GInv'
  OBVIOUS
<1>. USE DEF Governable
<1>0. TypeOK /\ CandidateListsSound /\ BusyHasJob /\ IInv'
  BY NextIInv DEF GInv, IInv
<1>1. ASSUME NEW p \in Trainers, Train(p) PROVE GInv'
  <2>1. PICK s \in Systems, m \in Models, score \in Scores :
          /\ artifact[m] = 0
          /\ artifact' = [artifact EXCEPT ![m] = score]
          /\ reviewed' = reviewed \ {m}
          /\ Assign(p, <<[op |-> "candidate", system |-> s, model |-> m]>>)
    BY <1>1 DEF Train
  <2>2. score # 0 /\ reviewed' = reviewed
    BY <2>1, ScoresAssumption DEF GInv, Trained
  <2>3. /\ artifact'[m] # 0
        /\ \A x \in Models : artifact[x] # 0 => artifact'[x] # 0
    BY <2>1, <2>2, <1>0 DEF TypeOK
  <2>4. \A x \in reviewed : artifact'[x] # 0
    BY <2>3, <1>0 DEF GInv, TypeOK, Trained
  <2>5. ASSUME NEW c \in Content, ContentGoverned(c), NEW y \in Systems
        PROVE  /\ \A x \in Names(c.block[y].candidates) : artifact'[x] # 0
               /\ c.block[y].production # NoModel =>
                    artifact'[c.block[y].production] # 0
    <3>1. /\ c.block[y].candidates \in Seq(Record)
          /\ c.block[y].production \in Models \union {NoModel}
      BY <2>5 DEF Content, Block
    <3>2. Names(c.block[y].candidates) \subseteq Models
      BY <3>1, ListNames
    <3>3. QED
      BY <2>3, <2>5, <3>1, <3>2 DEF ContentGoverned, Trained
  <2>6. registry' = registry /\ buf' = buf
    BY <1>1 DEF Train
  <2>7. ContentGoverned(registry)' /\ \A q \in Procs : ContentGoverned(buf[q])'
    <3>1. ContentGoverned(registry)'
      BY <2>2, <2>5, <2>6, <1>0 DEF GInv, TypeOK, ContentGoverned, Trained
    <3>2. ASSUME NEW q \in Procs PROVE ContentGoverned(buf[q])'
      BY <2>2, <2>5, <2>6, <1>0 DEF GInv, TypeOK, ContentGoverned, Trained
    <3>3. QED
      BY <3>1, <3>2
  <2>8. ASSUME NEW q \in Procs, NEW i \in DOMAIN todo'[q]
        PROVE  JobGoverned(todo[q][i])'
    <3>1. CASE q = p
      <4>1. todo'[q] = <<[op |-> "candidate", system |-> s, model |-> m]>>
        BY <2>1, <3>1, <1>0 DEF Assign, TypeOK
      <4>2. i = 1 /\ todo'[q][i] = [op |-> "candidate", system |-> s, model |-> m]
        BY <4>1, <2>8
      <4>3. QED
        BY <4>2, <2>3 DEF JobGoverned, Trained
    <3>2. CASE q # p
      <4>1. todo'[q] = todo[q] /\ todo[q] \in Seq(Job)
        BY <2>1, <3>2, <1>0 DEF Assign, TypeOK
      <4>2. todo[q][i] \in Job /\ i \in DOMAIN todo[q]
        BY <4>1, <2>8
      <4>3. JobGoverned(todo[q][i])
        BY <4>2 DEF GInv
      <4>4. todo[q][i].model \in Models
        BY <4>2, <4>3 DEF Job, JobGoverned
      <4>5. QED
        BY <4>1, <4>3, <4>4, <2>2, <2>3 DEF JobGoverned, Trained
    <3>3. QED
      BY <3>1, <3>2
  <2>9. disk' = disk
    BY <1>1 DEF Train
  <2>10. QED
    BY <1>0, <2>2, <2>4, <2>7, <2>8, <2>9 DEF GInv, Trained
<1>2. ASSUME NEW p \in Dashboards, AskPromotion(p) PROVE GInv'
  <2>1. PICK s \in Systems, m \in reviewed :
          todo' = [todo EXCEPT ![p] = <<[op |-> "promote", system |-> s, model |-> m]>>]
    BY <1>2 DEF AskPromotion, Assign
  <2>2. ASSUME NEW q \in Procs, NEW i \in DOMAIN todo'[q]
        PROVE  JobGoverned(todo'[q][i])
    <3>1. CASE q = p
      <4>1. todo'[q] = <<[op |-> "promote", system |-> s, model |-> m]>>
        BY <2>1, <3>1, <1>0 DEF TypeOK
      <4>2. i = 1 /\ todo'[q][i] = [op |-> "promote", system |-> s, model |-> m]
        BY <4>1, <2>2
      <4>3. QED
        BY <4>2 DEF JobGoverned, GInv
    <3>2. CASE q # p
      BY <2>1, <2>2, <3>2, <1>0 DEF TypeOK, GInv
    <3>3. QED
      BY <3>1, <3>2
  <2>3. QED
    BY <1>2, <1>0, <2>2
       DEF AskPromotion, GInv, ContentGoverned, JobGoverned, Trained
<1>4. ASSUME NEW p \in Procs, Load(p) PROVE GInv'
  <2>. DEFINE j == Head(todo[p])
  <2>0. todo[p] # <<>> /\ todo[p] \in Seq(Job)
    BY <1>4, <1>0 DEF Load, Idle, TypeOK
  <2>1. j \in Job /\ j.system \in Systems /\ 1 \in DOMAIN todo[p] /\ j = todo[p][1]
    BY <2>0, HeadTailProperties DEF Job
  <2>2. JobGoverned(j)
    BY <2>1 DEF GInv
  <2>. HIDE DEF j
  <2>3. disk = "ok" /\ Loaded(j.system) = {registry}
    <3>1. disk = "ok" \/ disk = "torn"
      BY <1>0 DEF GInv, TypeOK
    <3>2. Loaded(j.system) # {}
      BY <1>4 DEF Load, j
    <3>3. QED
      BY <3>1, <3>2 DEF Loaded
  <2>4. PICK b \in Results(j, registry.block[j.system]) :
          buf' = [buf EXCEPT ![p] = [block  |-> [registry.block EXCEPT ![j.system] = b],
                                     stages |-> j.system]]
    BY <1>4, <2>3 DEF Load, j
  <2>. DEFINE old == registry.block[j.system]
  <2>5. old \in Block /\ BlockSound(old)
    BY <1>0, <2>1 DEF TypeOK, Content, CandidateListsSound
  <2>6. /\ Names(b.candidates) \subseteq Names(old.candidates) \union {j.model}
        /\ \/ b.production = old.production
           \/ j.op = "promote" /\ b.production = j.model
    BY <2>1, <2>2, <2>4, <2>5, <1>0, ResultNames DEF TypeOK, JobGoverned
  <2>7. /\ b.production \in reviewed \union {NoModel}
        /\ \A m \in Names(b.candidates) : Trained(m)
        /\ b.production # NoModel => Trained(b.production)
    BY <2>1, <2>2, <2>6 DEF GInv, ContentGoverned, JobGoverned
  <2>8. registry.block \in [Systems -> Block]
    BY <1>0 DEF TypeOK, Content
  <2>9. ContentGoverned([block  |-> [registry.block EXCEPT ![j.system] = b],
                         stages |-> j.system])
    BY <2>1, <2>7, <2>8 DEF GInv, ContentGoverned
  <2>10. \A q \in Procs : ContentGoverned(buf'[q])
    BY <2>4, <2>9, <1>0 DEF GInv, TypeOK
  <2>11. UNCHANGED <<artifact, disk, registry, todo, reviewed>>
    BY <1>4 DEF Load
  <2>12. QED
    BY <1>0, <2>10, <2>11 DEF GInv, ContentGoverned, JobGoverned, Trained
<1>5. ASSUME NEW p \in Procs, Fail(p) PROVE GInv'
  <2>1. \A q \in Procs : \A i \in DOMAIN todo'[q] : JobGoverned(todo'[q][i])
    BY <1>5, <1>0 DEF Fail, Assign, TypeOK, GInv
  <2>2. QED
    BY <1>5, <1>0, <2>1 DEF Fail, GInv, ContentGoverned, JobGoverned, Trained
<1>6. ASSUME NEW p \in Procs, Truncate(p) PROVE GInv'
  BY <1>6, <1>0 DEF Truncate, GInv, ContentGoverned, JobGoverned, Trained
<1>7. ASSUME NEW p \in Procs, Flush(p) \/ WriteAudit(p) PROVE GInv'
  <2>1. todo[p] # <<>> /\ todo[p] \in Seq(Job)
    BY <1>7, <1>0 DEF Flush, WriteAudit, BusyHasJob, TypeOK
  <2>2. ASSUME NEW i \in DOMAIN Tail(todo[p])
        PROVE  JobGoverned(Tail(todo[p])[i])
    <3>1. Tail(todo[p])[i] = todo[p][i+1] /\ i+1 \in DOMAIN todo[p]
      BY <2>1, <2>2, HeadTailProperties
    <3>2. QED
      BY <3>1 DEF GInv
  <2>3. UNCHANGED todo \/ Assign(p, Tail(todo[p]))
    BY <1>7 DEF Flush, WriteAudit
  <2>4. \A q \in Procs : \A i \in DOMAIN todo'[q] : JobGoverned(todo'[q][i])
    BY <2>2, <2>3, <1>0 DEF Assign, TypeOK, GInv
  <2>5. /\ disk' # "absent"
        /\ ContentGoverned(registry')
        /\ \A q \in Procs : ContentGoverned(buf'[q])
    BY <1>7, <1>0, EmptyContentGoverned DEF Flush, WriteAudit, GInv, TypeOK
  <2>6. artifact' = artifact /\ reviewed' = reviewed
    BY <1>7 DEF Flush, WriteAudit
  <2>7. QED
    BY <1>0, <2>4, <2>5, <2>6 DEF GInv, ContentGoverned, JobGoverned, Trained
<1>8. ASSUME NEW p \in Procs, Crash(p) PROVE GInv'
  <2>1. \A q \in Procs : /\ ContentGoverned(buf'[q])
                         /\ \A i \in DOMAIN todo'[q] : JobGoverned(todo'[q][i])
    BY <1>8, <1>0, EmptyContentGoverned DEF Crash, Assign, TypeOK, GInv
  <2>2. QED
    BY <1>8, <1>0, <2>1 DEF Crash, GInv, ContentGoverned, JobGoverned, Trained
<1>9. ASSUME NEW s \in Systems, Review(s) PROVE GInv'
  <2>1. PICK c \in Loaded(s) :
          reviewed' = (reviewed \union Names(c.block[s].candidates)
                         \union {c.block[s].production}) \ {NoModel}
    BY <1>9 DEF Review
  <2>2. disk = "ok" \/ disk = "torn"
    BY <1>0 DEF GInv, TypeOK
  <2>3. c = registry
    BY <2>1, <2>2 DEF Loaded
  <2>4. \A m \in reviewed' : Trained(m)
    BY <2>1, <2>3 DEF GInv, ContentGoverned
  <2>5. reviewed \subseteq reviewed'
    BY <2>1, <1>0, ModelsAssumption DEF TypeOK
  <2>6. QED
    BY <1>9, <1>0, <2>4, <2>5
       DEF Review, GInv, ContentGoverned, JobGoverned, Trained
<1>10. CASE UNCHANGED vars
  BY <1>10, <1>0 DEF vars, GInv, ContentGoverned, JobGoverned, Trained
<1>11. QED
  BY <1>1, <1>2, <1>4, <1>5, <1>6, <1>7, <1>8, <1>9, <1>10 DEF Next, Write

\* Every model in production was shown to a human with the artifact it has:
\* "a human reviews candidates before promotion to production", as long as
\* promotions go through the dashboard, a registry file exists from the
\* start and training runs do not share directories.
THEOREM ProductionIsReviewed == Governable => (Spec => []NoUnreviewedProduction)
<1>1. GInv => NoUnreviewedProduction
  BY DEF GInv, ContentGoverned, NoUnreviewedProduction
<1>2. Governable /\ Init => GInv
  BY InitGInv
<1>3. Governable /\ GInv /\ [Next]_vars => GInv'
  BY NextGInv
<1>. SUFFICES ASSUME Governable PROVE Spec => []NoUnreviewedProduction
  OBVIOUS
<1>4. Init => GInv
  BY <1>2
<1>5. GInv /\ [Next]_vars => GInv'
  BY <1>3
<1>6. QED
  BY <1>1, <1>4, <1>5, PTL DEF Spec
=============================================================================
