---------------------------- MODULE TrainingProofs ----------------------------
(***************************************************************************)
(* What a training attempt chooses, when it stops, and what it leaves in    *)
(* its directory and in the hands of a reviewer, proved for any fits,       *)
(* scores, epochs, directories, runs and bounds.                            *)
(***************************************************************************)
EXTENDS Retraining, FiniteSetTheorems, SequenceTheorems, TLAPS

-----------------------------------------------------------------------------
(* The best of some candidates. *)

\* j goes before i.
Better(scores, j, i) == scores[i] < scores[j] \/ (scores[j] = scores[i] /\ j < i)

\* A finite set of candidates has a best one: dominated by none, as those that
\* dominate a candidate that is dominated itself are more.
LEMMA BestExists ==
  ASSUME NEW S \in SUBSET Int, IsFiniteSet(S), S # {}, NEW scores,
         \A i \in S : scores[i] \in Int
  PROVE  \E i \in S : \A j \in S : ~Better(scores, j, i)
  <1> DEFINE Over(i) == {j \in S : Better(scores, j, i)}
             F == {Over(i) : i \in S}
  <1>1. IsWellFoundedOn(StrictSubsetOrdering(S), SUBSET S)
    BY FS_StrictSubsetOrderingWellFounded, FS_FiniteSubsetsOfFinite
  <1>2. F \subseteq SUBSET S /\ F # {}
    OBVIOUS
  <1> HIDE DEF F
  <1>3. PICK X \in F : \A Y \in F : ~(<<Y, X>> \in StrictSubsetOrdering(S))
    BY ONLY <1>1, <1>2, WFMin
  <1>4. PICK i \in S : X = Over(i)
    BY DEF F
  <1>5. ASSUME NEW j \in S, Better(scores, j, i)
        PROVE  FALSE
    <2>1. Over(j) \subseteq Over(i)
      <3> SUFFICES ASSUME NEW k \in S, Better(scores, k, j)
                   PROVE  Better(scores, k, i)
        OBVIOUS
      <3>1. /\ k \in Int /\ j \in Int /\ i \in Int
            /\ scores[k] \in Int /\ scores[j] \in Int /\ scores[i] \in Int
        OBVIOUS
      <3>2. /\ scores[j] < scores[k] \/ (scores[k] = scores[j] /\ k < j)
            /\ scores[i] < scores[j] \/ (scores[j] = scores[i] /\ j < i)
        BY <1>5 DEF Better
      <3> QED BY ONLY <3>1, <3>2 DEF Better
    <2>2. j \in Over(i) /\ j \notin Over(j)
      BY <1>5 DEF Better
    <2>3. Over(j) \in F
      BY DEF F
    <2>4. <<Over(j), X>> \in StrictSubsetOrdering(S)
      BY <1>4, <2>1, <2>2 DEF StrictSubsetOrdering
    <2> QED BY <1>3, <2>3, <2>4
  <1> QED BY <1>5

\* Best is one of the candidates, and scores as much as each of them.
LEMMA BestIsBest ==
  ASSUME NEW S \in SUBSET Int, IsFiniteSet(S), S # {}, NEW scores,
         \A i \in S : scores[i] \in Int
  PROVE  Best(S, scores) \in S /\ \A j \in S : scores[j] <= scores[Best(S, scores)]
  <1>1. PICK i \in S : \A j \in S : ~Better(scores, j, i)
    BY BestExists
  <1>2. \A j \in S : scores[j] < scores[i] \/ (scores[j] = scores[i] /\ i <= j)
    BY <1>1 DEF Better
  <1>3. /\ Best(S, scores) \in S
        /\ \A j \in S : \/ scores[j] < scores[Best(S, scores)]
                        \/ scores[j] = scores[Best(S, scores)] /\ Best(S, scores) <= j
    BY <1>2 DEF Best
  <1>4. ASSUME NEW j \in S
        PROVE  scores[j] <= scores[Best(S, scores)]
    <2>1. scores[j] \in Int /\ scores[Best(S, scores)] \in Int
      BY <1>3
    <2> QED BY <1>3, <2>1
  <1> QED BY <1>3, <1>4

\* The body of ChosenIsBest.
ChosenSound(t) ==
  LET fitted == {i \in DOMAIN t.scores : t.scores[i] # Failed}
  IN /\ t.models \subseteq fitted
     /\ \A i \in fitted :
          IF Cardinality(t.models) = 2 THEN t.scores[i] <= t.ensemble
          ELSE \A m \in t.models : t.scores[i] <= t.scores[m]
     /\ Cardinality(t.models) = 2 => {Kinds[m] : m \in t.models} = {"xgb", "lgbm"}

\* M is a sound choice of models from those that were fitted.
ChoiceSound(M, fitted, scores, ensemble) ==
  /\ M \subseteq fitted /\ M # {} /\ M \in SUBSET Fits
  /\ \A i \in fitted : IF Cardinality(M) = 2 THEN scores[i] <= ensemble
                       ELSE \A m \in M : scores[i] <= scores[m]
  /\ Cardinality(M) = 2 => {Kinds[m] : m \in M} = {"xgb", "lgbm"}

\* What Chosen saves is the best of what was fitted.
LEMMA ChosenIsSound ==
  ASSUME NEW kind, NEW scores \in ScoresOf(kind), NEW ensemble \in Scores \union {Failed},
         NEW fitted, fitted = {i \in Candidates(kind) : scores[i] # Failed}, fitted # {},
         NEW M, M = Chosen(kind, fitted, scores, ensemble)
  PROVE  ChoiceSound(M, fitted, scores, ensemble)
  <1> DEFINE x == OfKind(fitted, "xgb")
             l == OfKind(fitted, "lgbm")
             one == Best(fitted, scores)
  <1>1. Fits = 1 .. Len(Kinds) /\ Len(Kinds) \in Nat
    BY FitsAssumption DEF Fits
  <1>2. IsFiniteSet(Fits) /\ Fits \subseteq Int
    BY <1>1, FS_Interval
  <1>3. fitted \subseteq Fits /\ \A i \in fitted : scores[i] \in Scores
    BY DEF Candidates, ScoresOf
  <1>4. \A i \in fitted : scores[i] \in Int
    <2>1. Scores \subseteq Int
      BY FitsAssumption
    <2> QED BY <1>3, <2>1
  <1>5. one \in fitted /\ \A j \in fitted : scores[j] <= scores[one]
    <2>1. IsFiniteSet(fitted)
      BY <1>2, <1>3, FS_Subset
    <2> QED BY <1>2, <1>3, <1>4, <2>1, BestIsBest
  <1>6. x \subseteq fitted /\ l \subseteq fitted
    BY DEF OfKind
  <1>7. x # {} => Best(x, scores) \in x
    <2>1. IsFiniteSet(x)
      BY <1>2, <1>3, <1>6, FS_Subset
    <2>2. x \in SUBSET Int /\ \A i \in x : scores[i] \in Int
      BY <1>2, <1>3, <1>4, <1>6
    <2> HIDE DEF x
    <2> QED BY ONLY <2>1, <2>2, BestIsBest
  <1>8. l # {} => Best(l, scores) \in l
    <2>1. IsFiniteSet(l)
      BY <1>2, <1>3, <1>6, FS_Subset
    <2>2. l \in SUBSET Int /\ \A i \in l : scores[i] \in Int
      BY <1>2, <1>3, <1>4, <1>6
    <2> HIDE DEF l
    <2> QED BY ONLY <2>1, <2>2, BestIsBest
  <1>9. CASE kind \in {"auto", "ensemble"} /\ x # {} /\ l # {} /\ ensemble >= scores[one]
    <2> DEFINE p == Best(x, scores)
               q == Best(l, scores)
    <2>1. M = {p, q}
      BY <1>9 DEF Chosen
    <2>2. p \in fitted /\ q \in fitted /\ Kinds[p] = "xgb" /\ Kinds[q] = "lgbm"
      BY <1>6, <1>7, <1>8, <1>9 DEF OfKind
    <2>3. p # q
      BY <2>2
    <2>4. Cardinality(M) = 2
      <3> HIDE DEF p, q
      <3>1. IsFiniteSet({p}) /\ Cardinality({p}) = 1
        BY FS_Singleton
      <3>2. {p} \union {q} = {p, q} /\ q \notin {p}
        BY <2>3
      <3>3. Cardinality({p} \union {q}) = 2
        <4>1. Cardinality({p} \union {q}) = IF q \in {p} THEN 1 ELSE 1 + 1
          BY <3>1, FS_AddElement
        <4> QED BY ONLY <3>2, <4>1
      <3> QED BY <2>1, <3>2, <3>3
    <2>5. \A i \in fitted : scores[i] <= ensemble
      <3>0. Scores \subseteq Int /\ Failed \in Int
        BY FitsAssumption DEF Failed
      <3>1. ensemble \in Int
        BY <3>0
      <3> HIDE DEF one
      <3> QED BY <1>4, <1>5, <1>9, <3>1
    <2>6. {Kinds[m] : m \in M} = {"xgb", "lgbm"}
      <3> HIDE DEF p, q
      <3> QED BY <2>1, <2>2
    <2>7. M \subseteq fitted /\ M # {} /\ M \in SUBSET Fits
      <3> HIDE DEF p, q
      <3> QED BY <1>3, <2>1, <2>2
    <2> QED BY ONLY <2>4, <2>5, <2>6, <2>7 DEF ChoiceSound
  <1>10. CASE ~(kind \in {"auto", "ensemble"} /\ x # {} /\ l # {} /\ ensemble >= scores[one])
    <2>1. M = {one}
      BY <1>10 DEF Chosen
    <2>2. Cardinality(M) = 1
      BY <2>1, FS_Singleton
    <2>3. Cardinality(M) # 2
      BY <2>2
    <2> HIDE DEF one
    <2> QED BY <1>3, <1>5, <2>1, <2>3 DEF ChoiceSound
  <1> QED BY <1>9, <1>10

-----------------------------------------------------------------------------
(* The attempts. *)

ScoreType == Seq(Scores) \union UNION {[S -> Scores \union {Failed}] : S \in SUBSET Fits}

AttType == [pc : {"none", "fit", "epochs", "write", "log", "register", "done", "dead"},
            dir : Dirs \union {""}, device : {"", "cpu", "cuda"}, scores : ScoreType,
            ensemble : Scores \union {Failed}, best : Nat, kept : Nat, since : Nat,
            models : SUBSET Fits, written : Nat]

\* An RCA training after some epochs: the best epoch is the first one of the highest
\* score, and "since" counts those after it.
EpochsSound(t) ==
  LET n == Len(t.scores) IN
  /\ t.scores \in Seq(Scores)
  /\ n > 0 => t.best \in 1 .. n
  /\ n = 0 => t.best = 0
  /\ t.since = n - t.best
  /\ \A i \in 1 .. n : \/ t.scores[i] < t.scores[t.best]
                       \/ t.scores[i] = t.scores[t.best] /\ t.best <= i
  /\ t.device = "cuda" => t.kept = t.best

\* The body of StopsAtPatience.
StopSound(t) ==
  LET n == Len(t.scores)
  IN /\ n = Epochs \/ n = t.best + Patience
     /\ n <= t.best + Patience
     /\ \A i \in 1 .. n : \/ t.scores[i] < t.scores[t.best]
                          \/ t.scores[i] = t.scores[t.best] /\ t.best <= i
     /\ t.device = "cuda" => t.kept = t.best

AttSound(t) ==
  /\ t.pc \in {"none", "fit", "epochs", "dead"} => t.models = {}
  /\ t.pc \in {"none", "fit", "dead"} => t.best = 0
  /\ t.pc = "epochs" => EpochsSound(t) /\ Len(t.scores) < Epochs /\ t.since < Patience
  /\ t.pc = "write" /\ t.best # 0 /\ t.scores # <<>> => StopSound(t)
  /\ t.models # {} /\ t.scores # <<>> => ChosenSound(t)

\* The attempts keep their types, and each is sound.
AttInv ==
  /\ attempts \in 0 .. MaxAttempts
  /\ att \in [Attempts -> AttType]
  /\ \A a \in Attempts : AttSound(att[a])
  /\ \A a \in Attempts : a > attempts => att[a].pc = "none"

LEMMA NoAttemptType == NoAttempt \in AttType /\ AttSound(NoAttempt)
  <1>1. <<>> \in Seq(Scores) /\ Len(<<>>) = 0
    OBVIOUS
  <1>2. <<>> \in ScoreType
    BY <1>1 DEF ScoreType
  <1>3. -1 \in Scores \union {Failed} /\ 0 \in Nat
    BY DEF Failed
  <1>4. NoAttempt \in AttType
    BY <1>2, <1>3 DEF NoAttempt, AttType
  <1> QED BY <1>4 DEF NoAttempt, AttSound

LEMMA PositiveBounds == Len(<<>>) < Epochs /\ 0 < Patience
  <1>1. Epochs \in Nat /\ Epochs # 0 /\ Patience \in Nat /\ Patience # 0
    BY EpochsAssumption
  <1> QED BY <1>1

\* Before the first epoch.
LEMMA EmptyIsSound ==
  ASSUME NEW t, t.scores = <<>>, t.best = 0, t.since = 0, t.kept = 0
  PROVE  EpochsSound(t)
  <1>1. <<>> \in Seq(Scores) /\ Len(<<>>) = 0 /\ 1 .. 0 = {} /\ 0 = 0 - 0 /\ ~(0 > 0)
    OBVIOUS
  <1> QED BY ONLY <1>1, t.scores = <<>>, t.best = 0, t.since = 0, t.kept = 0 DEF EpochsSound

\* An attempt that starts, and one that dies.
LEMMA StartedSound ==
  ASSUME NEW d \in Dirs, NEW device \in {"", "cpu", "cuda"}
  PROVE  /\ Started(d, device) \in AttType
         /\ Started(d, device).pc \in {"fit", "epochs"}
         /\ Started(d, device).dir = d
         /\ AttSound(Started(d, device))
  <1> DEFINE t == Started(d, device)
  <1>1. /\ t.pc = IF TaskOf[d] = "rca" THEN "epochs" ELSE "fit"
        /\ t.dir = d /\ t.device = device /\ t.scores = <<>> /\ t.best = 0 /\ t.kept = 0
        /\ t.since = 0 /\ t.models = {}
    BY DEF Started, NoAttempt
  <1>2. t \in AttType
    <2>1. NoAttempt \in AttType
      BY NoAttemptType
    <2> DEFINE p == IF TaskOf[d] = "rca" THEN "epochs" ELSE "fit"
    <2>2. p \in {"fit", "epochs"} /\ t = [NoAttempt EXCEPT !.pc = p, !.dir = d, !.device = device]
      BY DEF Started
    <2> HIDE DEF p, t
    <2> QED BY <2>1, <2>2 DEF AttType
  <1>3. AttSound(t)
    <2>1. Len(<<>>) < Epochs /\ 0 < Patience
      BY PositiveBounds
    <2> HIDE DEF t
    <2>2. EpochsSound(t)
      BY <1>1, EmptyIsSound
    <2>4. t.pc # "write"
      BY <1>1
    <2>5. t.pc \in {"fit", "epochs"} /\ t.models = {} /\ t.best = 0 /\ t.scores = <<>> /\ t.since = 0
      BY <1>1
    <2> QED BY ONLY <2>1, <2>2, <2>4, <2>5 DEF AttSound
  <1> QED BY <1>1, <1>2, <1>3

LEMMA DeadSound ==
  ASSUME NEW t \in AttType
  PROVE  /\ Dead(t) \in AttType /\ Dead(t).pc = "dead" /\ Dead(t).dir = t.dir
         /\ AttSound(Dead(t))
  <1>1. t.dir \in Dirs \union {""}
    BY DEF AttType
  <1>2. Dead(t) \in AttType
    BY <1>1, NoAttemptType DEF Dead, AttType
  <1>3. /\ Dead(t).pc = "dead" /\ Dead(t).dir = t.dir
        /\ Dead(t).models = {} /\ Dead(t).best = 0
    BY DEF Dead, NoAttempt
  <1> QED BY <1>2, <1>3 DEF AttSound

\* One epoch, and what the copy of the parameters is then.
LEMMA EpochSound ==
  ASSUME NEW t \in AttType, EpochsSound(t), NEW s \in Scores, NEW u, u = Aliased(Epoch(t, s))
  PROVE  /\ u \in AttType /\ EpochsSound(u) /\ Len(u.scores) = Len(t.scores) + 1
         /\ u.pc = t.pc /\ u.models = t.models /\ u.dir = t.dir /\ u.since <= t.since + 1
         /\ u.written = t.written /\ (u.kept = Len(t.scores) + 1 \/ u.kept = t.kept)
  <1> DEFINE n == Len(t.scores)
             up == Append(t.scores, s)
             e == Epoch(t, s)
  <1>1. /\ t.scores \in Seq(Scores) /\ n \in Nat /\ t.best \in Nat /\ t.since \in Nat /\ t.kept \in Nat
        /\ s \in Nat /\ \A i \in 1 .. n : t.scores[i] \in Nat
    <2>1. Scores \subseteq Nat
      BY FitsAssumption
    <2>2. t.best \in Nat /\ t.since \in Nat /\ t.kept \in Nat
      BY DEF AttType
    <2>3. t.scores \in Seq(Scores)
      BY DEF EpochsSound
    <2>4. n \in Nat /\ \A i \in 1 .. n : t.scores[i] \in Scores
      BY <2>3
    <2> QED BY <2>1, <2>2, <2>3, <2>4
  <1>0. /\ n > 0 => t.best \in 1 .. n
        /\ n = 0 => t.best = 0
        /\ t.since = n - t.best
        /\ \A i \in 1 .. n : \/ t.scores[i] < t.scores[t.best]
                             \/ t.scores[i] = t.scores[t.best] /\ t.best <= i
        /\ t.device = "cuda" => t.kept = t.best
    BY DEF EpochsSound
  <1>2. /\ up \in Seq(Scores) /\ Len(up) = n + 1 /\ up[n + 1] = s
        /\ \A i \in 1 .. n : up[i] = t.scores[i]
    BY <1>1
  <1>3. up \in ScoreType
    BY <1>2 DEF ScoreType
  <1>4. BestScore(t) = IF t.best = 0 THEN -1 ELSE t.scores[t.best]
    BY DEF BestScore
  <1>5. e = IF s > BestScore(t)
            THEN [t EXCEPT !.scores = up, !.best = n + 1, !.kept = n + 1, !.since = 0]
            ELSE [t EXCEPT !.scores = up, !.since = t.since + 1]
    BY DEF Epoch
  <1> HIDE DEF n, up, e
  <1>6. /\ e \in AttType /\ e.pc = t.pc /\ e.models = t.models /\ e.dir = t.dir
        /\ e.device = t.device /\ e.scores = up /\ e.written = t.written
        /\ IF s > BestScore(t) THEN e.best = n + 1 /\ e.kept = n + 1 /\ e.since = 0
           ELSE e.best = t.best /\ e.kept = t.kept /\ e.since = t.since + 1
    <2>1. n + 1 \in Nat /\ t.since + 1 \in Nat /\ 0 \in Nat
      BY <1>1
    <2>2. CASE s > BestScore(t)
      <3>1. e = [t EXCEPT !.scores = up, !.best = n + 1, !.kept = n + 1, !.since = 0]
        BY <1>5, <2>2
      <3> QED BY <1>3, <2>1, <2>2, <3>1 DEF AttType
    <2>3. CASE ~(s > BestScore(t))
      <3>1. e = [t EXCEPT !.scores = up, !.since = t.since + 1]
        BY <1>5, <2>3
      <3> QED BY <1>3, <2>1, <2>3, <3>1 DEF AttType
    <2> QED BY <2>2, <2>3
  <1>7. EpochsSound(e) /\ e.since <= t.since + 1
    <2>1. CASE s > BestScore(t)
      <3>1. \A i \in 1 .. n : t.scores[i] < s
        <4>1. CASE t.best = 0
          BY <1>0, <1>1, <4>1
        <4>2. CASE t.best # 0
          <5>1. s > t.scores[t.best] /\ n > 0 /\ t.best \in 1 .. n
            BY <1>0, <1>1, <1>4, <2>1, <4>2
          <5>2. t.scores[t.best] \in Nat
            BY <1>1, <5>1
          <5>3. ASSUME NEW i \in 1 .. n
                PROVE  t.scores[i] < s
            <6>1. t.scores[i] \in Nat /\ s \in Nat /\ t.scores[t.best] < s
              BY <1>1, <5>1, <5>2
            <6>2. t.scores[i] < t.scores[t.best] \/ t.scores[i] = t.scores[t.best]
              BY <1>0
            <6> QED BY ONLY <5>2, <6>1, <6>2
          <5> QED BY <5>3
        <4> QED BY <4>1, <4>2
      <3>2. \A i \in 1 .. n + 1 : up[i] < up[n + 1] \/ (up[i] = up[n + 1] /\ n + 1 <= i)
        BY <1>1, <1>2, <3>1
      <3>3. e.best = n + 1 /\ e.kept = n + 1 /\ e.since = 0
        BY <1>6, <2>1
      <3>4. Len(up) > 0 /\ n + 1 \in 1 .. Len(up) /\ Len(up) - (n + 1) = 0
        BY <1>1, <1>2
      <3> QED BY ONLY <1>1, <1>2, <1>6, <3>2, <3>3, <3>4 DEF EpochsSound
    <2>2. CASE ~(s > BestScore(t))
      <3>1. n > 0
        BY <1>0, <1>1, <1>4, <2>2
      <3>2. t.best \in 1 .. n
        BY <1>0, <3>1
      <3>3. t.scores[t.best] \in Nat /\ s <= t.scores[t.best] /\ up[t.best] = t.scores[t.best]
        BY <1>1, <1>2, <1>4, <2>2, <3>2
      <3>4. \A i \in 1 .. n + 1 : up[i] < up[t.best] \/ (up[i] = up[t.best] /\ t.best <= i)
        BY <1>0, <1>1, <1>2, <3>2, <3>3
      <3>5. e.best = t.best /\ e.kept = t.kept /\ e.since = t.since + 1
        BY <1>6, <2>2
      <3>6. Len(up) > 0 /\ t.best \in 1 .. Len(up) /\ t.since + 1 = Len(up) - t.best
        BY <1>0, <1>1, <1>2, <3>2
      <3> QED BY ONLY <1>0, <1>1, <1>2, <1>6, <3>4, <3>5, <3>6 DEF EpochsSound
    <2> QED BY <2>1, <2>2
  <1>8. CASE t.device = "cpu"
    <2>1. u = [e EXCEPT !.kept = n + 1]
      BY <1>2, <1>6, <1>8 DEF Aliased, e
    <2>2. /\ u \in AttType /\ u.pc = e.pc /\ u.models = e.models /\ u.dir = e.dir
          /\ u.device = e.device /\ u.scores = e.scores /\ u.best = e.best /\ u.since = e.since
          /\ u.written = e.written /\ u.kept = n + 1
      <3>1. n + 1 \in Nat
        BY <1>1
      <3> QED BY <1>6, <2>1, <3>1 DEF AttType
    <2>3. EpochsSound(u)
      BY <1>6, <1>7, <1>8, <2>2 DEF EpochsSound
    <2> QED BY <1>2, <1>6, <1>7, <2>2, <2>3 DEF n
  <1>9. CASE t.device # "cpu"
    <2>1. u = e
      BY <1>6, <1>9 DEF Aliased, e
    <2> QED BY <1>2, <1>6, <1>7, <2>1 DEF n
  <1> QED BY <1>8, <1>9 DEF n

-----------------------------------------------------------------------------
(* The steps of the attempts. *)

\* One attempt becomes u.
LEMMA AttUpdated ==
  ASSUME AttInv, NEW a \in Attempts, NEW u \in AttType, AttSound(u),
         att' = [att EXCEPT ![a] = u],
         attempts' \in 0 .. MaxAttempts, attempts <= attempts', a <= attempts'
  PROVE  AttInv'
  <1>1. att' \in [Attempts -> AttType]
    BY DEF AttInv
  <1>2. \A b \in Attempts : att'[b] = IF b = a THEN u ELSE att[b]
    BY DEF AttInv
  <1>3. ASSUME NEW b \in Attempts
        PROVE  AttSound(att'[b])
    BY <1>2 DEF AttInv
  <1>4. ASSUME NEW b \in Attempts, b > attempts'
        PROVE  att'[b].pc = "none"
    <2>1. b \in Int /\ a \in Int /\ attempts \in Int /\ attempts' \in Int
      <3>1. Attempts \subseteq Int /\ 0 .. MaxAttempts \subseteq Int
        BY AttemptsAssumption DEF Attempts
      <3> QED BY <3>1 DEF AttInv
    <2>2. b # a /\ b > attempts
      BY <1>4, <2>1
    <2> QED BY <1>2, <2>2 DEF AttInv
  <1> QED BY <1>1, <1>3, <1>4 DEF AttInv

\* An attempt that runs is one of those that were started.
LEMMA RunningStarted ==
  ASSUME AttInv, NEW a \in Attempts, att[a].pc # "none"
  PROVE  a <= attempts /\ attempts \in 0 .. MaxAttempts /\ attempts <= attempts
  <1>1. a \in Int /\ attempts \in Int
    BY AttemptsAssumption DEF Attempts, AttInv
  <1> QED BY <1>1 DEF AttInv

\* A step of attempt a: it stays in its directory, and registers it when it is done.
Moves(a) ==
  /\ Running(a) /\ attempts' = attempts
  /\ \E u \in AttType :
       /\ att' = [att EXCEPT ![a] = u] /\ u.dir = att[a].dir
       /\ candidates' = IF u.pc = "done" THEN [candidates EXCEPT ![u.dir] = a] ELSE candidates

LEMMA AttMoves ==
  ASSUME AttInv, NEW a \in Attempts, Running(a), NEW u \in AttType, AttSound(u),
         att' = [att EXCEPT ![a] = u], attempts' = attempts, u.dir = att[a].dir,
         u.pc # "done" => candidates' = candidates,
         u.pc = "done" => candidates' = [candidates EXCEPT ![u.dir] = a]
  PROVE  AttInv' /\ Moves(a)
  <1>1. a <= attempts /\ attempts \in 0 .. MaxAttempts /\ attempts <= attempts
    BY RunningStarted DEF Running
  <1>2. AttInv'
    BY <1>1, AttUpdated
  <1>3. Moves(a)
    BY DEF Moves
  <1> QED BY <1>2, <1>3

\* Of an attempt that keeps its models, ensemble and scores the choice stays sound.
LEMMA SameChoice ==
  ASSUME NEW t, NEW u, ChosenSound(t), u.models = t.models, u.scores = t.scores,
         u.ensemble = t.ensemble
  PROVE  ChosenSound(u)
  BY ONLY ChosenSound(t), u.models = t.models, u.scores = t.scores,
          u.ensemble = t.ensemble DEF ChosenSound

\* Of an attempt that changes step, with its files.
LEMMA MovedSound ==
  ASSUME NEW t \in AttType, AttSound(t), t.pc \in {"write", "log", "register"},
         NEW pc \in {"write", "log", "register", "done"}, pc = "write" => t.pc = "write",
         NEW k \in Nat, NEW u, u = [t EXCEPT !.pc = pc, !.written = k]
  PROVE  u \in AttType /\ AttSound(u)
  <1>1. u \in AttType
    BY DEF AttType
  <1>2. /\ u.pc = pc /\ u.models = t.models /\ u.scores = t.scores /\ u.best = t.best
        /\ u.since = t.since /\ u.kept = t.kept /\ u.device = t.device /\ u.ensemble = t.ensemble
    BY DEF AttType
  <1>3. u.models # {} /\ u.scores # <<>> => ChosenSound(u)
    BY <1>2, SameChoice DEF AttSound
  <1>4. u.pc = "write" /\ u.best # 0 /\ u.scores # <<>> => StopSound(u)
    <2>1. u.pc = "write" /\ u.best # 0 /\ u.scores # <<>> => StopSound(t)
      BY <1>2 DEF AttSound
    <2> QED BY ONLY <1>2, <2>1 DEF StopSound
  <1> QED BY <1>1, <1>2, <1>3, <1>4 DEF AttSound

LEMMA FitCandidatesSound ==
  ASSUME AttInv, NEW a \in Attempts, FitCandidates(a)
  PROVE  AttInv' /\ Moves(a)
  <1>1. /\ att[a].pc = "fit" /\ attempts' = attempts
    BY DEF FitCandidates
  <1> DEFINE Fitted(kind, scores) == {i \in Candidates(kind) : scores[i] # Failed}
             Outcome(kind, scores, ensemble) ==
               att' = [att EXCEPT ![a] =
                 IF Fitted(kind, scores) = {} THEN Dead(@)
                 ELSE [@ EXCEPT !.pc = "write", !.scores = scores, !.ensemble = ensemble,
                                !.models = Chosen(kind, Fitted(kind, scores), scores, ensemble)]]
  <1>0. \E kind \in ModelKinds : \E scores \in ScoresOf(kind), ensemble \in Scores \union {Failed} :
          /\ ensemble = Failed => \A i, j \in Fitted(kind, scores) : scores[i] = scores[j]
          /\ Outcome(kind, scores, ensemble)
    BY DEF FitCandidates
  <1> HIDE DEF Outcome, Fitted
  <1>7. PICK kind \in ModelKinds :
          \E scores \in ScoresOf(kind), ensemble \in Scores \union {Failed} : Outcome(kind, scores, ensemble)
    BY ONLY <1>0
  <1>2. PICK scores \in ScoresOf(kind), ensemble \in Scores \union {Failed} : Outcome(kind, scores, ensemble)
    BY ONLY <1>7
  <1> DEFINE fitted == {i \in Candidates(kind) : scores[i] # Failed}
             M == Chosen(kind, fitted, scores, ensemble)
             t == att[a]
             u == [t EXCEPT !.pc = "write", !.scores = scores, !.ensemble = ensemble, !.models = M]
  <1>3. t \in AttType /\ AttSound(t)
    BY DEF AttInv
  <1>4. Running(a) /\ candidates' = candidates
    BY <1>1 DEF Running, FitCandidates
  <1>5. CASE fitted = {}
    <2>1. att' = [att EXCEPT ![a] = Dead(t)]
      BY <1>2, <1>5 DEF Outcome, Fitted
    <2>2. /\ Dead(t) \in AttType /\ AttSound(Dead(t)) /\ Dead(t).dir = att[a].dir
          /\ Dead(t).pc # "done"
      BY <1>3, DeadSound
    <2> HIDE DEF t, fitted
    <2> QED BY <1>1, <1>4, <2>1, <2>2, AttMoves
  <1>6. CASE fitted # {}
    <2>1. att' = [att EXCEPT ![a] = u]
      BY <1>2, <1>6 DEF Outcome, Fitted
    <2>2. ChoiceSound(M, fitted, scores, ensemble)
      <3>1. fitted = {i \in Candidates(kind) : scores[i] # Failed}
        OBVIOUS
      <3>2. M = Chosen(kind, fitted, scores, ensemble)
        OBVIOUS
      <3>3. scores \in ScoresOf(kind) /\ ensemble \in Scores \union {Failed}
        OBVIOUS
      <3>4. fitted # {}
        BY <1>6
      <3> HIDE DEF M, fitted
      <3> QED BY ONLY <3>1, <3>2, <3>3, <3>4, ChosenIsSound
    <2>3. DOMAIN scores = Candidates(kind) /\ scores \in ScoreType
      <3>1. scores \in [Candidates(kind) -> Scores \union {Failed}] /\ Candidates(kind) \in SUBSET Fits
        BY DEF ScoresOf, Candidates
      <3> QED BY <3>1 DEF ScoreType
    <2>4. fitted = {i \in DOMAIN scores : scores[i] # Failed}
      BY <2>3
    <2> HIDE DEF M, fitted, t
    <2>5. u \in AttType
      BY <1>3, <2>2, <2>3 DEF AttType, ChoiceSound
    <2>6. /\ u.pc = "write" /\ u.scores = scores /\ u.ensemble = ensemble /\ u.models = M
          /\ u.best = t.best /\ u.dir = t.dir
      BY <1>3 DEF AttType
    <2> HIDE DEF u
    <2>7. ChosenSound(u)
      BY ONLY <2>2, <2>4, <2>6 DEF ChosenSound, ChoiceSound
    <2>8. t.best = 0
      BY <1>1, <1>3 DEF AttSound, t
    <2>9. AttSound(u)
      BY <2>2, <2>6, <2>7, <2>8 DEF AttSound
    <2>10. u.pc # "done" /\ u.dir = att[a].dir
      BY <2>6 DEF t
    <2> QED BY <1>1, <1>4, <2>1, <2>5, <2>9, <2>10, AttMoves
  <1> QED BY <1>5, <1>6

LEMMA TrainEpochSound ==
  ASSUME AttInv, NEW a \in Attempts, TrainEpoch(a)
  PROVE  AttInv' /\ Moves(a)
  <1>1. att[a].pc = "epochs" /\ attempts' = attempts
    BY DEF TrainEpoch
  <1>2. PICK s \in Scores :
          LET t == Aliased(Epoch(att[a], s)) IN
          att' = [att EXCEPT ![a] =
            IF t.since >= Patience \/ Len(t.scores) = Epochs THEN [t EXCEPT !.pc = "write"] ELSE t]
    BY DEF TrainEpoch
  <1> DEFINE u == Aliased(Epoch(att[a], s))
             n == Len(u.scores)
             stops == u.since >= Patience \/ n = Epochs
             v == IF stops THEN [u EXCEPT !.pc = "write"] ELSE u
  <1>3. att' = [att EXCEPT ![a] = v]
    BY <1>2
  <1>4. /\ att[a] \in AttType /\ att[a].models = {}
        /\ EpochsSound(att[a]) /\ Len(att[a].scores) < Epochs /\ att[a].since < Patience
    BY <1>1 DEF AttInv, AttSound
  <1>5. /\ u \in AttType /\ EpochsSound(u) /\ n = Len(att[a].scores) + 1
        /\ u.pc = "epochs" /\ u.models = {} /\ u.since <= att[a].since + 1 /\ u.dir = att[a].dir
    BY <1>1, <1>4, EpochSound
  <1> HIDE DEF u
  <1>6. /\ n \in Nat /\ u.best \in Nat /\ u.since \in Nat /\ u.since = n - u.best
        /\ n <= Epochs /\ u.since <= Patience
    <2>1. u.best \in Nat /\ u.since \in Nat /\ att[a].since \in Nat
      BY <1>4, <1>5 DEF AttType
    <2>2. u.scores \in Seq(Scores) /\ att[a].scores \in Seq(Scores) /\ u.since = n - u.best
      BY <1>4, <1>5 DEF EpochsSound
    <2>3. n \in Nat /\ Len(att[a].scores) \in Nat
      BY <2>2
    <2>4. Epochs \in Nat /\ Patience \in Nat
      BY EpochsAssumption
    <2> HIDE DEF n
    <2> QED BY ONLY <1>4, <1>5, <2>1, <2>2, <2>3, <2>4
  <1>7. v \in AttType /\ AttSound(v) /\ v.dir = att[a].dir /\ v.pc # "done"
    <2>1. CASE stops
      <3>1. v = [u EXCEPT !.pc = "write"]
        BY <2>1
      <3>2. /\ v \in AttType /\ v.pc = "write" /\ v.models = u.models /\ v.scores = u.scores
            /\ v.best = u.best /\ v.kept = u.kept /\ v.device = u.device /\ v.dir = u.dir
        BY <1>5, <3>1 DEF AttType
      <3>3. n = Epochs \/ n = u.best + Patience
        <4>1. Epochs \in Nat /\ Patience \in Nat
          BY EpochsAssumption
        <4> HIDE DEF n
        <4> QED BY <1>6, <2>1, <4>1
      <3>4. n <= u.best + Patience
        <4>1. Patience \in Nat
          BY EpochsAssumption
        <4> HIDE DEF n
        <4> QED BY ONLY <1>6, <4>1
      <3>5. StopSound(u)
        BY ONLY <1>5, <3>3, <3>4 DEF EpochsSound, StopSound, n
      <3>6. StopSound(v)
        BY ONLY <3>2, <3>5 DEF StopSound
      <3> HIDE DEF v
      <3> QED BY <1>5, <3>2, <3>6 DEF AttSound
    <2>2. CASE ~stops
      <3>1. v = u
        BY <2>2
      <3>2. n < Epochs /\ u.since < Patience
        <4>1. Epochs \in Nat /\ Patience \in Nat
          BY EpochsAssumption
        <4> HIDE DEF n
        <4> QED BY <1>6, <2>2, <4>1
      <3> HIDE DEF v
      <3> QED BY <1>5, <3>1, <3>2 DEF AttSound, n
    <2> QED BY <2>1, <2>2
  <1>8. Running(a) /\ candidates' = candidates
    BY <1>1 DEF Running, TrainEpoch
  <1> HIDE DEF v
  <1> QED BY <1>1, <1>3, <1>7, <1>8, AttMoves

\* An attempt whose scores are in metrics.json.
LEMMA ScoredSound ==
  ASSUME NEW t \in AttType, t.pc = "write"
  PROVE  Scored(t) \in AttType /\ AttSound(Scored(t)) /\ Scored(t).pc = "write"
         /\ Scored(t).written = t.written /\ Scored(t).dir = t.dir
  <1> DEFINE u == Scored(t)
  <1>1. u = [NoAttempt EXCEPT !.pc = t.pc, !.dir = t.dir, !.models = t.models, !.written = t.written]
    BY DEF Scored
  <1>2. u \in AttType
    <2>1. NoAttempt \in AttType
      BY NoAttemptType
    <2> HIDE DEF u
    <2> QED BY <1>1, <2>1 DEF AttType
  <1>3. u.pc = "write" /\ u.written = t.written /\ u.scores = <<>> /\ u.dir = t.dir
    BY <1>1 DEF NoAttempt
  <1> HIDE DEF u
  <1>4. AttSound(u)
    BY <1>3 DEF AttSound
  <1> QED BY <1>2, <1>3, <1>4 DEF u

LEMMA WriteFileSound ==
  ASSUME AttInv, NEW a \in Attempts, WriteFile(a)
  PROVE  AttInv' /\ Moves(a)
  <1> DEFINE t == IF NextFile(a) = "metrics" THEN Scored(att[a]) ELSE att[a]
             pc == IF t.written + 1 = Len(Plan(a)) THEN "log" ELSE "write"
             u == [t EXCEPT !.pc = pc, !.written = t.written + 1]
  <1>1. att[a].pc = "write" /\ attempts' = attempts
    BY DEF WriteFile
  <1>2. att[a] \in AttType /\ AttSound(att[a])
    BY DEF AttInv
  <1>3. t \in AttType /\ AttSound(t) /\ t.pc = "write" /\ t.dir = att[a].dir
    BY <1>1, <1>2, ScoredSound
  <1>4. att' = [att EXCEPT ![a] = u]
    <2>1. att' = [att EXCEPT ![a] =
            [t EXCEPT !.written = @ + 1, !.pc = IF t.written + 1 = Len(Plan(a)) THEN "log" ELSE @]]
      BY DEF WriteFile
    <2> HIDE DEF t
    <2>2. [t EXCEPT !.written = @ + 1, !.pc = IF t.written + 1 = Len(Plan(a)) THEN "log" ELSE @] = u
      BY <1>3 DEF AttType
    <2> QED BY ONLY <2>1, <2>2
  <1> HIDE DEF t
  <1>5. u \in AttType /\ AttSound(u) /\ u.dir = att[a].dir /\ u.pc # "done"
    <2>1. t.written + 1 \in Nat
      <3>1. t.written \in Nat
        BY <1>3 DEF AttType
      <3> QED BY ONLY <3>1
    <2>2. pc \in {"write", "log", "register", "done"} /\ pc # "done"
      OBVIOUS
    <2> HIDE DEF pc
    <2>3. u \in AttType /\ AttSound(u)
      BY <1>3, <2>1, <2>2, MovedSound
    <2>4. u.dir = t.dir /\ u.pc = pc
      BY <1>3 DEF AttType
    <2> QED BY <1>3, <2>2, <2>3, <2>4
  <1>6. Running(a) /\ candidates' = candidates
    BY <1>1 DEF Running, WriteFile
  <1> HIDE DEF u
  <1> QED BY <1>1, <1>4, <1>5, <1>6, AttMoves

\* LogRun and Register: the next step of an attempt.
LEMMA StepSound ==
  ASSUME AttInv, NEW a \in Attempts, att[a].pc \in {"log", "register"}, NEW pc \in {"register", "done"},
         att' = [att EXCEPT ![a].pc = pc], attempts' = attempts,
         pc # "done" => candidates' = candidates,
         pc = "done" => candidates' = [candidates EXCEPT ![att[a].dir] = a]
  PROVE  AttInv' /\ Moves(a)
  <1> DEFINE u == [att[a] EXCEPT !.pc = pc, !.written = att[a].written]
  <1>1. att[a] \in AttType /\ AttSound(att[a])
    BY DEF AttInv
  <1>2. u = [att[a] EXCEPT !.pc = pc]
    BY <1>1 DEF AttType
  <1>3. att' = [att EXCEPT ![a] = u]
    <2>1. att' = [att EXCEPT ![a] = [att[a] EXCEPT !.pc = pc]]
      OBVIOUS
    <2> QED BY ONLY <1>2, <2>1
  <1>4. u \in AttType /\ AttSound(u) /\ u.dir = att[a].dir /\ u.pc = pc
    <2>1. att[a].written \in Nat
      BY <1>1 DEF AttType
    <2>2. u \in AttType /\ AttSound(u)
      BY <1>1, <2>1, MovedSound
    <2>3. u.dir = att[a].dir /\ u.pc = pc
      BY <1>1 DEF AttType
    <2> QED BY <2>2, <2>3
  <1>5. Running(a)
    BY DEF Running
  <1> HIDE DEF u
  <1> QED BY <1>3, <1>4, <1>5, AttMoves

LEMMA DieSound ==
  ASSUME AttInv, NEW a \in Attempts, Die(a)
  PROVE  AttInv' /\ Moves(a)
  <1>1. /\ Running(a) /\ att' = [att EXCEPT ![a] = Dead(att[a])]
        /\ attempts' = attempts /\ candidates' = candidates
    BY DEF Die
  <1>2. /\ Dead(att[a]) \in AttType /\ AttSound(Dead(att[a]))
        /\ Dead(att[a]).dir = att[a].dir /\ Dead(att[a]).pc # "done"
    BY DeadSound DEF AttInv
  <1> QED BY <1>1, <1>2, AttMoves

\* StartAnomaly and StartRca.
LEMMA StartSound ==
  ASSUME AttInv, NEW d \in Dirs, StartAnomaly(d) \/ StartRca(d)
  PROVE  /\ AttInv' /\ attempts + 1 \in Attempts /\ attempts' = attempts + 1
         /\ \E device \in {"", "cpu", "cuda"} :
              att' = [att EXCEPT ![attempts + 1] = Started(d, device)]
         /\ UNCHANGED <<content, candidates>>
  <1>1. attempts < MaxAttempts /\ attempts' = attempts + 1 /\ UNCHANGED <<content, candidates>>
    BY DEF StartAnomaly, StartRca
  <1>3. /\ attempts + 1 \in Attempts /\ attempts + 1 \in 0 .. MaxAttempts
        /\ attempts <= attempts + 1 /\ attempts + 1 <= attempts + 1
    <2>1. MaxAttempts \in Nat
      BY AttemptsAssumption
    <2>2. attempts \in 0 .. MaxAttempts
      BY DEF AttInv
    <2>3. attempts < MaxAttempts
      BY <1>1
    <2>4. attempts + 1 \in 1 .. MaxAttempts
      BY ONLY <2>1, <2>2, <2>3
    <2>5. attempts + 1 \in 0 .. MaxAttempts
      BY ONLY <2>1, <2>2, <2>3
    <2>6. attempts <= attempts + 1 /\ attempts + 1 <= attempts + 1
      BY ONLY <2>1, <2>2
    <2> QED BY ONLY <2>4, <2>5, <2>6 DEF Attempts
  <1>2. PICK device \in {"", "cpu", "cuda"} : att' = [att EXCEPT ![attempts + 1] = Started(d, device)]
    BY EpochsAssumption DEF StartAnomaly, StartRca
  <1>4. AttInv'
    <2> DEFINE u == Started(d, device)
               b == attempts + 1
    <2>1. u \in AttType /\ AttSound(u)
      BY StartedSound
    <2>2. b \in Attempts /\ attempts' \in 0 .. MaxAttempts /\ attempts <= attempts' /\ b <= attempts'
      BY <1>1, <1>3
    <2>3. att' = [att EXCEPT ![b] = u]
      BY <1>2
    <2> HIDE DEF u, b
    <2> QED BY <2>1, <2>2, <2>3, AttUpdated
  <1> QED BY <1>1, <1>2, <1>3, <1>4

LEMMA TrainStepSound ==
  ASSUME AttInv, NEW a \in Attempts, TrainStep(a) \/ Die(a)
  PROVE  AttInv' /\ Moves(a)
  <1>1. CASE FitCandidates(a)
    BY <1>1, FitCandidatesSound
  <1>2. CASE TrainEpoch(a)
    BY <1>2, TrainEpochSound
  <1>3. CASE WriteFile(a)
    BY <1>3, WriteFileSound
  <1>4. CASE LogRun(a)
    <2>1. /\ att[a].pc \in {"log", "register"} /\ att' = [att EXCEPT ![a].pc = "register"]
          /\ attempts' = attempts /\ candidates' = candidates
      BY <1>4 DEF LogRun
    <2> QED BY <2>1, StepSound
  <1>5. CASE Register(a)
    <2>1. /\ att[a].pc \in {"log", "register"} /\ att' = [att EXCEPT ![a].pc = "done"]
          /\ attempts' = attempts /\ candidates' = [candidates EXCEPT ![att[a].dir] = a]
      BY <1>5 DEF Register
    <2> QED BY <2>1, StepSound
  <1>6. CASE Die(a)
    BY <1>6, DieSound
  <1> QED BY <1>1, <1>2, <1>3, <1>4, <1>5, <1>6 DEF TrainStep

-----------------------------------------------------------------------------
(* The runs. *)

FlowFields == {"pc", "of", "anomaly", "rca"}

\* The trainings of a run are its own, in its directories, and no other attempt runs:
\* so nobody else registers a directory of the run.
FlowInv ==
  /\ DOMAIN flow = Flows /\ DOMAIN candidates = Dirs
  /\ \A w \in Flows : DOMAIN flow[w] = FlowFields
  /\ \A w \in Flows, t \in Tasks : flow[w][t] \in 0 .. attempts
  /\ \A w \in Flows, t \in Tasks : flow[w][t] # 0 => att[flow[w][t]].dir = FlowDir[w][t]
  /\ \A a \in Attempts : Running(a) => \E w \in Flows, t \in Tasks : flow[w][t] = a
  /\ \A w \in Flows, t \in Tasks :
       flow[w][t] # 0 /\ att[flow[w][t]].pc = "done" => candidates[FlowDir[w][t]] = flow[w][t]
  /\ \A w \in Flows, t \in Tasks : flow[w].pc \in {"none", "export"} => flow[w][t] = 0
  /\ \A w \in Flows : flow[w].pc = "bundled" => Trained(w)
  /\ \A w \in Flows, t \in Tasks : flow[w].pc = "failed" /\ flow[w].of = "dag" =>
       flow[w][t] = 0 \/ ~Running(flow[w][t])

\* The steps of an attempt.
LEMMA MoveKeepsFlow ==
  ASSUME AttInv, FlowInv, NEW a \in Attempts, Moves(a), flow' = flow
  PROVE  FlowInv'
  <1>1. PICK u \in AttType :
          /\ att' = [att EXCEPT ![a] = u] /\ u.dir = att[a].dir
          /\ candidates' = IF u.pc = "done" THEN [candidates EXCEPT ![u.dir] = a] ELSE candidates
    BY DEF Moves
  <1>2. Running(a) /\ attempts' = attempts
    BY DEF Moves
  <1>3. \A b \in Attempts : att'[b] = IF b = a THEN u ELSE att[b]
    BY <1>1 DEF AttInv
  <1>4. \A w \in Flows, t \in Tasks : flow[w][t] # 0 => flow[w][t] \in Attempts
    <2> SUFFICES ASSUME NEW w \in Flows, NEW t \in Tasks, flow[w][t] # 0
                 PROVE  flow[w][t] \in Attempts
      OBVIOUS
    <2>1. flow[w][t] \in 0 .. attempts /\ attempts \in 0 .. MaxAttempts
      BY DEF FlowInv, AttInv
    <2>2. MaxAttempts \in Nat
      BY AttemptsAssumption
    <2> QED BY <2>1, <2>2 DEF Attempts
  <1>5. \A b \in Attempts : Running(b)' => Running(b)
    BY <1>2, <1>3 DEF Running
  <1>6. DOMAIN candidates' = Dirs
    BY <1>1 DEF FlowInv
  <1>7. ASSUME NEW w \in Flows, NEW t \in Tasks, flow[w][t] # 0
        PROVE  att'[flow[w][t]].dir = FlowDir[w][t]
    BY <1>1, <1>3, <1>4, <1>7 DEF FlowInv
  <1>8. ASSUME NEW w \in Flows, NEW t \in Tasks, flow[w][t] # 0, att'[flow[w][t]].pc = "done"
        PROVE  candidates'[FlowDir[w][t]] = flow[w][t]
    <2> DEFINE c == flow[w][t]
               d == FlowDir[w][t]
    <2>1. c \in Attempts /\ d \in Dirs
      BY <1>4, <1>8, FlowsAssumption
    <2>2. CASE c = a
      <3>1. u.pc = "done" /\ u.dir = d
        BY <1>1, <1>3, <1>7, <1>8, <2>1, <2>2
      <3> QED BY <1>1, <2>1, <2>2, <3>1 DEF FlowInv
    <2>3. CASE c # a
      <3>1. candidates[d] = c
        BY <1>3, <1>8, <2>1, <2>3 DEF FlowInv
      <3>2. u.dir # d
        <4>1. PICK v \in Flows, q \in Tasks : flow[v][q] = a
          BY <1>2 DEF FlowInv
        <4>2. a # 0
          BY DEF Attempts
        <4>3. u.dir = FlowDir[v][q]
          BY <1>1, <4>1, <4>2 DEF FlowInv
        <4>4. FlowDir[v][q] = FlowDir[w][t] => v = w /\ q = t
          BY FlowsAssumption
        <4> QED BY <2>3, <4>1, <4>3, <4>4
      <3> QED BY <1>1, <2>1, <3>1, <3>2
    <2> QED BY <2>2, <2>3
  <1>9. ASSUME NEW w \in Flows, flow[w].pc = "bundled"
        PROVE  Trained(w)'
    <2>1. Trained(w)
      BY <1>9 DEF FlowInv
    <2>2. ASSUME NEW t \in Tasks
          PROVE  flow[w][t] # 0 /\ att'[flow[w][t]].pc = "done"
      <3>1. flow[w][t] # 0 /\ att[flow[w][t]].pc = "done"
        BY <2>1 DEF Trained
      <3>2. flow[w][t] # a
        BY <1>2, <3>1 DEF Running
      <3> QED BY <1>3, <1>4, <3>1, <3>2
    <2> QED BY <2>2 DEF Trained
  <1>10. ASSUME NEW w \in Flows, NEW t \in Tasks, flow[w].pc = "failed", flow[w].of = "dag"
         PROVE  flow[w][t] = 0 \/ ~Running(flow[w][t])'
    BY <1>4, <1>5, <1>10 DEF FlowInv
  <1>11. \A b \in Attempts : Running(b)' => \E w \in Flows, t \in Tasks : flow[w][t] = b
    BY <1>5 DEF FlowInv
  <1>12. /\ DOMAIN flow = Flows
         /\ \A w \in Flows : DOMAIN flow[w] = FlowFields
         /\ \A w \in Flows, t \in Tasks : flow[w][t] \in 0 .. attempts
         /\ \A w \in Flows, t \in Tasks : flow[w].pc \in {"none", "export"} => flow[w][t] = 0
    BY DEF FlowInv
  <1> QED BY <1>2, <1>6, <1>7, <1>8, <1>9, <1>10, <1>11, <1>12 DEF FlowInv

\* A run takes a step while the attempts stay as they are: it keeps its trainings, or
\* lets go of those that do not run.
LEMMA RunKeepsFlow ==
  ASSUME AttInv, FlowInv, NEW w \in Flows, NEW r, flow' = [flow EXCEPT ![w] = r],
         UNCHANGED <<attempts, att, candidates>>, DOMAIN r = FlowFields,
         \A t \in Tasks : r[t] = flow[w][t] \/ (r[t] = 0 /\ ~Running(flow[w][t])),
         r.pc \in {"none", "export"} => \A t \in Tasks : r[t] = 0,
         r.pc = "bundled" => \A t \in Tasks : r[t] # 0 /\ att[r[t]].pc = "done",
         r.pc = "failed" /\ r.of = "dag" => \A t \in Tasks : r[t] = 0 \/ ~Running(r[t])
  PROVE  FlowInv'
  <1>1. /\ DOMAIN flow' = Flows /\ DOMAIN candidates' = Dirs
        /\ \A v \in Flows : flow'[v] = IF v = w THEN r ELSE flow[v]
    BY DEF FlowInv
  <1>2. \A v \in Flows : DOMAIN flow'[v] = FlowFields
    BY <1>1 DEF FlowInv
  <1>3. \A v \in Flows, t \in Tasks : flow'[v][t] = flow[v][t] \/ flow'[v][t] = 0
    BY <1>1
  <1>4. \A v \in Flows, t \in Tasks : flow'[v][t] \in 0 .. attempts'
    <2>1. 0 \in 0 .. attempts
      BY AttemptsAssumption DEF AttInv
    <2> QED BY <1>3, <2>1 DEF FlowInv
  <1>5. \A v \in Flows, t \in Tasks : flow'[v][t] # 0 => att'[flow'[v][t]].dir = FlowDir[v][t]
    BY <1>3 DEF FlowInv
  <1>6. ASSUME NEW a \in Attempts, Running(a)'
        PROVE  \E v \in Flows, t \in Tasks : flow'[v][t] = a
    <2>1. Running(a)
      BY <1>6 DEF Running
    <2>2. PICK v \in Flows, t \in Tasks : flow[v][t] = a
      BY <2>1 DEF FlowInv
    <2>3. flow'[v][t] = a
      BY <1>1, <2>1, <2>2
    <2> QED BY <2>3
  <1>7. \A v \in Flows, t \in Tasks :
          flow'[v][t] # 0 /\ att'[flow'[v][t]].pc = "done" => candidates'[FlowDir[v][t]] = flow'[v][t]
    BY <1>3 DEF FlowInv
  <1>8. ASSUME NEW v \in Flows, flow'[v].pc = "bundled"
        PROVE  Trained(v)'
    BY <1>1, <1>8 DEF FlowInv, Trained
  <1>9. ASSUME NEW v \in Flows, NEW t \in Tasks, flow'[v].pc = "failed", flow'[v].of = "dag"
        PROVE  (flow[v][t] = 0 \/ ~Running(flow[v][t]))'
    <2>1. flow'[v][t] = 0 \/ ~Running(flow'[v][t])
      BY <1>1, <1>9 DEF FlowInv
    <2>2. att' = att
      OBVIOUS
    <2> QED BY ONLY <2>1, <2>2 DEF Running
  <1>10. ASSUME NEW v \in Flows, NEW t \in Tasks, flow'[v].pc \in {"none", "export"}
         PROVE  flow'[v][t] = 0
    BY <1>1, <1>10 DEF FlowInv
  <1> QED BY <1>1, <1>2, <1>4, <1>5, <1>6, <1>7, <1>8, <1>9, <1>10 DEF FlowInv

LEMMA StartTrainingSound ==
  ASSUME AttInv, FlowInv, NEW w \in Flows, NEW t \in Tasks, StartTraining(w, t)
  PROVE  AttInv' /\ FlowInv'
  <1> DEFINE d == FlowDir[w][t]
             b == attempts + 1
  <1>1. d \in Dirs
    BY FlowsAssumption
  <1>2. /\ flow[w].pc = "train" /\ flow[w][t] = 0
        /\ StartAnomaly(d) \/ StartRca(d)
        /\ flow' = [flow EXCEPT ![w][t] = b]
    BY DEF StartTraining
  <1>3. /\ AttInv' /\ b \in Attempts /\ attempts' = b
        /\ \E device \in {"", "cpu", "cuda"} : att' = [att EXCEPT ![b] = Started(d, device)]
        /\ UNCHANGED <<content, candidates>>
    BY <1>1, <1>2, StartSound
  <1>4. /\ \A a \in Attempts \ {b} : att'[a] = att[a]
        /\ att'[b].dir = d /\ att'[b].pc \in {"fit", "epochs"}
    <2>1. PICK device \in {"", "cpu", "cuda"} : att' = [att EXCEPT ![b] = Started(d, device)]
      BY <1>3
    <2> HIDE DEF b, d
    <2>2. Started(d, device).dir = d /\ Started(d, device).pc \in {"fit", "epochs"}
      BY <1>1, StartedSound
    <2> QED BY <1>3, <2>1, <2>2 DEF AttInv
  <1>5. \A v \in Flows, q \in Tasks : flow[v][q] # 0 => flow[v][q] \in Attempts /\ flow[v][q] # b
    <2> SUFFICES ASSUME NEW v \in Flows, NEW q \in Tasks, flow[v][q] # 0
                 PROVE  flow[v][q] \in Attempts /\ flow[v][q] # b
      OBVIOUS
    <2>1. flow[v][q] \in 0 .. attempts /\ attempts \in 0 .. MaxAttempts
      BY DEF FlowInv, AttInv
    <2>2. MaxAttempts \in Nat
      BY AttemptsAssumption
    <2> QED BY <2>1, <2>2 DEF Attempts
  <1> HIDE DEF b, d
  <1>6. b # 0
    <2>1. 0 \notin Attempts
      BY DEF Attempts
    <2> QED BY ONLY <1>3, <2>1
  <1>7. /\ DOMAIN flow' = Flows /\ \A v \in Flows : DOMAIN flow'[v] = FlowFields
        /\ \A v \in Flows : flow'[v].pc = flow[v].pc /\ flow'[v].of = flow[v].of
        /\ \A v \in Flows, q \in Tasks : flow'[v][q] = IF v = w /\ q = t THEN b ELSE flow[v][q]
    <2>1. t \in FlowFields /\ t # "pc" /\ t # "of"
      BY DEF Tasks, FlowFields
    <2> QED BY <1>2, <2>1 DEF FlowInv, Tasks, FlowFields
  <1>8. \A v \in Flows, q \in Tasks : flow'[v][q] \in 0 .. attempts'
    <2> SUFFICES ASSUME NEW v \in Flows, NEW q \in Tasks
                 PROVE  flow'[v][q] \in 0 .. b
      BY <1>3
    <2>1. attempts \in 0 .. MaxAttempts /\ MaxAttempts \in Nat /\ flow[v][q] \in 0 .. attempts
      BY AttemptsAssumption DEF FlowInv, AttInv
    <2>2. b \in 0 .. b /\ flow[v][q] \in 0 .. b
      BY <2>1 DEF b
    <2> QED BY <1>7, <2>2
  <1>9. \A v \in Flows, q \in Tasks : flow'[v][q] # 0 => att'[flow'[v][q]].dir = FlowDir[v][q]
    BY <1>4, <1>5, <1>7 DEF FlowInv, d
  <1>10. ASSUME NEW a \in Attempts, Running(a)'
         PROVE  \E v \in Flows, q \in Tasks : flow'[v][q] = a
    <2>1. CASE a = b
      BY <1>7, <2>1
    <2>2. CASE a # b
      <3>1. Running(a)
        BY <1>4, <1>10, <2>2 DEF Running
      <3>2. PICK v \in Flows, q \in Tasks : flow[v][q] = a
        BY <3>1 DEF FlowInv
      <3>3. a # 0
        BY DEF Attempts
      <3>4. flow'[v][q] = a
        BY <1>2, <1>7, <3>2, <3>3
      <3> QED BY <3>4
    <2> QED BY <2>1, <2>2
  <1>11. ASSUME NEW v \in Flows, NEW q \in Tasks, flow'[v][q] # 0, att'[flow'[v][q]].pc = "done"
         PROVE  candidates'[FlowDir[v][q]] = flow'[v][q]
    <2>1. flow'[v][q] # b
      BY <1>4, <1>11
    <2>2. flow'[v][q] = flow[v][q] /\ att[flow[v][q]].pc = "done"
      BY <1>4, <1>5, <1>7, <1>11, <2>1
    <2>3. flow[v][q] # 0
      BY <1>11, <2>2
    <2>4. candidates[FlowDir[v][q]] = flow[v][q]
      BY <2>2, <2>3 DEF FlowInv
    <2>5. candidates' = candidates
      BY <1>3
    <2> QED BY ONLY <2>2, <2>4, <2>5
  <1>12. ASSUME NEW v \in Flows, flow'[v].pc = "bundled"
         PROVE  Trained(v)'
    <2>1. Trained(v) /\ v # w
      BY <1>2, <1>7, <1>12 DEF FlowInv
    <2> QED BY <1>4, <1>5, <1>7, <2>1 DEF Trained
  <1>13. ASSUME NEW v \in Flows, NEW q \in Tasks, flow'[v].pc = "failed", flow'[v].of = "dag"
         PROVE  (flow[v][q] = 0 \/ ~Running(flow[v][q]))'
    <2>1. v # w /\ flow[v].pc = "failed" /\ flow[v].of = "dag"
      BY <1>2, <1>7, <1>13
    <2>2. flow[v][q] = 0 \/ ~Running(flow[v][q])
      BY <2>1 DEF FlowInv
    <2>3. flow'[v][q] = flow[v][q]
      BY <1>7, <2>1
    <2> QED BY <1>4, <1>5, <2>2, <2>3 DEF Running
  <1>14. DOMAIN candidates' = Dirs
    BY <1>3 DEF FlowInv
  <1>15. ASSUME NEW v \in Flows, NEW q \in Tasks, flow'[v].pc \in {"none", "export"}
         PROVE  flow'[v][q] = 0
    BY <1>2, <1>7, <1>15 DEF FlowInv
  <1>16. FlowInv'
    BY ONLY <1>7, <1>8, <1>9, <1>10, <1>11, <1>12, <1>13, <1>14, <1>15 DEF FlowInv
  <1> QED BY <1>3, <1>16

\* One field of a run.
LEMMA FieldSet ==
  ASSUME NEW f, DOMAIN f = FlowFields, NEW k \in FlowFields, NEW x, NEW r, r = [f EXCEPT ![k] = x]
  PROVE  DOMAIN r = FlowFields /\ r[k] = x /\ \A j \in FlowFields : j # k => r[j] = f[j]
  OBVIOUS

LEMMA TaskFields == \A t \in Tasks : t \in FlowFields /\ t # "pc" /\ t # "of"
  BY DEF Tasks, FlowFields

\* StartFlow, ExportFeedback, FlowFails and BuildBundle: the run is elsewhere.
LEMMA FlowStepSound ==
  ASSUME FlowInv, NEW w \in Flows,
         StartFlow(w) \/ ExportFeedback(w) \/ FlowFails(w) \/ BuildBundle(w)
  PROVE  /\ UNCHANGED <<attempts, att, content, candidates>>
         /\ \E r : /\ flow' = [flow EXCEPT ![w] = r] /\ DOMAIN r = FlowFields
                   /\ \A t \in Tasks : r[t] = flow[w][t]
                   /\ r.pc \in {"none", "export"} => \A t \in Tasks : flow[w][t] = 0
                   /\ r.pc = "bundled" => Trained(w)
                   /\ r.pc = "failed" /\ r.of = "dag" =>
                        \A t \in Tasks : flow[w][t] = 0 \/ ~Running(flow[w][t])
  <1> DEFINE f == flow[w]
  <1>0. DOMAIN f = FlowFields /\ "pc" \in FlowFields /\ "of" \in FlowFields
    BY DEF FlowInv, FlowFields
  <1>1. UNCHANGED <<attempts, att, content, candidates>>
    BY DEF StartFlow, ExportFeedback, FlowFails, BuildBundle, trainVars
  <1>2. CASE StartFlow(w)
    <2>1. PICK k \in FlowKinds : flow' = [flow EXCEPT ![w].pc = "export", ![w].of = k]
      BY <1>2 DEF StartFlow
    <2> DEFINE g == [f EXCEPT !["pc"] = "export"]
               r == [g EXCEPT !["of"] = k]
    <2>2. flow' = [flow EXCEPT ![w] = r]
      BY <2>1 DEF FlowInv
    <2>3. DOMAIN g = FlowFields /\ g["pc"] = "export" /\ \A j \in FlowFields : j # "pc" => g[j] = f[j]
      BY <1>0, FieldSet
    <2> HIDE DEF g, f
    <2>4. DOMAIN r = FlowFields /\ \A j \in FlowFields : j # "of" => r[j] = g[j]
      BY <1>0, <2>3, FieldSet
    <2> HIDE DEF r
    <2>5. r.pc = "export" /\ \A t \in Tasks : r[t] = f[t]
      BY <1>0, <2>3, <2>4, TaskFields
    <2>6. \A t \in Tasks : flow[w][t] = 0
      <3>1. flow[w].pc = "none"
        BY <1>2 DEF StartFlow
      <3>2. \A t \in Tasks : flow[w].pc \in {"none", "export"} => flow[w][t] = 0
        BY DEF FlowInv
      <3> QED BY ONLY <3>1, <3>2
    <2> QED BY <1>1, <2>2, <2>4, <2>5, <2>6 DEF f
  <1>3. ASSUME NEW pc \in {"train", "failed", "bundled"}, flow' = [flow EXCEPT ![w].pc = pc],
               pc = "bundled" => Trained(w),
               pc = "failed" /\ f.of = "dag" => \A t \in Tasks : flow[w][t] = 0 \/ ~Running(flow[w][t])
        PROVE  \E r : /\ flow' = [flow EXCEPT ![w] = r] /\ DOMAIN r = FlowFields
                      /\ \A t \in Tasks : r[t] = flow[w][t]
                      /\ r.pc \in {"none", "export"} => \A t \in Tasks : flow[w][t] = 0
                      /\ r.pc = "bundled" => Trained(w)
                      /\ r.pc = "failed" /\ r.of = "dag" =>
                           \A t \in Tasks : flow[w][t] = 0 \/ ~Running(flow[w][t])
    <2> DEFINE r == [f EXCEPT !["pc"] = pc]
    <2>1. flow' = [flow EXCEPT ![w] = r]
      BY <1>3 DEF FlowInv
    <2>2. DOMAIN r = FlowFields /\ r["pc"] = pc /\ \A j \in FlowFields : j # "pc" => r[j] = f[j]
      <3> HIDE DEF f
      <3> QED BY <1>0, FieldSet
    <2> HIDE DEF r, f
    <2>3. r.pc = pc /\ r.of = f.of /\ \A t \in Tasks : r[t] = f[t]
      BY <1>0, <2>2, TaskFields
    <2> QED BY <1>3, <2>1, <2>2, <2>3 DEF f
  <1>4. CASE ExportFeedback(w)
    <2>1. PICK pc \in {"train", "failed"} : flow' = [flow EXCEPT ![w].pc = pc]
      BY <1>4 DEF ExportFeedback
    <2>2. \A t \in Tasks : flow[w][t] = 0
      BY <1>4 DEF ExportFeedback, FlowInv
    <2> HIDE DEF f
    <2> QED BY <1>1, <1>3, <2>1, <2>2
  <1>5. CASE FlowFails(w)
    <2>1. flow' = [flow EXCEPT ![w].pc = "failed"]
      BY <1>5 DEF FlowFails
    <2>2. f.of = "dag" => \A t \in Tasks : flow[w][t] = 0 \/ ~Running(flow[w][t])
      BY <1>5 DEF FlowFails
    <2> HIDE DEF f
    <2> QED BY <1>1, <1>3, <2>1, <2>2
  <1>6. CASE BuildBundle(w)
    <2>1. flow' = [flow EXCEPT ![w].pc = "bundled"] /\ Trained(w)
      BY <1>6 DEF BuildBundle
    <2> HIDE DEF f
    <2> QED BY <1>1, <1>3, <2>1
  <1> QED BY <1>2, <1>4, <1>5, <1>6

\* ClearFlow: the run lets go of trainings that do not run.
LEMMA ClearFlowSound ==
  ASSUME FlowInv, NEW w \in Flows, ClearFlow(w)
  PROVE  /\ UNCHANGED <<attempts, att, content, candidates>>
         /\ \E r : /\ flow' = [flow EXCEPT ![w] = r] /\ DOMAIN r = FlowFields
                   /\ \A t \in Tasks : r[t] = flow[w][t] \/ (r[t] = 0 /\ ~Running(flow[w][t]))
                   /\ r.pc \in {"export", "train"}
                   /\ r.pc = "export" => \A t \in Tasks : r[t] = 0
  <1> DEFINE f == flow[w]
  <1>0. DOMAIN f = FlowFields /\ "pc" \in FlowFields
    BY DEF FlowInv, FlowFields
  <1>1. /\ UNCHANGED <<attempts, att, content, candidates>>
        /\ \A t \in Tasks : f[t] = 0 \/ ~Running(f[t])
    BY DEF ClearFlow, FlowInv, trainVars
  <1>2. CASE flow' = [flow EXCEPT ![w] = [@ EXCEPT !.pc = "export", !.anomaly = 0, !.rca = 0]]
    <2> DEFINE g == [f EXCEPT !["pc"] = "export"]
               h == [g EXCEPT !["anomaly"] = 0]
               r == [h EXCEPT !["rca"] = 0]
    <2>1. flow' = [flow EXCEPT ![w] = r]
      BY <1>2 DEF FlowInv
    <2>2. "anomaly" \in FlowFields /\ "rca" \in FlowFields
      BY DEF FlowFields
    <2>3. DOMAIN g = FlowFields /\ g["pc"] = "export"
      BY <1>0, FieldSet
    <2> HIDE DEF g, f
    <2>4. DOMAIN h = FlowFields /\ h["anomaly"] = 0 /\ \A j \in FlowFields : j # "anomaly" => h[j] = g[j]
      BY <2>2, <2>3, FieldSet
    <2> HIDE DEF h
    <2>5. DOMAIN r = FlowFields /\ r["rca"] = 0 /\ \A j \in FlowFields : j # "rca" => r[j] = h[j]
      BY <2>2, <2>4, FieldSet
    <2> HIDE DEF r
    <2>6. r.pc = "export"
      BY <1>0, <2>3, <2>4, <2>5
    <2>7. \A t \in Tasks : r[t] = 0
      BY <2>2, <2>4, <2>5 DEF Tasks
    <2> QED BY <1>1, <2>1, <2>5, <2>6, <2>7 DEF f
  <1>3. CASE flow' = [flow EXCEPT ![w] =
               [t \in DOMAIN @ |-> IF t = "pc" THEN "train"
                                  ELSE IF t \in Tasks /\ Died(w, t) THEN 0
                                  ELSE @[t]]]
    <2> DEFINE r == [t \in DOMAIN f |-> IF t = "pc" THEN "train"
                                       ELSE IF t \in Tasks /\ Died(w, t) THEN 0
                                       ELSE f[t]]
    <2>1. flow' = [flow EXCEPT ![w] = r]
      BY <1>3 DEF FlowInv
    <2>2. DOMAIN r = FlowFields /\ r["pc"] = "train"
      BY <1>0
    <2>3. \A t \in Tasks : r[t] = f[t] \/ (r[t] = 0 /\ Died(w, t))
      BY <1>0, TaskFields
    <2> HIDE DEF r
    <2>4. \A t \in Tasks : r[t] = f[t] \/ (r[t] = 0 /\ ~Running(f[t]))
      BY <2>3 DEF Died, Running
    <2> QED BY <1>1, <2>1, <2>2, <2>4 DEF f
  <1> QED BY <1>2, <1>3 DEF ClearFlow

-----------------------------------------------------------------------------
(* The files of a directory. *)

\* No attempt has started in the directory of a after it.
LastIn(a) == \A b \in Attempts : att[b].dir = att[a].dir => b <= a

\* What an attempt has written so far is there, and its own.
Filed(a) == \A i \in 1 .. att[a].written : content[att[a].dir][Plan(a)[i]] = a

\* How many of its files an attempt has written.
StageSound(a) ==
  /\ att[a].pc \in {"none", "fit", "epochs", "dead"} => att[a].written = 0
  /\ att[a].pc = "write" => att[a].written < Len(Plan(a))
  /\ att[a].pc \in {"log", "register", "done"} => att[a].written = Len(Plan(a))

Bounded(t) ==
  /\ t.best <= Epochs /\ t.kept <= Epochs
  /\ t.device # "" => Len(t.scores) <= Epochs
  /\ t.pc = "fit" => t.device = ""

\* An attempt at work in a directory is the last one there, so that what the last one
\* has written stays, and what it registers last of all is what is registered.
FilesInv ==
  /\ content \in [Dirs -> [Files -> Attempts \union {NoFile, Torn}]]
  /\ candidates \in [Dirs -> 0 .. MaxAttempts]
  /\ \A a \in Attempts : att[a].pc # "none" => att[a].dir \in Dirs
  /\ \A a \in Attempts : a > attempts => att[a] = NoAttempt
  /\ \A a \in Attempts : StageSound(a) /\ Bounded(att[a])
  /\ \A a \in Attempts : Running(a) => LastIn(a)
  /\ \A a \in Attempts : att[a].pc # "none" /\ LastIn(a) => Filed(a)
  /\ \A a \in Attempts : att[a].pc = "done" /\ LastIn(a) => candidates[att[a].dir] = a

Serving == [pc : {"down", "resolved", "config", "up"}, dir : Dirs \union {""},
            config : Attempts \union {NoFile, Torn},
            rest : SUBSET (Attempts \union {NoFile, Torn}), seen : SUBSET Attempts]

\* The configuration a service has read in a settled directory is of its last attempt.
ServerSound(t) ==
  /\ server[t].pc # "down" => server[t].dir \in Dirs /\ TaskOf[server[t].dir] = t
  /\ server[t].pc = "config" /\ server[t].seen # {} =>
       server[t].config \in server[t].seen /\ \A b \in server[t].seen : b <= server[t].config
  /\ server[t].pc = "up" /\ server[t].seen # {} => server[t].rest = {server[t].config}

ServeInv ==
  /\ production \in [Tasks -> Dirs \union {""}]
  /\ \A t \in Tasks : production[t] # "" => TaskOf[production[t]] = t
  /\ server \in [Tasks -> Serving]
  /\ \A t \in Tasks : ServerSound(t)

\* What an attempt writes, by task and choice.
RcaPlan == <<"weights", "metrics", "model_config", "config", "manifest">>
OnePlan == <<"metrics", "importance", "imputer", "model", "columns", "config", "manifest">>
TwoPlan == <<"metrics", "importance", "imputer", "model_xgb", "model_lgbm", "columns",
             "config", "manifest">>

\* Two sequences in a row.
LEMMA CatIs ==
  ASSUME NEW S, NEW s \in Seq(S), NEW t \in Seq(S), NEW u \in Seq(S), Len(u) = Len(s) + Len(t),
         \A i \in 1 .. Len(s) : u[i] = s[i], \A i \in 1 .. Len(t) : u[i + Len(s)] = t[i]
  PROVE  s \o t = u
  <1>1. s \o t \in Seq(S) /\ Len(s \o t) = Len(s) + Len(t)
    BY ConcatProperties
  <1>2. Len(s) \in Nat /\ Len(t) \in Nat
    BY LenProperties
  <1>3. ASSUME NEW i \in 1 .. Len(s \o t)
        PROVE  (s \o t)[i] = u[i]
    <2>1. CASE i <= Len(s)
      BY <1>1, <1>2, <2>1, ConcatProperties
    <2>2. CASE i > Len(s)
      <3>1. i - Len(s) \in 1 .. Len(t) /\ (i - Len(s)) + Len(s) = i
        BY <1>1, <1>2, <2>2
      <3>2. (s \o t)[i] = t[i - Len(s)]
        BY <1>1, <1>2, <2>2, ConcatProperties
      <3>3. t[i - Len(s)] = u[(i - Len(s)) + Len(s)]
        BY <3>1
      <3> QED BY <3>1, <3>2, <3>3
    <2> QED BY <1>1, <1>2, <2>1, <2>2
  <1> QED BY <1>1, <1>3, SeqEqual

\* What an attempt in d that has chosen the models M writes.
PlanOf(d, M) == IF TaskOf[d] = "rca" THEN RcaPlan
                ELSE IF Cardinality(M) = 2 THEN TwoPlan ELSE OnePlan

LEMMA PlanIs ==
  ASSUME NEW a \in Attempts
  PROVE  Plan(a) = PlanOf(att[a].dir, att[a].models) /\ Plan(a)' = PlanOf(att'[a].dir, att'[a].models)
  <1> DEFINE p == <<"metrics", "importance", "imputer">>
             m1 == <<"model">>
             m2 == <<"model_xgb", "model_lgbm">>
             r == <<"columns", "config", "manifest">>
             p1 == <<"metrics", "importance", "imputer", "model">>
             p2 == <<"metrics", "importance", "imputer", "model_xgb", "model_lgbm">>
             o1 == <<"metrics", "importance", "imputer", "model", "columns", "config", "manifest">>
             o2 == <<"metrics", "importance", "imputer", "model_xgb", "model_lgbm", "columns",
                     "config", "manifest">>
  <1>1. /\ "metrics" \in Files /\ "importance" \in Files /\ "imputer" \in Files
        /\ "model" \in Files /\ "model_xgb" \in Files /\ "model_lgbm" \in Files
        /\ "columns" \in Files /\ "config" \in Files /\ "manifest" \in Files
    BY DEF Files
  <1>2. p \in Seq(Files) /\ m1 \in Seq(Files) /\ m2 \in Seq(Files) /\ r \in Seq(Files)
    BY <1>1
  <1>3. p1 \in Seq(Files) /\ p2 \in Seq(Files) /\ o1 \in Seq(Files) /\ o2 \in Seq(Files)
    BY <1>1
  <1>4. /\ Len(p) = 3 /\ Len(m1) = 1 /\ Len(m2) = 2 /\ Len(r) = 3 /\ Len(p1) = 4
        /\ Len(p2) = 5 /\ Len(o1) = 7 /\ Len(o2) = 8
    OBVIOUS
  <1>5. \A i \in 1 .. 3 : p1[i] = p[i] /\ p2[i] = p[i]
    OBVIOUS
  <1>6. (\A i \in 1 .. 1 : p1[i + 3] = m1[i]) /\ (\A i \in 1 .. 2 : p2[i + 3] = m2[i])
    OBVIOUS
  <1>7. (\A i \in 1 .. 4 : o1[i] = p1[i]) /\ (\A i \in 1 .. 5 : o2[i] = p2[i])
    OBVIOUS
  <1>8. (\A i \in 1 .. 3 : o1[i + 4] = r[i]) /\ (\A i \in 1 .. 3 : o2[i + 5] = r[i])
    OBVIOUS
  <1>0. /\ Plan(a) = IF TaskOf[att[a].dir] = "rca" THEN RcaPlan
                     ELSE p \o (IF Cardinality(att[a].models) = 2 THEN m2 ELSE m1) \o r
        /\ Plan(a)' = IF TaskOf[att'[a].dir] = "rca" THEN RcaPlan
                      ELSE p \o (IF Cardinality(att'[a].models) = 2 THEN m2 ELSE m1) \o r
    BY DEF Plan, RcaPlan
  <1> HIDE DEF p, m1, m2, r, p1, p2, o1, o2
  <1>9. p \o m1 = p1
    <2>1. /\ Len(p1) = Len(p) + Len(m1) /\ \A i \in 1 .. Len(p) : p1[i] = p[i]
          /\ \A i \in 1 .. Len(m1) : p1[i + Len(p)] = m1[i]
      BY <1>4, <1>5, <1>6
    <2>2. p \in Seq(Files) /\ m1 \in Seq(Files) /\ p1 \in Seq(Files)
      BY <1>2, <1>3
    <2> QED BY ONLY <2>1, <2>2, CatIs
  <1>10. p1 \o r = o1
    <2>1. /\ Len(o1) = Len(p1) + Len(r) /\ \A i \in 1 .. Len(p1) : o1[i] = p1[i]
          /\ \A i \in 1 .. Len(r) : o1[i + Len(p1)] = r[i]
      BY <1>4, <1>7, <1>8
    <2>2. p1 \in Seq(Files) /\ r \in Seq(Files) /\ o1 \in Seq(Files)
      BY <1>2, <1>3
    <2> QED BY ONLY <2>1, <2>2, CatIs
  <1>11. p \o m2 = p2
    <2>1. /\ Len(p2) = Len(p) + Len(m2) /\ \A i \in 1 .. Len(p) : p2[i] = p[i]
          /\ \A i \in 1 .. Len(m2) : p2[i + Len(p)] = m2[i]
      BY <1>4, <1>5, <1>6
    <2>2. p \in Seq(Files) /\ m2 \in Seq(Files) /\ p2 \in Seq(Files)
      BY <1>2, <1>3
    <2> QED BY ONLY <2>1, <2>2, CatIs
  <1>12. p2 \o r = o2
    <2>1. /\ Len(o2) = Len(p2) + Len(r) /\ \A i \in 1 .. Len(p2) : o2[i] = p2[i]
          /\ \A i \in 1 .. Len(r) : o2[i + Len(p2)] = r[i]
      BY <1>4, <1>7, <1>8
    <2>2. p2 \in Seq(Files) /\ r \in Seq(Files) /\ o2 \in Seq(Files)
      BY <1>2, <1>3
    <2> QED BY ONLY <2>1, <2>2, CatIs
  <1>13. o1 = OnePlan /\ o2 = TwoPlan
    BY DEF o1, o2, OnePlan, TwoPlan
  <1> QED BY <1>0, <1>9, <1>10, <1>11, <1>12, <1>13 DEF PlanOf

LEMMA PlanLengths ==
  /\ Len(RcaPlan) = 5 /\ \A i \in 1 .. 5 : RcaPlan[i] \in Files
  /\ Len(OnePlan) = 7 /\ \A i \in 1 .. 7 : OnePlan[i] \in Files
  /\ Len(TwoPlan) = 8 /\ \A i \in 1 .. 8 : TwoPlan[i] \in Files
  <1>1. Len(RcaPlan) = 5 /\ Len(OnePlan) = 7 /\ Len(TwoPlan) = 8
    BY DEF RcaPlan, OnePlan, TwoPlan
  <1>2. \A i \in 1 .. 5 : RcaPlan[i] \in Files
    BY DEF RcaPlan, Files
  <1>3. \A i \in 1 .. 7 : OnePlan[i] \in Files
    BY DEF OnePlan, Files
  <1>4. \A i \in 1 .. 8 : TwoPlan[i] \in Files
    BY DEF TwoPlan, Files
  <1> QED BY <1>1, <1>2, <1>3, <1>4

\* Every plan is of files, and holds the configuration, the metrics, the manifest
\* and all that the services will look for.
LEMMA PlanCovers ==
  ASSUME NEW a \in Attempts
  PROVE  /\ Len(Plan(a)) \in 1 .. 8 /\ \A i \in 1 .. Len(Plan(a)) : Plan(a)[i] \in Files
         /\ \A f \in {"config", "metrics", "manifest"} \union Named(TaskOf[att[a].dir], a) :
              \E i \in 1 .. Len(Plan(a)) : Plan(a)[i] = f
  <1>1. CASE TaskOf[att[a].dir] = "rca"
    <2>1. Plan(a) = RcaPlan
      BY <1>1, PlanIs DEF PlanOf
    <2>2. /\ RcaPlan[4] = "config" /\ RcaPlan[2] = "metrics" /\ RcaPlan[5] = "manifest"
          /\ RcaPlan[3] = "model_config" /\ RcaPlan[1] = "weights"
      BY DEF RcaPlan
    <2>3. Named(TaskOf[att[a].dir], a) = {"model_config", "weights"}
      BY <1>1 DEF Named
    <2>4. 1 \in 1 .. 5 /\ 2 \in 1 .. 5 /\ 3 \in 1 .. 5 /\ 4 \in 1 .. 5 /\ 5 \in 1 .. 5 /\ 5 \in 1 .. 8
      OBVIOUS
    <2>5. \A f \in {"config", "metrics", "manifest", "model_config", "weights"} :
            \E i \in 1 .. 5 : RcaPlan[i] = f
      BY <2>2, <2>4
    <2> QED BY <2>1, <2>3, <2>4, <2>5, PlanLengths
  <1>2. CASE TaskOf[att[a].dir] # "rca" /\ Cardinality(att[a].models) = 2
    <2>1. Plan(a) = TwoPlan
      BY <1>2, PlanIs DEF PlanOf
    <2>2. /\ TwoPlan[7] = "config" /\ TwoPlan[1] = "metrics" /\ TwoPlan[8] = "manifest"
          /\ TwoPlan[6] = "columns" /\ TwoPlan[3] = "imputer" /\ TwoPlan[4] = "model_xgb"
          /\ TwoPlan[5] = "model_lgbm"
      BY DEF TwoPlan
    <2>3. Named(TaskOf[att[a].dir], a) = {"columns", "imputer", "model_xgb", "model_lgbm"}
      BY <1>2 DEF Named
    <2>4. /\ 1 \in 1 .. 8 /\ 3 \in 1 .. 8 /\ 4 \in 1 .. 8 /\ 5 \in 1 .. 8 /\ 6 \in 1 .. 8
          /\ 7 \in 1 .. 8 /\ 8 \in 1 .. 8
      OBVIOUS
    <2>5. \A f \in {"config", "metrics", "manifest", "columns", "imputer", "model_xgb", "model_lgbm"} :
            \E i \in 1 .. 8 : TwoPlan[i] = f
      BY <2>2, <2>4
    <2> QED BY <2>1, <2>3, <2>4, <2>5, PlanLengths
  <1>3. CASE TaskOf[att[a].dir] # "rca" /\ Cardinality(att[a].models) # 2
    <2>1. Plan(a) = OnePlan
      BY <1>3, PlanIs DEF PlanOf
    <2>2. /\ OnePlan[6] = "config" /\ OnePlan[1] = "metrics" /\ OnePlan[7] = "manifest"
          /\ OnePlan[5] = "columns" /\ OnePlan[3] = "imputer" /\ OnePlan[4] = "model"
      BY DEF OnePlan
    <2>3. Named(TaskOf[att[a].dir], a) = {"columns", "imputer", "model"}
      BY <1>3 DEF Named
    <2>4. /\ 1 \in 1 .. 7 /\ 3 \in 1 .. 7 /\ 4 \in 1 .. 7 /\ 5 \in 1 .. 7 /\ 6 \in 1 .. 7
          /\ 7 \in 1 .. 7 /\ 7 \in 1 .. 8
      OBVIOUS
    <2>5. \A f \in {"config", "metrics", "manifest", "columns", "imputer", "model"} :
            \E i \in 1 .. 7 : OnePlan[i] = f
      BY <2>2, <2>4
    <2> QED BY <2>1, <2>3, <2>4, <2>5, PlanLengths
  <1> QED BY <1>1, <1>2, <1>3

LEMMA NoAttemptFields ==
  NoAttempt.pc = "none" /\ NoAttempt.dir = "" /\ NoAttempt.written = 0 /\ Bounded(NoAttempt)
  <1>1. /\ NoAttempt.pc = "none" /\ NoAttempt.dir = "" /\ NoAttempt.written = 0
        /\ NoAttempt.best = 0 /\ NoAttempt.kept = 0 /\ NoAttempt.device = ""
    BY DEF NoAttempt
  <1>2. 0 <= Epochs
    BY EpochsAssumption
  <1> QED BY <1>1, <1>2 DEF Bounded

LEMMA PlanLength ==
  ASSUME NEW d, NEW M
  PROVE  /\ Len(PlanOf(d, M)) \in 1 .. 8
         /\ \A i \in 1 .. Len(PlanOf(d, M)) : PlanOf(d, M)[i] \in Files
  <1>1. 5 \in 1 .. 8 /\ 7 \in 1 .. 8 /\ 8 \in 1 .. 8
    OBVIOUS
  <1> QED BY <1>1, PlanLengths DEF PlanOf

\* The plan depends on the directory and the models alone.
LEMMA PlanStays ==
  ASSUME NEW a \in Attempts, att'[a].dir = att[a].dir, att'[a].models = att[a].models
  PROVE  Plan(a)' = Plan(a)
  BY PlanIs

\* A step of the attempt a at work, in its directory only.
LEMMA FilesMove ==
  ASSUME AttInv, FilesInv, NEW a \in Attempts, Running(a), NEW u \in AttType,
         att' = [att EXCEPT ![a] = u], u.dir = att[a].dir, u.pc # "none", Bounded(u),
         attempts' = attempts,
         content' \in [Dirs -> [Files -> Attempts \union {NoFile, Torn}]],
         candidates' \in [Dirs -> 0 .. MaxAttempts],
         \A d \in Dirs \ {u.dir} : content'[d] = content[d] /\ candidates'[d] = candidates[d],
         StageSound(a)', Filed(a)', u.pc = "done" => candidates'[u.dir] = a
  PROVE  FilesInv'
  <1>1. \A b \in Attempts : att'[b] = IF b = a THEN u ELSE att[b]
    BY DEF AttInv
  <1>2. att[a].dir \in Dirs /\ att[a].pc # "none" /\ LastIn(a)
    BY DEF FilesInv, Running
  <1>3. \A b \in Attempts : att'[b].dir = att[b].dir
    BY <1>1
  <1>4. \A b \in Attempts : LastIn(b)' <=> LastIn(b)
    BY <1>3 DEF LastIn
  <1>5. ASSUME NEW b \in Attempts, b # a, LastIn(b), att[b].pc # "none"
        PROVE  att[b].dir \in Dirs \ {u.dir}
    <2>1. a \in Int /\ b \in Int
      BY DEF Attempts
    <2>2. ASSUME att[b].dir = att[a].dir PROVE FALSE
      <3>1. a <= b /\ b <= a
        BY <1>2, <1>5, <2>2 DEF LastIn
      <3> QED BY <1>5, <2>1, <3>1
    <2> QED BY <1>5, <2>2 DEF FilesInv
  <1>6. ASSUME NEW b \in Attempts
        PROVE  StageSound(b)' /\ Bounded(att'[b])
    <2>1. CASE b = a
      BY <1>1, <2>1
    <2>2. CASE b # a
      <3>1. att'[b] = att[b] /\ Plan(b)' = Plan(b)
        BY <1>1, <2>2, PlanStays
      <3>2. StageSound(b) /\ Bounded(att[b])
        BY DEF FilesInv
      <3> QED BY <3>1, <3>2 DEF StageSound
    <2> QED BY <2>1, <2>2
  <1>7. ASSUME NEW b \in Attempts, att'[b].pc # "none", LastIn(b)'
        PROVE  Filed(b)'
    <2>1. CASE b = a
      BY <2>1
    <2>2. CASE b # a
      <3>1. att'[b] = att[b] /\ Plan(b)' = Plan(b) /\ LastIn(b)
        BY <1>1, <1>4, <1>7, <2>2, PlanStays
      <3>2. content'[att[b].dir] = content[att[b].dir] /\ Filed(b)
        BY <1>5, <1>7, <2>2, <3>1 DEF FilesInv
      <3> QED BY <3>1, <3>2 DEF Filed
    <2> QED BY <2>1, <2>2
  <1>8. ASSUME NEW b \in Attempts, att'[b].pc = "done", LastIn(b)'
        PROVE  candidates'[att'[b].dir] = b
    <2>1. CASE b = a
      BY <1>1, <1>8, <2>1
    <2>2. CASE b # a
      <3>1. att'[b] = att[b] /\ LastIn(b) /\ att[b].pc # "none"
        BY <1>1, <1>4, <1>8, <2>2
      <3>2. att[b].dir \in Dirs \ {u.dir} /\ candidates[att[b].dir] = b
        BY <1>5, <1>8, <2>2, <3>1 DEF FilesInv
      <3> QED BY <3>1, <3>2
    <2> QED BY <2>1, <2>2
  <1>9. \A b \in Attempts : Running(b)' => LastIn(b)'
    <2> SUFFICES ASSUME NEW b \in Attempts, Running(b)'
                 PROVE  LastIn(b)'
      OBVIOUS
    <2>1. Running(b)
      BY <1>1 DEF Running
    <2> QED BY <1>4, <2>1 DEF FilesInv
  <1>10. \A b \in Attempts : att'[b].pc # "none" => att'[b].dir \in Dirs
    BY <1>1, <1>2 DEF FilesInv
  <1>11. \A b \in Attempts : b > attempts' => att'[b] = NoAttempt
    <2> SUFFICES ASSUME NEW b \in Attempts, b > attempts
                 PROVE  att'[b] = NoAttempt
      OBVIOUS
    <2>1. att[b] = NoAttempt
      BY DEF FilesInv
    <2>2. att[b].pc = "none"
      BY <2>1, NoAttemptFields
    <2>3. b # a
      BY <1>2, <2>2
    <2> QED BY <1>1, <2>1, <2>3
  <1> QED BY <1>6, <1>7, <1>8, <1>9, <1>10, <1>11 DEF FilesInv

\* The same, of a step that moves a.
LEMMA FilesMoves ==
  ASSUME AttInv, FilesInv, NEW a \in Attempts, Moves(a), att'[a].pc # "none", Bounded(att'[a]),
         content' \in [Dirs -> [Files -> Attempts \union {NoFile, Torn}]],
         \A d \in Dirs \ {att[a].dir} : content'[d] = content[d],
         StageSound(a)', Filed(a)'
  PROVE  FilesInv'
  <1>1. PICK u \in AttType :
          /\ att' = [att EXCEPT ![a] = u] /\ u.dir = att[a].dir
          /\ candidates' = IF u.pc = "done" THEN [candidates EXCEPT ![u.dir] = a] ELSE candidates
    BY DEF Moves
  <1>2. Running(a) /\ attempts' = attempts
    BY DEF Moves
  <1>3. att'[a] = u /\ u.pc # "none" /\ Bounded(u)
    BY <1>1 DEF AttInv
  <1>4. candidates \in [Dirs -> 0 .. MaxAttempts] /\ u.dir \in Dirs /\ a \in 0 .. MaxAttempts
    <2>1. att[a].pc # "none"
      BY <1>2 DEF Running
    <2>2. a \in 0 .. MaxAttempts
      BY AttemptsAssumption DEF Attempts
    <2> QED BY <1>1, <2>1, <2>2 DEF FilesInv
  <1>5. /\ candidates' \in [Dirs -> 0 .. MaxAttempts]
        /\ \A d \in Dirs \ {u.dir} : candidates'[d] = candidates[d]
        /\ u.pc = "done" => candidates'[u.dir] = a
    BY <1>1, <1>4
  <1>6. \A d \in Dirs \ {u.dir} : content'[d] = content[d] /\ candidates'[d] = candidates[d]
    BY <1>1, <1>5
  <1> QED BY <1>1, <1>2, <1>3, <1>5, <1>6, FilesMove

\* An attempt that has written nothing.
LEMMA NothingFiled ==
  ASSUME NEW a \in Attempts, att'[a].written = 0,
         att'[a].pc \in {"fit", "epochs", "dead", "write"}
  PROVE  StageSound(a)' /\ Filed(a)'
  <1>1. 1 .. 0 = {}
    OBVIOUS
  <1>2. Filed(a)'
    BY <1>1 DEF Filed
  <1>3. Len(Plan(a)') \in 1 .. 8
    BY PlanIs, PlanLength
  <1>5. \A k \in 1 .. 8 : 0 < k
    OBVIOUS
  <1>4. 0 < Len(Plan(a)')
    BY ONLY <1>3, <1>5
  <1> QED BY <1>2, <1>4 DEF StageSound

LEMMA DeadFields ==
  ASSUME NEW t \in AttType
  PROVE  Dead(t).pc = "dead" /\ Dead(t).written = 0 /\ Bounded(Dead(t))
  <1>1. /\ Dead(t).pc = "dead" /\ Dead(t).written = 0 /\ Dead(t).best = 0 /\ Dead(t).kept = 0
        /\ Dead(t).device = ""
    BY DEF Dead, NoAttempt
  <1>2. 0 <= Epochs
    BY EpochsAssumption
  <1> QED BY <1>1, <1>2 DEF Bounded

LEMMA FitCandidatesFiles ==
  ASSUME AttInv, FilesInv, NEW a \in Attempts, FitCandidates(a)
  PROVE  FilesInv'
  <1>1. AttInv' /\ Moves(a)
    BY FitCandidatesSound
  <1>2. /\ att[a] \in AttType /\ att[a].pc = "fit" /\ att[a].written = 0 /\ att[a].device = ""
        /\ att[a].best <= Epochs /\ att[a].kept <= Epochs /\ content' = content
    BY DEF AttInv, FilesInv, StageSound, Bounded, FitCandidates
  <1> DEFINE Outcome(u) ==
               \/ u = Dead(att[a])
               \/ \E scores, ensemble, models :
                    u = [att[a] EXCEPT !.pc = "write", !.scores = scores, !.ensemble = ensemble,
                                       !.models = models]
  <1>3. Outcome(att'[a])
    <2>1. \E kind \in ModelKinds : \E scores \in ScoresOf(kind), ensemble \in Scores \union {Failed} :
            LET fitted == {i \in Candidates(kind) : scores[i] # Failed} IN
            att'[a] = IF fitted = {} THEN Dead(att[a])
                      ELSE [att[a] EXCEPT !.pc = "write", !.scores = scores, !.ensemble = ensemble,
                                          !.models = Chosen(kind, fitted, scores, ensemble)]
      <3>1. DOMAIN att = Attempts
        BY DEF AttInv
      <3>2. PICK kind \in ModelKinds : \E scores \in ScoresOf(kind), ensemble \in Scores \union {Failed} :
              LET fitted == {i \in Candidates(kind) : scores[i] # Failed} IN
              /\ ensemble = Failed => \A i, j \in fitted : scores[i] = scores[j]
              /\ att' = [att EXCEPT ![a] =
                   IF fitted = {} THEN Dead(@)
                   ELSE [@ EXCEPT !.pc = "write", !.scores = scores, !.ensemble = ensemble,
                                  !.models = Chosen(kind, fitted, scores, ensemble)]]
        BY ONLY FitCandidates(a), ZenonT(40) DEF FitCandidates
      <3>3. PICK scores \in ScoresOf(kind), ensemble \in Scores \union {Failed} :
              LET fitted == {i \in Candidates(kind) : scores[i] # Failed} IN
              /\ ensemble = Failed => \A i, j \in fitted : scores[i] = scores[j]
              /\ att' = [att EXCEPT ![a] =
                   IF fitted = {} THEN Dead(@)
                   ELSE [@ EXCEPT !.pc = "write", !.scores = scores, !.ensemble = ensemble,
                                  !.models = Chosen(kind, fitted, scores, ensemble)]]
        BY ONLY <3>2, ZenonT(40)
      <3>4. LET fitted == {i \in Candidates(kind) : scores[i] # Failed} IN
            att'[a] = IF fitted = {} THEN Dead(att[a])
                      ELSE [att[a] EXCEPT !.pc = "write", !.scores = scores, !.ensemble = ensemble,
                                          !.models = Chosen(kind, fitted, scores, ensemble)]
        BY ONLY <3>1, <3>3, a \in Attempts
      <3> QED BY ONLY <3>4
    <2> QED BY <2>1
  <1>4. /\ att'[a].pc \in {"write", "dead"} /\ att'[a].written = 0 /\ Bounded(att'[a])
    <2>1. CASE att'[a] = Dead(att[a])
      BY <1>2, <2>1, DeadFields
    <2>3. CASE \E scores, ensemble, models :
                 att'[a] = [att[a] EXCEPT !.pc = "write", !.scores = scores, !.ensemble = ensemble,
                                          !.models = models]
      <3>1. PICK scores, ensemble, models :
              att'[a] = [att[a] EXCEPT !.pc = "write", !.scores = scores, !.ensemble = ensemble,
                                       !.models = models]
        BY <2>3
      <3>2. /\ att'[a].pc = "write" /\ att'[a].written = 0 /\ att'[a].device = ""
            /\ att'[a].best = att[a].best /\ att'[a].kept = att[a].kept
        BY <1>2, <3>1 DEF AttType
      <3>3. Bounded(att'[a])
        BY ONLY <1>2, <3>2 DEF Bounded
      <3> QED BY <3>2, <3>3
    <2> QED BY <1>3, <2>1, <2>3
  <1>5. StageSound(a)' /\ Filed(a)'
    BY <1>4, NothingFiled
  <1> QED BY <1>1, <1>2, <1>4, <1>5, FilesMoves DEF FilesInv

LEMMA TrainEpochFiles ==
  ASSUME AttInv, FilesInv, NEW a \in Attempts, TrainEpoch(a)
  PROVE  FilesInv'
  <1>1. AttInv' /\ Moves(a)
    BY TrainEpochSound
  <1>2. /\ att[a] \in AttType /\ att[a].pc = "epochs" /\ att[a].written = 0 /\ EpochsSound(att[a])
        /\ Len(att[a].scores) < Epochs /\ att[a].kept <= Epochs /\ content' = content
    BY DEF AttInv, AttSound, FilesInv, StageSound, Bounded, TrainEpoch
  <1>3. PICK s \in Scores :
          LET t == Aliased(Epoch(att[a], s)) IN
          att' = [att EXCEPT ![a] =
            IF t.since >= Patience \/ Len(t.scores) = Epochs THEN [t EXCEPT !.pc = "write"] ELSE t]
    BY DEF TrainEpoch
  <1> DEFINE u == Aliased(Epoch(att[a], s))
  <1>4. /\ u \in AttType /\ EpochsSound(u) /\ Len(u.scores) = Len(att[a].scores) + 1
        /\ u.pc = "epochs" /\ u.written = 0
        /\ u.kept = Len(att[a].scores) + 1 \/ u.kept = att[a].kept
    BY <1>2, EpochSound
  <1>5. att'[a] = u \/ att'[a] = [u EXCEPT !.pc = "write"]
    BY <1>3 DEF AttInv
  <1>6. u.best <= Epochs /\ u.kept <= Epochs /\ Len(u.scores) <= Epochs
    <2>1. att[a].scores \in Seq(Scores) /\ u.scores \in Seq(Scores) /\ u.best \in Nat
      BY <1>2, <1>4 DEF EpochsSound, AttType
    <2>2. Len(att[a].scores) \in Nat /\ Len(u.scores) \in Nat /\ Epochs \in Nat
      BY <2>1, EpochsAssumption
    <2>3. u.best <= Len(u.scores)
      BY <1>4, <2>1, <2>2 DEF EpochsSound
    <2> QED BY ONLY <1>2, <1>4, <2>1, <2>2, <2>3
  <1>7. ASSUME NEW v, v = u \/ v = [u EXCEPT !.pc = "write"]
        PROVE  v.pc \in {"epochs", "write"} /\ v.written = 0 /\ Bounded(v)
    <2>1. /\ v.pc \in {"epochs", "write"} /\ v.written = 0 /\ v.best = u.best /\ v.kept = u.kept
          /\ v.scores = u.scores
      BY <1>4, <1>7 DEF AttType
    <2> QED BY ONLY <1>6, <2>1 DEF Bounded
  <1>8. att'[a].pc \in {"epochs", "write"} /\ att'[a].written = 0 /\ Bounded(att'[a])
    BY <1>5, <1>7
  <1>9. StageSound(a)' /\ Filed(a)'
    BY <1>8, NothingFiled
  <1> QED BY <1>1, <1>2, <1>8, <1>9, FilesMoves DEF FilesInv

LEMMA WriteFileFiles ==
  ASSUME AttInv, FilesInv, NEW a \in Attempts, WriteFile(a)
  PROVE  FilesInv'
  <1> DEFINE t == IF NextFile(a) = "metrics" THEN Scored(att[a]) ELSE att[a]
             n == att[a].written
             d == att[a].dir
  <1>1. AttInv' /\ Moves(a)
    BY WriteFileSound
  <1>2. /\ att[a] \in AttType /\ att[a].pc = "write" /\ n \in Nat /\ n < Len(Plan(a))
        /\ Bounded(att[a]) /\ d \in Dirs /\ Running(a) /\ Filed(a)
    BY DEF WriteFile, AttInv, AttType, FilesInv, StageSound, Running
  <1>3. /\ content' = [content EXCEPT ![d][Plan(a)[n + 1]] = a]
        /\ att'[a] = [t EXCEPT !.written = @ + 1,
                                !.pc = IF t.written + 1 = Len(Plan(a)) THEN "log" ELSE @]
    BY DEF WriteFile, Put, NextFile, AttInv
  <1>4. /\ t \in AttType /\ t.written = n /\ t.pc = "write" /\ t.dir = d /\ t.models = att[a].models
        /\ Bounded(t)
    <2>1. /\ Scored(att[a]) \in AttType /\ Scored(att[a]).pc = "write"
          /\ Scored(att[a]).written = n /\ Scored(att[a]).dir = d
      BY <1>2, ScoredSound
    <2>2. /\ Scored(att[a]).best = 0 /\ Scored(att[a]).kept = 0 /\ Scored(att[a]).device = ""
          /\ Scored(att[a]).models = att[a].models
      BY DEF Scored, NoAttempt
    <2>3. 0 <= Epochs
      BY EpochsAssumption
    <2>4. Bounded(Scored(att[a]))
      BY ONLY <2>1, <2>2, <2>3 DEF Bounded
    <2> QED BY <1>2, <2>1, <2>2, <2>4
  <1> HIDE DEF t
  <1>5. /\ att'[a].written = n + 1 /\ att'[a].dir = d /\ att'[a].models = att[a].models
        /\ att'[a].pc = IF n + 1 = Len(Plan(a)) THEN "log" ELSE "write"
        /\ att'[a].best = t.best /\ att'[a].kept = t.kept /\ att'[a].device = t.device
        /\ att'[a].scores = t.scores
    BY <1>3, <1>4 DEF AttType
  <1>6. Bounded(att'[a])
    BY ONLY <1>4, <1>5 DEF Bounded
  <1>7. Plan(a)' = Plan(a)
    BY <1>5, PlanStays
  <1>8. Len(Plan(a)) \in Nat /\ n + 1 \in 1 .. Len(Plan(a)) /\ Plan(a)[n + 1] \in Files
    <2>1. /\ Len(Plan(a)) \in 1 .. 8
          /\ \A i \in 1 .. Len(Plan(a)) : Plan(a)[i] \in Files
      BY PlanIs, PlanLength
    <2>2. n + 1 \in 1 .. Len(Plan(a))
      BY <1>2, <2>1
    <2> QED BY <2>1, <2>2
  <1>9. StageSound(a)'
    <2>1. n + 1 = Len(Plan(a)) \/ n + 1 < Len(Plan(a))
      BY <1>2, <1>8
    <2> QED BY <1>5, <1>7, <2>1 DEF StageSound
  <1>10. /\ content' \in [Dirs -> [Files -> Attempts \union {NoFile, Torn}]]
         /\ \A e \in Dirs \ {d} : content'[e] = content[e]
         /\ content'[d][Plan(a)[n + 1]] = a
         /\ \A f \in Files : content'[d][f] = content[d][f] \/ content'[d][f] = a
    BY <1>2, <1>3, <1>8 DEF FilesInv
  <1>11. Filed(a)'
    <2>1. ASSUME NEW i \in 1 .. n + 1
          PROVE  content'[d][Plan(a)[i]] = a
      <3>1. CASE i = n + 1
        BY <1>10, <3>1
      <3>2. CASE i # n + 1
        <4>1. i \in 1 .. n /\ i \in 1 .. Len(Plan(a))
          BY <1>2, <1>8, <3>2
        <4>2. content[d][Plan(a)[i]] = a
          BY <1>2, <4>1 DEF Filed
        <4>3. Plan(a)[i] \in Files
          BY <4>1, PlanIs, PlanLength
        <4> QED BY <1>10, <4>2, <4>3
      <3> QED BY <3>1, <3>2
    <2> QED BY <1>5, <1>7, <2>1 DEF Filed
  <1>12. att'[a].pc # "none"
    BY <1>5
  <1> QED BY <1>1, <1>6, <1>9, <1>10, <1>11, <1>12, FilesMoves

\* LogRun and Register leave the files.
LEMMA RegisterFiles ==
  ASSUME AttInv, FilesInv, NEW a \in Attempts, LogRun(a) \/ Register(a)
  PROVE  FilesInv'
  <1>1. AttInv' /\ Moves(a)
    BY TrainStepSound DEF TrainStep
  <1>2. /\ att[a] \in AttType /\ att[a].pc \in {"log", "register"}
        /\ Bounded(att[a]) /\ Running(a) /\ Filed(a) /\ att[a].written = Len(Plan(a))
    BY DEF LogRun, Register, AttInv, FilesInv, StageSound, Running
  <1>3. content' = content /\ \E pc \in {"register", "done"} : att'[a] = [att[a] EXCEPT !.pc = pc]
    BY DEF LogRun, Register, AttInv
  <1>4. /\ att'[a].pc \in {"register", "done"} /\ att'[a].written = att[a].written
        /\ att'[a].dir = att[a].dir /\ att'[a].models = att[a].models
        /\ att'[a].best = att[a].best /\ att'[a].kept = att[a].kept
        /\ att'[a].device = att[a].device /\ att'[a].scores = att[a].scores
    BY <1>2, <1>3 DEF AttType
  <1>5. Bounded(att'[a])
    BY ONLY <1>2, <1>4 DEF Bounded
  <1>6. Plan(a)' = Plan(a)
    BY <1>4, PlanStays
  <1>7. StageSound(a)' /\ Filed(a)'
    BY <1>2, <1>3, <1>4, <1>6 DEF StageSound, Filed
  <1>8. att'[a].pc # "none"
    BY <1>4
  <1> QED BY <1>1, <1>3, <1>5, <1>7, <1>8, FilesMoves DEF FilesInv

\* An attempt that dies leaves a file cut short at most.
LEMMA DieFiles ==
  ASSUME AttInv, FilesInv, NEW a \in Attempts, Die(a)
  PROVE  FilesInv'
  <1>1. AttInv' /\ Moves(a)
    BY DieSound
  <1>2. att'[a] = Dead(att[a]) /\ att[a] \in AttType
    BY DEF Die, AttInv
  <1>3. att'[a].pc = "dead" /\ att'[a].written = 0 /\ Bounded(att'[a])
    BY <1>2, DeadFields
  <1>4. StageSound(a)' /\ Filed(a)'
    BY <1>3, NothingFiled
  <1>5. /\ content' \in [Dirs -> [Files -> Attempts \union {NoFile, Torn}]]
        /\ \A d \in Dirs \ {att[a].dir} : content'[d] = content[d]
    <2>1. CASE content' = content
      BY <2>1 DEF FilesInv
    <2>2. CASE content' = [content EXCEPT ![att[a].dir][NextFile(a)] = Torn]
      BY <2>2 DEF FilesInv
    <2> QED BY <2>1, <2>2 DEF Die
  <1> QED BY <1>1, <1>3, <1>4, <1>5, FilesMoves

LEMMA NothingScored == 0 <= Epochs /\ Len(<<>>) <= Epochs
  <1>1. Len(<<>>) = 0 /\ Epochs \in Nat
    BY EpochsAssumption
  <1> QED BY ONLY <1>1

\* Each training of each run has a directory of its own.
LEMMA FlowDirsApart ==
  ASSUME NEW v \in Flows, NEW w \in Flows, NEW q \in Tasks, NEW t \in Tasks,
         FlowDir[v][q] = FlowDir[w][t]
  PROVE  v = w /\ q = t
  <1>1. q = t
    BY FlowsAssumption
  <1> QED BY <1>1, FlowsAssumption

\* A training starts in a directory where no attempt is at work: it is the last one.
LEMMA StartTrainingFiles ==
  ASSUME AttInv, FlowInv, FilesInv, NEW w \in Flows, NEW t \in Tasks, StartTraining(w, t)
  PROVE  FilesInv'
  <1> DEFINE d == FlowDir[w][t]
             b == attempts + 1
  <1>1. d \in Dirs
    BY FlowsAssumption
  <1>2. flow[w][t] = 0 /\ (StartAnomaly(d) \/ StartRca(d))
    BY DEF StartTraining
  <1>3. /\ b \in Attempts /\ attempts' = b
        /\ UNCHANGED <<content, candidates>>
    BY <1>1, <1>2, StartSound
  <1>8. attempts \in Int /\ Attempts \subseteq Int /\ \A a \in Attempts : a # 0 /\ (a > attempts \/ a <= attempts)
    <2>1. attempts \in 0 .. MaxAttempts /\ MaxAttempts \in Nat
      BY AttemptsAssumption DEF AttInv
    <2> QED BY <2>1 DEF Attempts
  <1>9. b > attempts /\ \A a \in Attempts : a > b => a > attempts /\ a # b
    BY <1>8
  <1>10. \A a \in Attempts : a <= attempts => a <= b
    BY <1>8
  <1>11. b <= b
    BY <1>8
  <1>4. \E device \in {"", "cpu", "cuda"} :
          /\ att' = [att EXCEPT ![b] = Started(d, device)]
          /\ TaskOf[d] # "rca" => device = ""
    <2>1. CASE StartAnomaly(d)
      BY <2>1 DEF StartAnomaly
    <2>2. CASE StartRca(d)
      <3>1. Devices \subseteq {"", "cpu", "cuda"}
        BY EpochsAssumption
      <3> QED BY <2>2, <3>1 DEF StartRca
    <2> QED BY <1>2, <2>1, <2>2
  <1>5. PICK device \in {"", "cpu", "cuda"} :
          /\ att' = [att EXCEPT ![b] = Started(d, device)]
          /\ TaskOf[d] # "rca" => device = ""
    BY <1>4
  <1> DEFINE u == Started(d, device)
  <1>6. /\ u.pc = IF TaskOf[d] = "rca" THEN "epochs" ELSE "fit"
        /\ u.dir = d /\ u.device = device /\ u.scores = <<>> /\ u.best = 0 /\ u.kept = 0
        /\ u.written = 0
    BY DEF Started, NoAttempt
  <1>7. Bounded(u)
    <2>1. 0 <= Epochs /\ Len(<<>>) <= Epochs
      BY NothingScored
    <2>2. u.pc = "fit" => u.device = ""
      BY <1>5, <1>6
    <2> HIDE DEF u
    <2> QED BY ONLY <1>6, <2>1, <2>2 DEF Bounded
  <1> HIDE DEF b, d, u
  <1>12. \A a \in Attempts : att'[a] = IF a = b THEN u ELSE att[a]
    BY <1>5 DEF AttInv, u
  <1>13. att[b] = NoAttempt /\ att[b].pc = "none" /\ att[b].dir = ""
    BY <1>3, <1>9, NoAttemptFields DEF FilesInv
  <1>14. \A a \in Attempts : a # b /\ att[a].dir = d => a <= attempts
    <2> SUFFICES ASSUME NEW a \in Attempts, a > attempts
                 PROVE  att[a].dir # d
      BY <1>8
    <2>1. att[a].dir = ""
      BY NoAttemptFields DEF FilesInv
    <2> QED BY <1>1, <2>1, DirsAssumption
\* Nobody is at work in d.
  <1>15. ASSUME NEW a \in Attempts, Running(a), att[a].dir = d
         PROVE  FALSE
    <2>1. PICK v \in Flows, q \in Tasks : flow[v][q] = a
      BY <1>15 DEF FlowInv
    <2>2. a # 0
      BY <1>8
    <2>3. FlowDir[v][q] = FlowDir[w][t]
      <3>1. \A x \in Flows, y \in Tasks : flow[x][y] # 0 => att[flow[x][y]].dir = FlowDir[x][y]
        BY ONLY FlowInv DEF FlowInv
      <3>2. att[a].dir = FlowDir[v][q]
        BY ONLY <2>1, <2>2, <3>1
      <3> QED BY ONLY <1>15, <3>2 DEF d
    <2>4. v = w /\ q = t
      BY <2>3, FlowDirsApart
    <2> QED BY <1>2, <2>1, <2>2, <2>4
  <1>16. ASSUME NEW a \in Attempts, a # b, att[a].pc # "none", LastIn(a)'
         PROVE  LastIn(a)
    <2> SUFFICES ASSUME NEW c \in Attempts, att[c].dir = att[a].dir
                 PROVE  c <= a
      BY DEF LastIn
    <2>1. att[a].dir \in Dirs
      BY <1>16 DEF FilesInv
    <2>2. c # b
      BY <1>13, <2>1, DirsAssumption
    <2>3. att'[c].dir = att'[a].dir
      BY <1>12, <1>16, <2>2
    <2> QED BY <1>16, <2>3 DEF LastIn
  <1>17. ASSUME NEW a \in Attempts, Running(a)'
         PROVE  LastIn(a)'
    <2>1. CASE a = b
      <3> SUFFICES ASSUME NEW c \in Attempts, att'[c].dir = att'[a].dir
                   PROVE  c <= a
        BY DEF LastIn
      <3>1. att'[c].dir = d
        BY <1>6, <1>12, <2>1 DEF u
      <3>2. c = b \/ c <= attempts
        BY <1>12, <1>14, <3>1
      <3> QED BY <1>10, <1>11, <2>1, <3>2
    <2>2. CASE a # b
      <3>1. Running(a) /\ att'[a] = att[a]
        BY <1>12, <1>17, <2>2 DEF Running
      <3>2. LastIn(a) /\ att[a].dir # d
        BY <1>15, <3>1 DEF FilesInv
      <3> SUFFICES ASSUME NEW c \in Attempts, att'[c].dir = att'[a].dir
                   PROVE  c <= a
        BY DEF LastIn
      <3>3. c # b
        BY <1>6, <1>12, <3>1, <3>2 DEF u
      <3> QED BY <1>12, <3>1, <3>2, <3>3 DEF LastIn
    <2> QED BY <2>1, <2>2
  <1>18. ASSUME NEW a \in Attempts
         PROVE  StageSound(a)' /\ Bounded(att'[a])
    <2>1. CASE a = b
      <3>1. att'[a] = u
        BY <1>12, <2>1
      <3>2. att'[a].written = 0 /\ att'[a].pc \in {"fit", "epochs", "dead", "write"}
        BY <1>6, <3>1 DEF u
      <3> QED BY <1>7, <3>1, <3>2, NothingFiled
    <2>2. CASE a # b
      <3>1. att'[a] = att[a] /\ Plan(a)' = Plan(a)
        BY <1>12, <2>2, PlanStays
      <3>2. StageSound(a) /\ Bounded(att[a])
        BY DEF FilesInv
      <3> QED BY <3>1, <3>2 DEF StageSound
    <2> QED BY <2>1, <2>2
  <1>19. ASSUME NEW a \in Attempts, att'[a].pc # "none", LastIn(a)'
         PROVE  Filed(a)'
    <2>1. CASE a = b
      <3>1. att'[a].written = 0 /\ att'[a].pc \in {"fit", "epochs", "dead", "write"}
        BY <1>6, <1>12, <2>1 DEF u
      <3> QED BY <3>1, NothingFiled
    <2>2. CASE a # b
      <3>1. att'[a] = att[a] /\ Plan(a)' = Plan(a)
        BY <1>12, <2>2, PlanStays
      <3>2. Filed(a)
        BY <1>16, <1>19, <2>2, <3>1 DEF FilesInv
      <3> QED BY <1>3, <3>1, <3>2 DEF Filed
    <2> QED BY <2>1, <2>2
  <1>20. ASSUME NEW a \in Attempts, att'[a].pc = "done", LastIn(a)'
         PROVE  candidates'[att'[a].dir] = a
    <2>1. a # b
      BY <1>6, <1>12, <1>20 DEF u
    <2>2. att'[a] = att[a] /\ LastIn(a)
      BY <1>12, <1>16, <1>20, <2>1
    <2> QED BY <1>3, <1>20, <2>2 DEF FilesInv
  <1>21. \A a \in Attempts : att'[a].pc # "none" => att'[a].dir \in Dirs
    BY <1>1, <1>6, <1>12 DEF FilesInv, u
  <1>22. \A a \in Attempts : a > attempts' => att'[a] = NoAttempt
    BY <1>3, <1>9, <1>12 DEF FilesInv
  <1>23. /\ content' \in [Dirs -> [Files -> Attempts \union {NoFile, Torn}]]
         /\ candidates' \in [Dirs -> 0 .. MaxAttempts]
    BY <1>3 DEF FilesInv
  <1> QED BY <1>17, <1>18, <1>19, <1>20, <1>21, <1>22, <1>23 DEF FilesInv

\* Every set of attempts that is not empty has a last one.
LEMMA LastExists ==
  ASSUME NEW S \in SUBSET Attempts, S # {}
  PROVE  \E a \in S : \A b \in S : b <= a
  <1> DEFINE own == [i \in S |-> i]
  <1>1. S \in SUBSET Int /\ \A i \in S : own[i] \in Int
    BY DEF Attempts
  <1>2. IsFiniteSet(S)
    <2>1. IsFiniteSet(Attempts)
      BY AttemptsAssumption, FS_Interval DEF Attempts
    <2> QED BY <2>1, FS_Subset
  <1>3. \A i \in S : own[i] = i
    OBVIOUS
  <1> HIDE DEF own
  <1>4. PICK a \in S : \A b \in S : ~Better(own, b, a)
    BY <1>1, <1>2, BestExists
  <1>5. \A b \in S : b <= a
    BY <1>1, <1>3, <1>4 DEF Better
  <1> QED BY <1>5

\* A directory whose attempts all ended holds what the last one of them has registered.
LEMMA SettledComplete ==
  ASSUME FilesInv, NEW d \in Dirs, Settled(d) # {}
  PROVE  \E a \in Settled(d) :
           /\ \A b \in Settled(d) : b <= a
           /\ a \in Attempts /\ candidates[d] = a
           /\ \A f \in {"config", "metrics", "manifest"} \union Named(TaskOf[d], a) : content[d][f] = a
  <1>1. Settled(d) = Of(d) /\ Quiet(d)
    BY DEF Settled
  <1>2. Of(d) \in SUBSET Attempts
    BY DEF Of
  <1>3. PICK a \in Of(d) : \A b \in Of(d) : b <= a
    BY <1>1, <1>2, LastExists
  <1>4. a \in Attempts /\ att[a].dir = d /\ att[a].pc = "done"
    BY <1>1 DEF Of, Quiet
  <1>5. LastIn(a)
    BY <1>3, <1>4 DEF LastIn, Of
  <1>6. candidates[d] = a /\ Filed(a) /\ att[a].written = Len(Plan(a))
    BY <1>4, <1>5 DEF FilesInv, StageSound
  <1>7. ASSUME NEW f \in {"config", "metrics", "manifest"} \union Named(TaskOf[d], a)
        PROVE  content[d][f] = a
    <2>1. PICK i \in 1 .. Len(Plan(a)) : Plan(a)[i] = f
      BY <1>4, PlanCovers
    <2> QED BY <1>4, <1>6, <2>1 DEF Filed
  <1> QED BY <1>1, <1>3, <1>4, <1>6, <1>7

LEMMA FilesInit == Init => FilesInv
  <1> SUFFICES ASSUME Init PROVE FilesInv
    OBVIOUS
  <1>1. /\ attempts = 0 /\ att = [a \in Attempts |-> NoAttempt]
        /\ content = [d \in Dirs |-> [f \in Files |-> NoFile]] /\ candidates = [d \in Dirs |-> 0]
    BY DEF Init, TrainInit
  <1>2. \A a \in Attempts : att[a] = NoAttempt
    BY <1>1
  <1>3. 0 \in 0 .. MaxAttempts
    BY AttemptsAssumption
  <1>4. \A a \in Attempts : StageSound(a) /\ Bounded(att[a]) /\ ~Running(a)
    BY <1>2, NoAttemptFields DEF StageSound, Running
  <1>5. \A a \in Attempts : att[a].pc = "none"
    BY <1>2, NoAttemptFields
  <1> QED BY <1>1, <1>2, <1>3, <1>4, <1>5 DEF FilesInv

\* The steps that leave the attempts and the files alone.
LEMMA FilesKept ==
  ASSUME FilesInv, UNCHANGED trainVars
  PROVE  FilesInv'
  <1>1. att' = att /\ content' = content /\ candidates' = candidates /\ attempts' = attempts
    BY DEF trainVars
  <1>2. \A a \in Attempts : Plan(a)' = Plan(a)
    BY <1>1 DEF Plan
  <1>3. \A a \in Attempts : (LastIn(a)' <=> LastIn(a)) /\ (Filed(a)' <=> Filed(a))
    BY <1>1, <1>2 DEF LastIn, Filed
  <1>4. \A a \in Attempts : (StageSound(a)' <=> StageSound(a)) /\ (Running(a)' <=> Running(a))
    BY <1>1, <1>2 DEF StageSound, Running
  <1> QED BY <1>1, <1>3, <1>4 DEF FilesInv

LEMMA FilesNext == AttInv /\ FlowInv /\ FilesInv /\ [Next]_vars => FilesInv'
  <1> SUFFICES ASSUME AttInv, FlowInv, FilesInv, [Next]_vars PROVE FilesInv'
    OBVIOUS
  <1>1. ASSUME NEW a \in Attempts, TrainStep(a) \/ Die(a)
        PROVE  FilesInv'
    BY <1>1, FitCandidatesFiles, TrainEpochFiles, WriteFileFiles, RegisterFiles, DieFiles
       DEF TrainStep
  <1>2. ASSUME NEW w \in Flows, FlowStep(w) \/ ClearFlow(w)
        PROVE  FilesInv'
    <2>1. CASE \E t \in Tasks : StartTraining(w, t)
      BY <2>1, StartTrainingFiles
    <2>2. CASE StartFlow(w) \/ ExportFeedback(w) \/ FlowFails(w) \/ BuildBundle(w) \/ ClearFlow(w)
      BY <2>2, FilesKept DEF StartFlow, ExportFeedback, FlowFails, BuildBundle, ClearFlow
    <2> QED BY <1>2, <2>1, <2>2 DEF FlowStep
  <1>3. ASSUME NEW d \in Dirs, Promote(d)
        PROVE  FilesInv'
    BY <1>3, FilesKept DEF Promote
  <1>4. ASSUME NEW t \in Tasks, StartServer(t) \/ ServeStep(t)
        PROVE  FilesInv'
    BY <1>4, FilesKept DEF StartServer, ServeStep, ReadConfig, LoadModel
  <1>5. CASE UNCHANGED vars
    BY <1>5, FilesKept DEF vars
  <1> QED BY <1>1, <1>2, <1>3, <1>4, <1>5 DEF Next

-----------------------------------------------------------------------------
(* The services. *)

\* A service becomes s.
LEMMA ServerBecomes ==
  ASSUME ServeInv, NEW t \in Tasks, NEW s \in Serving, server' = [server EXCEPT ![t] = s],
         production' = production,
         s.pc # "down" => s.dir \in Dirs /\ TaskOf[s.dir] = t,
         s.pc = "config" /\ s.seen # {} => s.config \in s.seen /\ \A b \in s.seen : b <= s.config,
         s.pc = "up" /\ s.seen # {} => s.rest = {s.config}
  PROVE  ServeInv'
  <1>1. \A q \in Tasks : server'[q] = IF q = t THEN s ELSE server[q]
    BY DEF ServeInv
  <1>2. server' \in [Tasks -> Serving]
    BY DEF ServeInv
  <1>3. ASSUME NEW q \in Tasks PROVE ServerSound(q)'
    <2>1. CASE q = t
      <3>1. server'[q] = s
        BY <1>1, <2>1
      <3> QED BY <2>1, <3>1 DEF ServerSound
    <2>2. CASE q # t
      <3>1. server'[q] = server[q] /\ ServerSound(q)
        BY <1>1, <2>2 DEF ServeInv
      <3> QED BY ONLY <3>1 DEF ServerSound
    <2> QED BY <2>1, <2>2
  <1> QED BY <1>2, <1>3 DEF ServeInv

LEMMA NoServerType == NoServer \in Serving /\ NoServer.pc = "down"
  BY DEF NoServer, Serving, NoFile

LEMMA StartServerSound ==
  ASSUME ServeInv, NEW t \in Tasks, StartServer(t)
  PROVE  ServeInv'
  <1>1. PICK d \in Resolved(t) :
          server' = [server EXCEPT ![t] = [NoServer EXCEPT !.pc = "resolved", !.dir = d]]
    BY DEF StartServer
  <1>2. d \in Dirs /\ TaskOf[d] = t
    BY DEF Resolved, ServeInv
  <1> DEFINE s == [NoServer EXCEPT !.pc = "resolved", !.dir = d]
  <1>3. s \in Serving /\ s.pc = "resolved" /\ s.dir = d
    BY <1>2, NoServerType DEF Serving
  <1>4. production' = production
    BY DEF StartServer, flowVars
  <1> HIDE DEF s
  <1> QED BY <1>1, <1>2, <1>3, <1>4, ServerBecomes DEF s

LEMMA ReadConfigSound ==
  ASSUME FilesInv, ServeInv, NEW t \in Tasks, ReadConfig(t)
  PROVE  ServeInv'
  <1> DEFINE d == server[t].dir
             s == [server[t] EXCEPT !.pc = "config", !.config = content[d].config, !.seen = Settled(d)]
  <1>1. server[t] \in Serving /\ server[t].pc = "resolved" /\ d \in Dirs /\ TaskOf[d] = t
    BY DEF ReadConfig, ServeInv, ServerSound
  <1>2. production' = production
    BY DEF ReadConfig, flowVars
  <1>3. server' = [server EXCEPT ![t] = s] \/ server' = [server EXCEPT ![t] = NoServer]
    BY DEF ReadConfig
  <1>4. CASE server' = [server EXCEPT ![t] = NoServer]
    BY <1>2, <1>4, NoServerType, ServerBecomes
  <1>5. CASE server' = [server EXCEPT ![t] = s]
    <2>1. content[d].config \in Attempts \union {NoFile, Torn} /\ Settled(d) \in SUBSET Attempts
      BY <1>1 DEF FilesInv, Files, Settled, Of
    <2>2. /\ s \in Serving /\ s.pc = "config" /\ s.dir = d /\ s.config = content[d].config
          /\ s.seen = Settled(d)
      BY <1>1, <2>1 DEF Serving
    <2>3. ASSUME Settled(d) # {}
          PROVE  content[d].config \in Settled(d) /\ \A b \in Settled(d) : b <= content[d].config
      <3>1. PICK a \in Settled(d) :
              /\ \A b \in Settled(d) : b <= a
              /\ \A f \in {"config", "metrics", "manifest"} \union Named(TaskOf[d], a) : content[d][f] = a
        BY <1>1, <2>3, SettledComplete
      <3>2. content[d].config = a
        BY <3>1
      <3> QED BY <3>1, <3>2
    <2> HIDE DEF s
    <2> QED BY <1>1, <1>2, <1>5, <2>2, <2>3, ServerBecomes
  <1> QED BY <1>3, <1>4, <1>5

\* A directory that is settled, and was with the same attempts when the configuration
\* was read, has its files of the attempt that wrote the configuration.
LEMMA LoadModelSound ==
  ASSUME FilesInv, ServeInv, NEW t \in Tasks, LoadModel(t)
  PROVE  ServeInv'
  <1> DEFINE d == server[t].dir
             c == server[t].config
             S == Named(t, c)
             seen == IF server[t].seen = Settled(d) THEN server[t].seen ELSE {}
             s == [server[t] EXCEPT !.pc = "up", !.rest = {content[d][f] : f \in S}, !.seen = seen]
  <1>1. server[t] \in Serving /\ server[t].pc = "config" /\ d \in Dirs /\ TaskOf[d] = t
    BY DEF LoadModel, ServeInv, ServerSound
  <1>2. production' = production
    BY DEF LoadModel, flowVars
  <1>3. server' = [server EXCEPT ![t] = s] \/ server' = [server EXCEPT ![t] = NoServer]
    <2>1. CASE Readable(d, S)
      BY <2>1 DEF LoadModel
    <2>2. CASE ~Readable(d, S)
      BY <2>2 DEF LoadModel
    <2> QED BY <2>1, <2>2
  <1>4. CASE server' = [server EXCEPT ![t] = NoServer]
    BY <1>2, <1>4, NoServerType, ServerBecomes
  <1>5. CASE server' = [server EXCEPT ![t] = s]
    <2>1. S \subseteq Files /\ S # {}
      BY DEF Named, Files
    <2>2. {content[d][f] : f \in S} \in SUBSET (Attempts \union {NoFile, Torn})
      <3> HIDE DEF S, d
      <3> QED BY <1>1, <2>1 DEF FilesInv
    <2>3. seen \in SUBSET Attempts
      BY <1>1 DEF Serving
    <2>4. ASSUME seen # {}
          PROVE  {content[d][f] : f \in S} = {c}
      <3>1. Settled(d) # {} /\ c \in Settled(d) /\ \A b \in Settled(d) : b <= c
        BY <1>1, <2>4 DEF ServeInv, ServerSound
      <3>2. PICK a \in Settled(d) :
              /\ \A b \in Settled(d) : b <= a
              /\ \A f \in {"config", "metrics", "manifest"} \union Named(TaskOf[d], a) : content[d][f] = a
        BY <1>1, <3>1, SettledComplete
      <3>3. a = c
        <4>1. Settled(d) \subseteq Int
          BY DEF Settled, Of, Attempts
        <4> QED BY <3>1, <3>2, <4>1
      <3>4. \A f \in S : content[d][f] = c
        BY <1>1, <3>2, <3>3
      <3> HIDE DEF S, c
      <3> QED BY <2>1, <3>4
    <2> HIDE DEF S, seen, c
    <2>5. /\ s \in Serving /\ s.pc = "up" /\ s.dir = d /\ s.config = c /\ s.seen = seen
          /\ s.rest = {content[d][f] : f \in S}
      BY <1>1, <2>2, <2>3 DEF Serving, c
    <2> HIDE DEF s
    <2> QED BY <1>1, <1>2, <1>5, <2>4, <2>5, ServerBecomes
  <1> QED BY <1>3, <1>4, <1>5

LEMMA ServeInit == Init => ServeInv
  <1> SUFFICES ASSUME Init PROVE ServeInv
    OBVIOUS
  <1>1. production = [t \in Tasks |-> ""] /\ server = [t \in Tasks |-> NoServer]
    BY DEF Init
  <1> QED BY <1>1, NoServerType DEF ServeInv, ServerSound

LEMMA ServeNext == FilesInv /\ ServeInv /\ [Next]_vars => ServeInv'
  <1> SUFFICES ASSUME FilesInv, ServeInv, [Next]_vars PROVE ServeInv'
    OBVIOUS
  <1>1. ASSUME UNCHANGED <<production, serveVars>>
        PROVE  ServeInv'
    BY <1>1 DEF serveVars, ServeInv, ServerSound
  <1>2. ASSUME NEW d \in Dirs, Promote(d)
        PROVE  ServeInv'
    <2>1. production' = [production EXCEPT ![TaskOf[d]] = d] /\ server' = server
      BY <1>2 DEF Promote, serveVars
    <2>2. TaskOf[d] \in Tasks
      BY DirsAssumption
    <2>3. /\ production' \in [Tasks -> Dirs \union {""}]
          /\ \A t \in Tasks : production'[t] # "" => TaskOf[production'[t]] = t
      BY <2>1, <2>2 DEF ServeInv
    <2> QED BY <2>1, <2>3 DEF ServeInv, ServerSound
  <1>3. ASSUME NEW t \in Tasks, StartServer(t) \/ ServeStep(t)
        PROVE  ServeInv'
    BY <1>3, StartServerSound, ReadConfigSound, LoadModelSound DEF ServeStep
  <1>4. ASSUME NEW w \in Flows, FlowStep(w) \/ ClearFlow(w)
        PROVE  ServeInv'
    BY <1>1, <1>4 DEF FlowStep, StartFlow, ExportFeedback, StartTraining, FlowFails, BuildBundle, ClearFlow
  <1>5. ASSUME NEW a \in Attempts, UNCHANGED <<flowVars, serveVars>>
        PROVE  ServeInv'
    BY <1>1, <1>5 DEF flowVars
  <1>6. CASE UNCHANGED vars
    BY <1>1, <1>6 DEF vars, flowVars
  <1> QED BY <1>2, <1>3, <1>4, <1>5, <1>6 DEF Next

-----------------------------------------------------------------------------
(* The theorems. *)

TrainingInv == AttInv /\ FlowInv

\* The steps that leave the attempts and the runs alone.
LEMMA OthersSound ==
  ASSUME TrainingInv, UNCHANGED <<attempts, att, candidates, flow>>
  PROVE  TrainingInv'
  <1>1. AttInv'
    BY DEF TrainingInv, AttInv
  <1>2. FlowInv'
    BY DEF TrainingInv, FlowInv, Running, Trained
  <1> QED BY <1>1, <1>2 DEF TrainingInv

LEMMA RunStepSound ==
  ASSUME TrainingInv, NEW w \in Flows, FlowStep(w) \/ ClearFlow(w)
  PROVE  TrainingInv'
  <1>1. AttInv /\ FlowInv
    BY DEF TrainingInv
  <1>2. CASE \E t \in Tasks : StartTraining(w, t)
    BY <1>1, <1>2, StartTrainingSound DEF TrainingInv
  <1>3. ASSUME UNCHANGED <<attempts, att, candidates>>
        PROVE  AttInv'
    BY <1>1, <1>3 DEF AttInv
  <1>4. CASE StartFlow(w) \/ ExportFeedback(w) \/ FlowFails(w) \/ BuildBundle(w)
    <2>1. UNCHANGED <<attempts, att, candidates>>
      BY <1>1, <1>4, FlowStepSound
    <2>2. PICK r : /\ flow' = [flow EXCEPT ![w] = r] /\ DOMAIN r = FlowFields
                   /\ \A t \in Tasks : r[t] = flow[w][t]
                   /\ r.pc \in {"none", "export"} => \A t \in Tasks : flow[w][t] = 0
                   /\ r.pc = "bundled" => Trained(w)
                   /\ r.pc = "failed" /\ r.of = "dag" =>
                        \A t \in Tasks : flow[w][t] = 0 \/ ~Running(flow[w][t])
      BY <1>1, <1>4, FlowStepSound
    <2>3. /\ r.pc \in {"none", "export"} => \A t \in Tasks : r[t] = 0
          /\ r.pc = "bundled" => \A t \in Tasks : r[t] # 0 /\ att[r[t]].pc = "done"
          /\ r.pc = "failed" /\ r.of = "dag" => \A t \in Tasks : r[t] = 0 \/ ~Running(r[t])
      BY <2>2 DEF Trained
    <2>4. /\ flow' = [flow EXCEPT ![w] = r] /\ DOMAIN r = FlowFields
          /\ \A t \in Tasks : r[t] = flow[w][t] \/ (r[t] = 0 /\ ~Running(flow[w][t]))
      BY <2>2
    <2>5. FlowInv'
      BY ONLY <1>1, <2>1, <2>3, <2>4, w \in Flows, RunKeepsFlow
    <2> QED BY <1>3, <2>1, <2>5 DEF TrainingInv
  <1>5. CASE ClearFlow(w)
    <2>1. UNCHANGED <<attempts, att, candidates>>
      BY <1>1, <1>5, ClearFlowSound
    <2>2. PICK r : /\ flow' = [flow EXCEPT ![w] = r] /\ DOMAIN r = FlowFields
                   /\ \A t \in Tasks : r[t] = flow[w][t] \/ (r[t] = 0 /\ ~Running(flow[w][t]))
                   /\ r.pc \in {"export", "train"}
                   /\ r.pc = "export" => \A t \in Tasks : r[t] = 0
      BY <1>1, <1>5, ClearFlowSound
    <2>3. /\ r.pc \in {"none", "export"} => \A t \in Tasks : r[t] = 0
          /\ r.pc = "bundled" => \A t \in Tasks : r[t] # 0 /\ att[r[t]].pc = "done"
          /\ r.pc = "failed" /\ r.of = "dag" => \A t \in Tasks : r[t] = 0 \/ ~Running(r[t])
      BY <2>2
    <2>4. /\ flow' = [flow EXCEPT ![w] = r] /\ DOMAIN r = FlowFields
          /\ \A t \in Tasks : r[t] = flow[w][t] \/ (r[t] = 0 /\ ~Running(flow[w][t]))
      BY <2>2
    <2>5. FlowInv'
      BY ONLY <1>1, <2>1, <2>3, <2>4, w \in Flows, RunKeepsFlow
    <2> QED BY <1>3, <2>1, <2>5 DEF TrainingInv
  <1> QED BY <1>2, <1>4, <1>5 DEF FlowStep

LEMMA TrainingInit == Init => TrainingInv
  <1> SUFFICES ASSUME Init PROVE TrainingInv
    OBVIOUS
  <1>1. /\ attempts = 0 /\ att = [a \in Attempts |-> NoAttempt]
        /\ candidates = [d \in Dirs |-> 0] /\ flow = [w \in Flows |-> NoFlow]
    BY DEF Init, TrainInit
  <1>2. NoAttempt \in AttType /\ AttSound(NoAttempt) /\ NoAttempt.pc = "none"
    BY NoAttemptType DEF NoAttempt
  <1>3. 0 \in 0 .. MaxAttempts /\ 0 \in 0 .. 0
    BY AttemptsAssumption
  <1>4. AttInv
    BY <1>1, <1>2, <1>3 DEF AttInv
  <1>5. DOMAIN NoFlow = FlowFields /\ NoFlow.pc = "none" /\ \A t \in Tasks : NoFlow[t] = 0
    BY DEF NoFlow, FlowFields, Tasks
  <1>6. \A a \in Attempts : ~Running(a)
    BY <1>1, <1>2 DEF Running
  <1>7. FlowInv
    BY <1>1, <1>3, <1>5, <1>6 DEF FlowInv
  <1> QED BY <1>4, <1>7 DEF TrainingInv

LEMMA TrainingNext == TrainingInv /\ [Next]_vars => TrainingInv'
  <1> SUFFICES ASSUME TrainingInv, [Next]_vars PROVE TrainingInv'
    OBVIOUS
  <1>1. ASSUME NEW a \in Attempts, TrainStep(a) \/ Die(a), UNCHANGED <<flowVars, serveVars>>
        PROVE  TrainingInv'
    <2>1. AttInv /\ FlowInv /\ flow' = flow
      BY <1>1 DEF TrainingInv, flowVars
    <2>2. AttInv' /\ Moves(a)
      BY <1>1, <2>1, TrainStepSound
    <2> QED BY <2>1, <2>2, MoveKeepsFlow DEF TrainingInv
  <1>2. ASSUME NEW w \in Flows, FlowStep(w) \/ ClearFlow(w)
        PROVE  TrainingInv'
    BY <1>2, RunStepSound
  <1>3. ASSUME NEW d \in Dirs, Promote(d)
        PROVE  TrainingInv'
    BY <1>3, OthersSound DEF Promote, trainVars
  <1>4. ASSUME NEW t \in Tasks, StartServer(t) \/ ServeStep(t)
        PROVE  TrainingInv'
    BY <1>4, OthersSound DEF StartServer, ServeStep, ReadConfig, LoadModel, trainVars, flowVars
  <1>5. CASE UNCHANGED vars
    BY <1>5, OthersSound DEF vars, trainVars, flowVars
  <1> QED BY <1>1, <1>2, <1>3, <1>4, <1>5 DEF Next

\* The invariant of the attempts and of the runs.
THEOREM TrainingInvariant == Spec => []TrainingInv
  <1> QED BY TrainingInit, TrainingNext, PTL DEF Spec

\* Whatever is fitted, and however many of the fits fail, the model that is saved
\* scores at least as much as every one that was fitted (27_train_anomaly.py main).
THEOREM BestIsSaved == Spec => []ChosenIsBest
  <1>1. TrainingInv => ChosenIsBest
    BY DEF TrainingInv, AttInv, AttSound, ChosenSound, ChosenIsBest
  <1> QED BY <1>1, TrainingInvariant, PTL

\* For any number of epochs and any patience, the RCA script stops as soon as it may
\* and knows its best epoch (28_train_rca.py main).
THEOREM EarlyStopping == Spec => []StopsAtPatience
  <1>1. TrainingInv => StopsAtPatience
    BY DEF TrainingInv, AttInv, AttSound, StopSound, StopsAtPatience
  <1> QED BY <1>1, TrainingInvariant, PTL

\* However trainings fail and are run again, what is bundled for review are two
\* candidates of the run that bundles them (the DAG and the script).
THEOREM BundleIsComplete == Spec => []BundleHasBothCandidates
  <1>1. TrainingInv => BundleHasBothCandidates
    BY DEF TrainingInv, FlowInv, Trained, BundleHasBothCandidates
  <1> QED BY <1>1, TrainingInvariant, PTL

LEMMA WithinEight ==
  ASSUME NEW w \in Nat, NEW n \in 1 .. 8, w = 0 \/ w <= n
  PROVE  w \in 0 .. 8
  OBVIOUS

\* The invariant of the files and of the services.
LEMMA FilesInvariant == Spec => [](TrainingInv /\ FilesInv /\ ServeInv)
  <1>1. Init => TrainingInv /\ FilesInv /\ ServeInv
    BY TrainingInit, FilesInit, ServeInit
  <1>2. TrainingInv /\ FilesInv /\ ServeInv /\ [Next]_vars => (TrainingInv /\ FilesInv /\ ServeInv)'
    BY TrainingNext, FilesNext, ServeNext DEF TrainingInv
  <1> QED BY <1>1, <1>2, PTL DEF Spec

\* Every variable of the trainings, the runs, the registry and the files keeps its
\* type, and an attempt goes through no more epochs than it was given.
THEOREM RetrainingTypeCorrect == Spec => []TypeOK
  <1>1. ASSUME TrainingInv, FilesInv, ServeInv
        PROVE  TypeOK
    <2>0. AttInv /\ FlowInv
      BY <1>1 DEF TrainingInv
    <2>1. ASSUME NEW a \in Attempts
          PROVE  /\ att[a].device # "" => Len(att[a].scores) <= Epochs
                 /\ att[a].best \in 0 .. Epochs /\ att[a].kept \in 0 .. Epochs
                 /\ att[a].written \in 0 .. 8 /\ att[a].models \subseteq Fits
                 /\ a > attempts => att[a] = NoAttempt
      <3>1. att[a] \in AttType /\ Bounded(att[a]) /\ StageSound(a)
        BY <1>1, <2>0 DEF AttInv, FilesInv
      <3>2. /\ att[a].best \in Nat /\ att[a].kept \in Nat /\ att[a].written \in Nat
            /\ att[a].best <= Epochs /\ att[a].kept <= Epochs /\ att[a].models \subseteq Fits
        BY <3>1 DEF AttType, Bounded
      <3>3. att[a].best \in 0 .. Epochs /\ att[a].kept \in 0 .. Epochs
        <4>1. Epochs \in Nat
          BY EpochsAssumption
        <4> QED BY ONLY <3>2, <4>1
      <3>4. att[a].written \in 0 .. 8
        <4>1. Len(Plan(a)) \in 1 .. 8
          BY PlanIs, PlanLength
        <4>2. att[a].written = 0 \/ att[a].written <= Len(Plan(a))
          <5>1. att[a].pc \in {"none", "fit", "epochs", "write", "log", "register", "done", "dead"}
            BY <3>1 DEF AttType
          <5>2. \/ att[a].written = 0 \/ att[a].written < Len(Plan(a))
                \/ att[a].written = Len(Plan(a))
            BY <3>1, <5>1 DEF StageSound
          <5> QED BY <3>2, <4>1, <5>2
        <4> QED BY ONLY <3>2, <4>1, <4>2, WithinEight
      <3> QED BY <1>1, <3>1, <3>2, <3>3, <3>4 DEF Bounded, FilesInv
    <2>2. \A w \in Flows : flow[w].anomaly \in 0 .. attempts /\ flow[w].rca \in 0 .. attempts
      BY <2>0 DEF FlowInv, Tasks
    <2> QED BY <1>1, <2>0, <2>1, <2>2 DEF TypeOK, AttInv, FilesInv, ServeInv
  <1> QED BY <1>1, FilesInvariant, PTL

\* However attempts die and directories are used again, a directory whose attempts all
\* ended is registered, and has every file its configuration names, of the attempt
\* that registered it last (27 and 28: set_stage comes after the files).
THEOREM RegisteredDirectoriesAreComplete == Spec => []RegisteredIsComplete
  <1>1. ASSUME FilesInv PROVE RegisteredIsComplete
    <2> SUFFICES ASSUME NEW d \in Dirs, Settled(d) # {}
                 PROVE  /\ candidates[d] # 0
                        /\ \A f \in {"config", "metrics", "manifest"} \union Named(TaskOf[d], candidates[d]) :
                             content[d][f] = candidates[d]
      BY DEF RegisteredIsComplete
    <2>1. PICK a \in Settled(d) :
            /\ a \in Attempts /\ candidates[d] = a
            /\ \A f \in {"config", "metrics", "manifest"} \union Named(TaskOf[d], a) : content[d][f] = a
      BY <1>1, SettledComplete
    <2>2. a # 0
      BY <2>1 DEF Attempts
    <2> QED BY <2>1, <2>2
  <1> QED BY <1>1, FilesInvariant, PTL

\* A service that has read its files, one by one, from a directory where no attempt
\* was at work and none had failed serves the model of one attempt (the model_loader
\* modules).
THEOREM LoadedModelsAreOfOneAttempt == Spec => []LoadedIsOneAttempt
  <1>1. ServeInv => LoadedIsOneAttempt
    BY DEF ServeInv, ServerSound, LoadedIsOneAttempt
  <1> QED BY <1>1, FilesInvariant, PTL
=============================================================================
