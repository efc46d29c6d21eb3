------------------------------- MODULE Training -------------------------------
(***************************************************************************)
(* The two training scripts, 27_train_anomaly.py and 28_train_rca.py, with  *)
(* run_manifest.py.  An attempt chooses a model, writes the files of its    *)
(* output directory one after the other and, last of all, registers the     *)
(* directory as a candidate.  A directory may be used again, one attempt    *)
(* after the other.                                                         *)
(***************************************************************************)
EXTENDS Integers, FiniteSets, Sequences

CONSTANTS
  Dirs,        \* the model directories
  TaskOf,      \* the task of each of them
  Kinds,       \* the classifiers 27 fits, in their order: "xgb", "lgbm" or "gbrt"
  ModelKinds,  \* the --model-kind that are used
  Scores,      \* the ranking scores
  Epochs,      \* --epochs
  Patience,    \* --patience
  Devices,     \* the devices 28 runs on
  MaxAttempts  \* bound on the attempts

Tasks == {"anomaly", "rca"}

ASSUME DirsAssumption == TaskOf \in [Dirs -> Tasks] /\ "" \notin Dirs
ASSUME FitsAssumption ==
  /\ Kinds \in Seq({"xgb", "lgbm", "gbrt"})
  /\ ModelKinds \subseteq {"auto", "ensemble", "xgb", "lgbm", "gbrt"}
  /\ Scores \subseteq Nat
ASSUME EpochsAssumption ==
  Epochs \in Nat \ {0} /\ Patience \in Nat \ {0} /\ Devices \subseteq {"cpu", "cuda"}
ASSUME AttemptsAssumption == MaxAttempts \in Nat

VARIABLES
  attempts,    \* attempts started so far
  att,         \* each attempt
  content,     \* what the files of each directory hold: the attempt they are of
  candidates   \* the directories registered as candidates, and by which attempt

trainVars == <<attempts, att, content, candidates>>

Attempts == 1 .. MaxAttempts

\* The files of a model directory; of model files only those of the choice are
\* written.
Files == {"metrics", "importance", "imputer", "model", "model_xgb", "model_lgbm", "columns",
          "config", "manifest", "weights", "model_config"}

NoFile == 0
Torn == -1

NoAttempt == [pc |-> "none", dir |-> "", device |-> "", scores |-> <<>>,
              ensemble |-> -1, best |-> 0, kept |-> 0, since |-> 0, models |-> {}, written |-> 0]

Running(a) == att[a].pc \in {"fit", "epochs", "write", "log", "register"}

Of(d) == {a \in Attempts : att[a].dir = d}

\* The record of an attempt that starts in d.
Started(d, device) ==
  [NoAttempt EXCEPT !.pc = IF TaskOf[d] = "rca" THEN "epochs" ELSE "fit",
                    !.dir = d, !.device = device]

Dead(t) == [NoAttempt EXCEPT !.pc = "dead", !.dir = t.dir]

-----------------------------------------------------------------------------
(* 27_train_anomaly.py: the choice of a model *)

Fits == DOMAIN Kinds

\* The candidates of a --model-kind.
Candidates(kind) ==
  {i \in Fits : \/ kind = "auto" \/ kind = Kinds[i]
                \/ kind = "ensemble" /\ Kinds[i] # "gbrt"}

Failed == -1

\* max(..., key=ranking_score): the first one of the highest score.
Best(S, scores) ==
  CHOOSE i \in S : \A j \in S : scores[j] < scores[i] \/ (scores[j] = scores[i] /\ i <= j)

\* compute_metrics, best_threshold and ranking_score, for every candidate fitted.
ScoresOf(kind) == [Candidates(kind) -> Scores \union {Failed}]

OfKind(fitted, kind) == {i \in fitted : Kinds[i] = kind}

\* Fault: the ensemble replaces the best model whatever its score.
Chosen_EnsembleAlways(kind, fitted, scores, ensemble) ==
  LET x == OfKind(fitted, "xgb")
      l == OfKind(fitted, "lgbm")
  IN IF kind \in {"auto", "ensemble"} /\ x # {} /\ l # {}
     THEN {Best(x, scores), Best(l, scores)}
     ELSE {Best(fitted, scores)}

\* The models that are saved: the best one, or the best of both kinds when the
\* mean of their probabilities does not score less.
Chosen(kind, fitted, scores, ensemble) ==
  LET x == OfKind(fitted, "xgb")
      l == OfKind(fitted, "lgbm")
      one == Best(fitted, scores)
  IN IF kind \in {"auto", "ensemble"} /\ x # {} /\ l # {} /\ ensemble >= scores[one]
     THEN {Best(x, scores), Best(l, scores)}
     ELSE {one}

StartAnomaly(d) ==
  /\ attempts < MaxAttempts /\ TaskOf[d] = "anomaly"
  /\ attempts' = attempts + 1
  /\ att' = [att EXCEPT ![attempts + 1] = Started(d, "")]
  /\ UNCHANGED <<content, candidates>>

\* The fits: each may raise, which is noted.  When the validation runs hold one
\* class only, average_precision is NaN and so is every score: max keeps the first
\* model, and the ensemble does not compare.
FitCandidates(a) ==
  /\ att[a].pc = "fit"
  /\ \E kind \in ModelKinds :
     \E scores \in ScoresOf(kind), ensemble \in Scores \union {Failed} :
       LET fitted == {i \in Candidates(kind) : scores[i] # Failed} IN
       /\ ensemble = Failed => \A i, j \in fitted : scores[i] = scores[j]
       /\ att' = [att EXCEPT ![a] =
            IF fitted = {} THEN Dead(@)
            ELSE [@ EXCEPT !.pc = "write", !.scores = scores, !.ensemble = ensemble,
                           !.models = Chosen(kind, fitted, scores, ensemble)]]
  /\ UNCHANGED <<attempts, content, candidates>>

-----------------------------------------------------------------------------
(* 28_train_rca.py: the epochs *)

StartRca(d) ==
  /\ attempts < MaxAttempts /\ TaskOf[d] = "rca"
  /\ attempts' = attempts + 1
  /\ \E device \in Devices : att' = [att EXCEPT ![attempts + 1] = Started(d, device)]
  /\ UNCHANGED <<content, candidates>>

\* best_ranking, -1 before the first epoch.
BestScore(t) == IF t.best = 0 THEN -1 ELSE t.scores[t.best]

\* Fault: the count of epochs without improvement is not reset.
Epoch_NoReset(t, s) ==
  LET n == Len(t.scores) + 1 IN
  IF s > BestScore(t)
  THEN [t EXCEPT !.scores = Append(@, s), !.best = n, !.kept = n]
  ELSE [t EXCEPT !.scores = Append(@, s), !.since = @ + 1]

\* The parameters after one epoch, whose validation scores s, and what is kept of
\* them: their number when that is higher than every score before.
Epoch(t, s) ==
  LET n == Len(t.scores) + 1 IN
  IF s > BestScore(t)
  THEN [t EXCEPT !.scores = Append(@, s), !.best = n, !.kept = n, !.since = 0]
  ELSE [t EXCEPT !.scores = Append(@, s), !.since = @ + 1]

\* .detach().cpu() copies the parameters of another device; on the CPU best_state
\* is the parameters themselves, whatever they become.
Aliased(t) == IF t.device = "cpu" THEN [t EXCEPT !.kept = Len(t.scores)] ELSE t

\* Fault: one epoch too many.
TrainEpoch_OneMore(a) ==
  /\ att[a].pc = "epochs"
  /\ \E s \in Scores :
       LET t == Aliased(Epoch(att[a], s)) IN
       att' = [att EXCEPT ![a] =
         IF t.since >= Patience \/ Len(t.scores) > Epochs THEN [t EXCEPT !.pc = "write"] ELSE t]
  /\ UNCHANGED <<attempts, content, candidates>>

TrainEpoch(a) ==
  /\ att[a].pc = "epochs"
  /\ \E s \in Scores :
       LET t == Aliased(Epoch(att[a], s)) IN
       att' = [att EXCEPT ![a] =
         IF t.since >= Patience \/ Len(t.scores) = Epochs THEN [t EXCEPT !.pc = "write"] ELSE t]
  /\ UNCHANGED <<attempts, content, candidates>>

-----------------------------------------------------------------------------
(* The files *)

\* The files an attempt writes, in the order of the code.
Plan(a) ==
  IF TaskOf[att[a].dir] = "rca"
  THEN <<"weights", "metrics", "model_config", "config", "manifest">>
  ELSE <<"metrics", "importance", "imputer">>
       \o (IF Cardinality(att[a].models) = 2 THEN <<"model_xgb", "model_lgbm">> ELSE <<"model">>)
       \o <<"columns", "config", "manifest">>

NextFile(a) == Plan(a)[att[a].written + 1]

\* Fault: an imputer that is there is used again.
Put_KeepsImputer(d, f, a) ==
  content' = [content EXCEPT ![d][f] = IF f = "imputer" /\ @ # NoFile THEN @ ELSE a]

Put(d, f, a) == content' = [content EXCEPT ![d][f] = a]

\* An attempt whose scores are in metrics.json, or lost with it.
Scored(t) == [NoAttempt EXCEPT !.pc = t.pc, !.dir = t.dir,
                              !.models = t.models, !.written = t.written]

WriteFile(a) ==
  /\ att[a].pc = "write"
  /\ Put(att[a].dir, NextFile(a), a)
  /\ LET t == IF NextFile(a) = "metrics" THEN Scored(att[a]) ELSE att[a] IN
     att' = [att EXCEPT ![a] =
       [t EXCEPT !.written = @ + 1, !.pc = IF t.written + 1 = Len(Plan(a)) THEN "log" ELSE @]]
  /\ UNCHANGED <<attempts, candidates>>

\* MLflow, when it is on, gets the files; the manifest is then written again, with
\* what MLflow answered, and is as before to those who read the model.
LogRun(a) ==
  /\ att[a].pc = "log"
  /\ att' = [att EXCEPT ![a].pc = "register"]
  /\ UNCHANGED <<attempts, content, candidates>>

\* set_stage(..., "candidate", output_dir.name): see ModelRegistry.
Register(a) ==
  /\ att[a].pc = "register"
  /\ candidates' = [candidates EXCEPT ![att[a].dir] = a]
  /\ att' = [att EXCEPT ![a].pc = "done"]
  /\ UNCHANGED <<attempts, content>>

\* The script raises (no training graphs, a library missing, MLflow not there) or
\* is killed; the file it was writing may be cut short.
Die(a) ==
  /\ Running(a)
  /\ att' = [att EXCEPT ![a] = Dead(@)]
  /\ \/ UNCHANGED content
     \/ att[a].pc = "write" /\ content' = [content EXCEPT ![att[a].dir][NextFile(a)] = Torn]
  /\ UNCHANGED <<attempts, candidates>>

TrainInit ==
  /\ attempts = 0
  /\ att = [a \in Attempts |-> NoAttempt]
  /\ content = [d \in Dirs |-> [f \in Files |-> NoFile]]
  /\ candidates = [d \in Dirs |-> 0]

TrainStep(a) ==
  FitCandidates(a) \/ TrainEpoch(a) \/ WriteFile(a) \/ LogRun(a) \/ Register(a)
=============================================================================
