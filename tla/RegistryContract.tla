--------------------------- MODULE RegistryContract ---------------------------
(***************************************************************************)
(* What the model registry promises its callers when they take turns: for  *)
(* every system one production model, the models it replaced, newest       *)
(* first, and the best few candidates; each call changes one system's      *)
(* entry, in one step, and leaves the other systems alone.                 *)
(***************************************************************************)
EXTENDS Integers, FiniteSets, SequencesExt

CONSTANTS Models, Systems, Ranks, NoModel, MaxCandidates, KeepPrevious

VARIABLES
  production,  \* production model of each system, or NoModel
  previous,    \* models each system had in production, newest first
  candidates   \* set of [model, rank] each system may promote

contractVars == <<production, previous, candidates>>

Init ==
  /\ production = [s \in Systems |-> NoModel]
  /\ previous = [s \in Systems |-> <<>>]
  /\ candidates = [s \in Systems |-> {}]

Others(s, m) == {c \in candidates[s] : c.model # m}

\* m becomes a candidate in place of its older record; when that makes one
\* too many, one of the worst leaves.
Nominate(s, m, r) ==
  /\ LET pool == Others(s, m) \union {[model |-> m, rank |-> r]} IN
     \E worst \in pool :
       /\ \A c \in pool : c.rank >= worst.rank
       /\ candidates' = [candidates EXCEPT ![s] =
            IF Cardinality(pool) <= MaxCandidates THEN pool
            ELSE pool \ {worst}]
  /\ UNCHANGED <<production, previous>>

Archived(m, list, n) ==
  SubSeq(<<m>> \o list, 1, IF Len(list) < n THEN Len(list) + 1 ELSE n)

\* A candidate goes to production and the model it replaces to previous.
Promote(s, m) ==
  /\ \E c \in candidates[s] : c.model = m
  /\ production' = [production EXCEPT ![s] = m]
  /\ previous' = IF production[s] = NoModel THEN previous
                 ELSE [previous EXCEPT ![s] =
                         Archived(production[s], @, KeepPrevious)]
  /\ candidates' = [candidates EXCEPT ![s] = Others(s, m)]

\* The script names a model for production, or for the archive, outright.
Override(s, m) ==
  /\ production' = [production EXCEPT ![s] = m]
  /\ UNCHANGED <<previous, candidates>>

Archive(s, m) ==
  /\ previous' = [previous EXCEPT ![s] = Archived(m, @, MaxCandidates)]
  /\ UNCHANGED <<production, candidates>>

Next ==
  \E s \in Systems, m \in Models :
    \/ \E r \in Ranks : Nominate(s, m, r)
    \/ Promote(s, m)
    \/ Override(s, m)
    \/ Archive(s, m)

Spec == Init /\ [][Next]_contractVars
=============================================================================
