------------------------------ MODULE MCRecovery ------------------------------
(* Small instances of Recovery for TLC. *)
EXTENDS Recovery, TLC

CONSTANTS o1, o2, e1, e2, s1, s2

MC_NoActors == {}
MC_TwoOperators == {o1, o2}
MC_OneOperator == {o1}
MC_OneExecutor == {e1}
MC_TwoExecutors == {e1, e2}
MC_OneService == {s1}
MC_TwoServices == {s1, s2}

ActorSymmetry == Permutations(Operators) \union Permutations(Executors)
=============================================================================
