--------------------------- MODULE MCModelRegistry ---------------------------
(* Small instances of ModelRegistry for TLC. *)
EXTENDS ModelRegistry, TLC

CONSTANTS m1, m2, m3, s1, s2, p1, p2

MC_TwoModels == {m1, m2}
MC_ThreeModels == {m1, m2, m3}
MC_OneSystem == {s1}
MC_TwoSystems == {s1, s2}
MC_P1 == {p1}
MC_P2 == {p2}
MC_Both == {p1, p2}
MC_None == {}

NameSymmetry == Permutations({m1, m2}) \union Permutations({s1, s2})
=============================================================================
