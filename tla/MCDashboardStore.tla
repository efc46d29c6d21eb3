--------------------------- MODULE MCDashboardStore ---------------------------
(* Small instances of DashboardStore for TLC. *)
EXTENDS DashboardStore, TLC

CONSTANTS r1, r2, r3

MC_OneRequest == {r1}
MC_TwoRequests == {r1, r2}
MC_ThreeRequests == {r1, r2, r3}

RequestSymmetry == Permutations(Requests)
=============================================================================
