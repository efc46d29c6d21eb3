---------------------------- MODULE MCDatasetBuild ----------------------------
(* A small instance of DatasetBuild for TLC. *)
EXTENDS DatasetBuild, TLC

CONSTANTS r1, r2, n1, fe

MC_Runs == {r1, r2, n1}
MC_Extended == {n1}
MC_Services == {fe}
MC_FaultRows ==
  {<<"none", None>>} \union
  ({"pod-kill", "replica-drop", "cpu-stress", "latency-injection", "http-500"} \X {fe})
MC_Coverages == {{}, Moments \ {"active"}, Moments}
MC_SplitTag == [r \in MC_Runs |-> ""]

\* The runs of the metadata file are interchangeable.
MC_Symmetry == Permutations({r1, r2})
=============================================================================
