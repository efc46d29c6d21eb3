---------------------------- MODULE MCLiveAnalysis ----------------------------
(* Small instances of LiveAnalysis for TLC. *)
EXTENDS LiveAnalysis, TLC

CONSTANTS o1, e1, e2, s1, s2, s3

MC_NoActors == {}
MC_OneOperator == {o1}
MC_OneAnalysis == {e1}
MC_TwoAnalyses == {e1, e2}
MC_FirstService == {s1}
MC_TwoServices == {s1, s2}
MC_ThreeServices == {s1, s2, s3}

\* s1 and s2 are tuned, s3 is not.
MC_ActionOf ==
  [s \in Services |-> CASE s = s1 -> "scale_service"
                        [] s = s2 -> "rollback_deployment"
                        [] s = s3 -> "alert"]

AnalysisSymmetry == Permutations(Executors)
=============================================================================
