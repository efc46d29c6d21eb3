---------------------------- MODULE MCRetraining ----------------------------
EXTENDS Retraining

CONSTANTS a1, r1, w1

MC_TaskOf == [d \in Dirs |-> IF d = r1 THEN "rca" ELSE "anomaly"]
MC_Kinds == <<"xgb", "lgbm">>
MC_FlowDir == [w \in Flows |-> [t \in Tasks |-> IF t = "rca" THEN r1 ELSE a1]]
=============================================================================
