--------------------------- MODULE MCChaosRunner ----------------------------
(***************************************************************************)
(* Instances of ChaosRunner for TLC.  A unit of time is 45 seconds: 30 s   *)
(* normal, 90 s fault and 60 s recovery are 1, 2 and 1 units, the load's   *)
(* limit of 90 s is 2 and collect()'s 135 s are 3.                         *)
(***************************************************************************)
EXTENDS ChaosRunner

All == {"pod-kill", "network-delay", "queue-flood", "noisy-neighbour", "drain", "mlflow-down"}
=============================================================================
