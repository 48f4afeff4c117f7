---------------------------- MODULE MCServicePods ----------------------------
(* Instances of ServicePods for TLC. *)
EXTENDS ServicePods

(* A warm sidecar, the first-dial reset the code names, and one that takes *)
(* longer than every attempt.                                              *)
MCWarmUps == {0, 10, 20}
=============================================================================
