----------------------------- MODULE MCRocketJob ----------------------------
(* Values for model-checking RocketJob. *)
EXTENDS RocketJob, TLC

CONSTANTS j1, j2, j3
TwoJobs   == {j1, j2}
ThreeJobs == {j1, j2, j3}
JobSymmetry == Permutations(ThreeJobs)

NoEvents  == {}
Timeouts  == {"timeout", "nomem"}
SlowIrq   == {"timeout", "slow_thread"}
AllEvents == EventKinds
=============================================================================
