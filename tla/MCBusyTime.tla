----------------------------- MODULE MCBusyTime -----------------------------
(* Values for model-checking BusyTime. *)
EXTENDS BusyTime

TwoCores   == {0, 1}
LateReload == {"late", "reload"}
=============================================================================
