----------------------------- MODULE MCNpuBoot ------------------------------
(* Values for model-checking NpuBoot with RocketDrv and VoltProbe.         *)
EXTENDS NpuBoot, TLC

CONSTANTS d1, d2, d3, f1

ThreeDevs == {d1, d2, d3}
OneFile  == {f1}
NoEvents == {}
\* MHz and mV; the regulator cannot make 825 exactly.
MCRates  == {200, 600, 1000}
MCSteps  == {800, 850, 950}
MCByHand == {825, 950, 1000}
=============================================================================
