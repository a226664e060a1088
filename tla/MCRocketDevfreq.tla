-------------------------- MODULE MCRocketDevfreq --------------------------
(* Values for model-checking RocketDevfreq; the .cfg files pick from them. *)
EXTENDS RocketDevfreq, TLC

\* Rates in MHz and rail voltages in mV, one of each class that the code tells
\* apart: at the safe rate, raised, raised above High; too low for High, enough.
\* A rate the clock settles on instead is raised and in no table.
MCRates     == {200, 600, 1000}
MCLowRates  == {200, 600}
MCVolts     == {800, 850}
OneVolt     == {850}
ForeignRate == {600}
RoundedRate == {550}

Second    == {1}
BothSlots == {0, 1}
NoSlot    == {}
NoEvents  == {}
AllFaults == {"clk_fail", "resume_fail", "sleep", "shutdown"}
CallInRemove == {"call_in_remove"}
RebindFaults == {"resume_fail", "notifier_fail", "init_fail",
                 "call_in_owner_remove"}
=============================================================================
