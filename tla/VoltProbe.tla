----------------------------- MODULE VoltProbe ------------------------------
(***************************************************************************)
(* The voltage module (npu/volt/npu_volt_probe.c): it raises the NPU rail  *)
(* to its parameter uv, reads it back, and puts the old value back when it *)
(* goes or when the read-back fails.  Voltages are in mV.                  *)
(***************************************************************************)
EXTENDS Integers

CONSTANTS
    Found,         \* the rail as the firmware left it
    Floor,         \* VOLT_FLOOR
    Cap,           \* VOLT_CAP
    Steps          \* the voltages the regulator can make exactly

VARIABLES
    rail,          \* what regulator_get_voltage reads
    volt,          \* the module: out, check (written, not read back yet), in
    uv,            \* its parameter
    origUv,        \* orig_uv
    stuck          \* history: the rail could not be put back

voltVars == <<rail, volt, uv, origUv, stuck>>

Init == rail = Found /\ volt = "out" /\ uv = 0 /\ origUv = Found /\ stuck = FALSE

\* regulator_set_voltage(orig_uv, orig_uv); its result is only printed.
Restore == \/ rail' = origUv /\ UNCHANGED stuck
           \/ rail # origUv /\ stuck' = TRUE /\ UNCHANGED rail

\* A load that is refused or fails before it writes changes nothing.
\* Read-only without a parameter.
LoadReads ==
    /\ volt = "out"
    /\ volt' = "in" /\ uv' = 0 /\ origUv' = rail
    /\ UNCHANGED <<rail, stuck>>

\* Within the limits, never down, and to exactly uv or not at all.
Allowed(u) == Floor <= u /\ u <= Cap /\ rail <= u
LoadSets(u) ==
    /\ volt = "out" /\ Allowed(u) /\ u \in Steps
    /\ rail' = u /\ volt' = "check" /\ uv' = u /\ origUv' = rail
    /\ UNCHANGED stuck

\* The read-back; if it fails the rail goes back and the module does not load.
ReadBack_NoRestore ==
    /\ volt = "check" /\ volt' \in {"in", "out"}
    /\ UNCHANGED <<rail, stuck, uv, origUv>>
ReadBack ==
    /\ volt = "check"
    /\ \/ rail <= Cap /\ volt' = "in" /\ UNCHANGED <<rail, stuck>>
       \/ volt' = "out" /\ Restore
    /\ UNCHANGED <<uv, origUv>>

\* npu_volt_probe_exit
Unload ==
    /\ volt = "in" /\ volt' = "out"
    /\ IF uv # 0 THEN Restore ELSE UNCHANGED <<rail, stuck>>
    /\ UNCHANGED <<uv, origUv>>
=============================================================================
