----------------------------- MODULE ClockGate -----------------------------
(***************************************************************************)
(* What the devfreq layer promises the hardware, with no locks, references *)
(* or notifiers: the shared NPU clock is above its boot rate only while    *)
(* every power domain is on, and a domain is switched only at the boot     *)
(* rate (rocket_devfreq.c:3-24).                                           *)
(***************************************************************************)
EXTENDS Naturals

CONSTANTS Core, Safe, rates
VARIABLES rate, dom

Init == rate = Safe /\ dom = [c \in Core |-> "off"]

\* The clock moves up only with all domains on.
Raise == /\ \A c \in Core : dom[c] = "on"
         /\ rate' \in rates /\ UNCHANGED dom

Lower == rate' = Safe /\ UNCHANGED dom

\* A switch begins at the boot rate, if need be by going there.
Begin(c) == /\ rate' = Safe
            /\ \/ dom[c] = "off" /\ dom' = [dom EXCEPT ![c] = "pre_on"]
               \/ dom[c] = "on"  /\ dom' = [dom EXCEPT ![c] = "pre_off"]

Finish(c) == /\ rate = Safe /\ UNCHANGED rate
             /\ \/ dom[c] = "pre_on"  /\ dom' = [dom EXCEPT ![c] = "on"]
                \/ dom[c] = "pre_off" /\ dom' = [dom EXCEPT ![c] = "off"]

Next == Raise \/ Lower \/ \E c \in Core : Begin(c) \/ Finish(c)

Spec == Init /\ [][Next]_<<rate, dom>>

\* Whenever the clock is raised every domain is on and stays on: the state in
\* which "there is no transition and so no chance of the failure"
\* (rocket_devfreq.c:21-22).
AllOnAtSpeed == rate # Safe => \A c \in Core : dom[c] = "on"
=============================================================================
