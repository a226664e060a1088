--------------------------- MODULE MCRocketSubmit ---------------------------
EXTENDS RocketSubmit, TLC

CONSTANTS t1, t2, b1, b2, j1, j2

TwoThreads == {t1, t2}
TwoBOs     == {b1, b2}
TwoJobs    == {j1, j2}
AllEvents  == EventKinds
HandleFail == {"handle_fail"}

\* Threads, buffers and jobs are alike, each among its own.
Alike == Permutations(TwoThreads) \cup Permutations(TwoBOs) \cup Permutations(TwoJobs)
=============================================================================
