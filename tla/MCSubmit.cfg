SPECIFICATION Spec
CONSTANTS
    t1 = t1
    t2 = t2
    b1 = b1
    b2 = b2
    j1 = j1
    j2 = j2
    None = None
    Threads <- TwoThreads
    BOs <- TwoBOs
    Jobs <- TwoJobs
    Events <- AllEvents
SYMMETRY Alike
INVARIANTS
    TypeOK
    JobServed
    SubmitterSafe
    PrepSeesWrites
    AllReleased
    LivesAsHeld
