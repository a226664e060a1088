SPECIFICATION FairSpec
CONSTANTS
    j1 = j1
    j2 = j2
    j3 = j3
    None = None
    Jobs <- TwoJobs
    TaskCount = 2
    Events <- AllEvents
CHECK_DEADLOCK FALSE
INVARIANTS
    TypeOK
    InFlightServed
    IdleMeansNoJob
PROPERTIES
    OneOutcome
    EveryJobEnds
