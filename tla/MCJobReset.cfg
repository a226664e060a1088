SPECIFICATION Spec
CONSTANTS
    j1 = j1
    j2 = j2
    j3 = j3
    None = None
    Jobs <- ThreeJobs
    TaskCount = 2
    Events <- Timeouts
CHECK_DEADLOCK FALSE
SYMMETRY JobSymmetry
INVARIANTS
    CompletedRan
    UsageBalanced
    HwHasItsDomain
PROPERTIES
    
    PromiseSpec
