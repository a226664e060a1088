SPECIFICATION Spec
CONSTANTS
    Core <- TwoCores
    Mod = 64
    MaxTime = 5
    Events <- LateReload
INVARIANTS
    TypeOK
    ExactLoad
    LoadInRange
    NotBusyForever
