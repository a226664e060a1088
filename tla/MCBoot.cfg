SPECIFICATION Spec
CONSTANTS
    d1 = d1
    d2 = d2
    d3 = d3
    f1 = f1
    None = None
    Devs <- ThreeDevs
    Files <- OneFile
    Events <- NoEvents
    Found = 800
    Floor = 800
    Cap = 950
    Steps <- MCSteps
    Uv = 850
    ByHand <- MCByHand
    Safe = 200
    High = 700
    VoltForHigh = 850
    Rates <- MCRates
INVARIANTS
    TypeOK
    HighNeedsVolts
    DriverLeft
    RailRestored
    SlotsRight
    NothingLeft
    FilesServed
