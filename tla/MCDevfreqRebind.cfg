SPECIFICATION Spec
CONSTANTS
    MaxCores = 2
    Top = 0
    Safe = 200
    High = 700
    VoltForHigh = 850
    Rates <- MCLowRates
    Volts <- OneVolt
    Rounded <- NoSlot
    Foreign <- NoSlot
    Removable <- BothSlots
    Events <- RebindFaults
    MaxUsage = 1
INVARIANTS
    NoSwitchAtSpeed
    UnsafeMeansNoBoost
