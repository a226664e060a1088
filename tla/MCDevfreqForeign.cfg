SPECIFICATION FairSpec
CONSTANTS
    MaxCores = 3
    Top = 0
    Safe = 200
    High = 700
    VoltForHigh = 850
    Rates <- MCLowRates
    Volts <- OneVolt
    Rounded <- RoundedRate
    Foreign <- ForeignRate
    Removable <- NoSlot
    Events <- NoEvents
    MaxUsage = 2
INVARIANTS
    NoSwitchAtSpeed
PROPERTIES
    HonestAnswer
    TargetReturns
