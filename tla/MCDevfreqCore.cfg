SPECIFICATION Spec
CONSTANTS
    MaxCores = 3
    Top = 0
    Safe = 200
    High = 700
    VoltForHigh = 850
    Rates <- MCRates
    Volts <- MCVolts
    Rounded <- RoundedRate
    Foreign <- NoSlot
    Removable <- NoSlot
    Events <- NoEvents
    MaxUsage = 2
INVARIANTS
    TypeOK
    NoSwitchAtSpeed
    RefsBalanced
    ReportIsTrue
    BoostRefsOnlyWhileBoosted
    HighNeedsVolts
