SPECIFICATION Spec
CONSTANTS
    MaxCores = 3
    Top = 0
    Safe = 200
    High = 700
    VoltForHigh = 850
    Rates <- MCLowRates
    Volts <- OneVolt
    Rounded <- RoundedRate
    Foreign <- NoSlot
    Removable <- NoSlot
    Events <- AllFaults
    MaxUsage = 1
INVARIANTS
    RefsSuffice
PROPERTIES
    GateSpec
