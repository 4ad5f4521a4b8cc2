SPECIFICATION AdaptiveSpec
CONSTANTS
    Suppliers = {"NorthParts", "SouthSupply"}
    Qty = 100
    PriceCap = 80
    MaxDays = 7
    MaxRevisions = 1
    Limit = 10000
    Runs = {"r1"}
    Starts <- SoloStarts
    Cycles <- ToEnd
    Injections <- AllInjections
    MaxEvents = 1
    MaxCycles = 20
INVARIANT ConfirmsWhatWasOrdered
CHECK_DEADLOCK FALSE
