SPECIFICATION AdaptiveSpec
CONSTANTS
    Suppliers = {"NorthParts", "SouthSupply"}
    Qty = 100
    PriceCap = 80
    MaxDays = 7
    MaxRevisions = 2
    Limit = 10000
    Runs = {"r1"}
    Starts <- SoloStarts
    Cycles <- ToEnd
    Injections <- PriceInjections
    MaxEvents = 3
    MaxCycles = 20
INVARIANTS
    AdaptationIsContained
PROPERTIES
    RunToEndEndsTheRun
CHECK_DEADLOCK FALSE
