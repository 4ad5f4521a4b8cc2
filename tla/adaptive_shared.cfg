SPECIFICATION AdaptiveSpec
CONSTANTS
    Suppliers = {"NorthParts", "SouthSupply"}
    Qty = 100
    PriceCap = 80
    MaxDays = 7
    MaxRevisions = 1
    Limit = 10000
    Runs = {"r1", "r2"}
    Starts <- SharedStarts
    Cycles <- ByCycle
    Injections <- AllInjections
    MaxEvents = 2
    MaxCycles = 20
INVARIANTS
    AdaptiveTypeOK
    OrderedOnce
    OverdraftIsHandedOver
PROPERTIES
    RevisedPlanIsSound
    ExecutedStepsStand
CHECK_DEADLOCK FALSE
