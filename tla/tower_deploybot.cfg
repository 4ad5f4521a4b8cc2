SPECIFICATION TowerSpec
CONSTANTS
    Agents = {"deploybot"}
    MaxApprovalId = 2
    Gathered <- AnyFacts
    PurchaseVerdicts = {"allow"}
    MaxEvents = 26
    MaxInterventions = 3
INVARIANTS
    TowerTypeOK
    QueueHoldsAgents
    DriftIsContained
    TrailTellsControl
    ItemSettledOnce
    UnticketedNeverDeploys
PROPERTIES
    GateKeepsLeash
    KilledIsTerminal
    VerdictIsFinal
