SPECIFICATION TowerSpec
CONSTANTS
    Agents = {"restockbot", "refundbot"}
    MaxApprovalId = 2
    Gathered <- GrantedOrRevoked
    PurchaseVerdicts = {"allow", "deny"}
    MaxEvents = 36
    MaxInterventions = 0
INVARIANTS
    DriftIsContained
