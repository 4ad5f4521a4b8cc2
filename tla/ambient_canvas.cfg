SPECIFICATION AmbientSpec
CONSTANTS
    Agents = {"restockbot"}
    MaxApprovalId = 2
    Pollers = {"p1", "p2"}
    Workers = {"w1", "w2"}
    MaxRequests = 2
    MaxSims = 1
    MaxMoves = 2
INVARIANTS
    AmbientTypeOK
    OneActiveCard
    QueueHoldsAgents
PROPERTIES
    AcceptedIsCarriedOut
