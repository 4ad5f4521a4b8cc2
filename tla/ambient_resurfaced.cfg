SPECIFICATION AmbientSpec
CONSTANTS
    Agents = {"restockbot"}
    MaxApprovalId = 2
    Pollers = {"p1"}
    Workers = {"w1"}
    MaxRequests = 2
    MaxSims = 1
    MaxMoves = 2
PROPERTIES
    RuledCardsStand
