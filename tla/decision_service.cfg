SPECIFICATION DecisionSpec
CONSTANTS
    grant = grant
    task = task
    Actors = {"agent"}
    Creds = {grant, task}
    Contents <- Signed
    Requests <- SmallAndLarge
    Evidence <- PartOrAll
    Callers = {k1}
    MaxReceipts = 3
    HistoryWindow = 2
INVARIANTS
    DecisionTypeOK
    Repeatable
    ExecuteIsMonotone
    ExecuteMeansLowRisk
PROPERTY
    ExecutesOnLiveGrant
