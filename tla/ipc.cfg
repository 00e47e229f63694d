SPECIFICATION FairSpec
CONSTANTS
    Clients = {c1, c2}
    NoClient = NoClient
    Executes = {x1}
    Statuses = {y1}
    MaxEvents = 2
INVARIANTS TypeOK LatestLosesNothing
PROPERTIES ExecutionStreamSpec VerdictIsFinal EveryCallEnds
CHECK_DEADLOCK FALSE
CONSTRAINT OneClientExecutes
