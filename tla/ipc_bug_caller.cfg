SPECIFICATION Spec
CONSTANTS
    Clients = {c1, c2}
    NoClient = NoClient
    Executes = {x1}
    Statuses = {y1}
    MaxEvents = 1
SYMMETRY Symmetry
INVARIANT RepliesReachTheirCaller
CHECK_DEADLOCK FALSE
