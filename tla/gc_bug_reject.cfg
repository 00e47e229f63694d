SPECIFICATION Spec
CONSTANTS
    Sockets = {s1, s2}
    NoSocket = NoSocket
    Calls = {c1}
    BackoffInitial = 1
    BackoffMax = 2
    SettleMs = 2
    MaxFaults = 0
    MaxRestarts = 1
PROPERTY RejectedByOwnDisconnect
CHECK_DEADLOCK FALSE
