SPECIFICATION FairSpec
CONSTANTS
    Sockets = {s1, s2, s3}
    NoSocket = NoSocket
    Calls = {c1}
    BackoffInitial = 1
    BackoffMax = 2
    SettleMs = 2
    MaxFaults = 2
    MaxRestarts = 1
INVARIANTS TypeOK NeverStranded PendingCallIsCarried CallBookkeeping StoppedNeverReconnects
    SingleConnection ConnectionIsWatched
PROPERTIES AdapterRpcSpec CallsSettle Recovers
CHECK_DEADLOCK FALSE
