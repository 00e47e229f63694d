SPECIFICATION DaemonFairSpec
CONSTANTS
    Lifetimes = {2, 10, 12, 14}
    MaxExpiresIn = 13
    RefreshBefore = 10
    Skew = 2
    RetryDelay = 1
    MaxRetries = 3
    MaxDelay = 20
    MaxLatency = 1
    MaxBlocked = 2
INVARIANTS DaemonTypeOK NeverAbandoned TokenStaysUsable UsableTokenIsAccepted LinkTokenIsAccepted
PROPERTIES LapseIsResolved StartFailsForCause
CHECK_DEADLOCK FALSE
