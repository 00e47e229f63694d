SPECIFICATION Spec
CONSTANTS
    Lifetimes = {12, 60}
    MaxExpiresIn = 100
    RefreshBefore = 10
    Skew = 2
    RetryDelay = 1
    MaxRetries = 3
    MaxDelay = 20
    MaxLatency = 1
PROPERTY RefreshIsTimely
CHECK_DEADLOCK FALSE
