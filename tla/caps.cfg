SPECIFICATION FairSpec
CONSTANTS
    Calls = {c1, c2}
    NoRequest = NoRequest
    a = a
    b = b
    secret = secret
    root = root
    sub = sub
    dist = dist
    Texts = {"old", "new"}
    Files <- MCFiles
    Dirs <- MCDirs
    Above <- MCAbove
    InitialDisks <- MCDisks
    Requests <- MCRequests
    Excluded = {dist}
    Denied = {secret}
    MaxResults = 2
    MaxHits = 3
    MaxSessions = 2
INVARIANTS TypeOK OneAnswer AckedWriteIsOnDisk FetchCoversQuietFiles CutsAreTold
PROPERTY EveryCallAnswered
CHECK_DEADLOCK FALSE
