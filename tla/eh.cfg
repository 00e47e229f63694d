SPECIFICATION FairSpec
CONSTANTS
    Requests = {r1, r2, r3}
    Executions = {e1}
    MaxRestarts = 1
INVARIANTS TypeOK OneJournalledOwner TimeoutCoversRun
PROPERTIES AtMostOncePerTtl ReplayIsFaithful EveryRequestSettles
CHECK_DEADLOCK FALSE
