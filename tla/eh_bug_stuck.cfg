SPECIFICATION Spec
CONSTANTS
    Requests = {r1, r2}
    Executions = {e1}
    MaxRestarts = 0
SYMMETRY Symmetry
INVARIANT StartedMeansInProgress
CHECK_DEADLOCK FALSE
