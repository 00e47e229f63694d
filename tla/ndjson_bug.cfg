SPECIFICATION Spec
CONSTANTS
    Lines <- MCLines
    MaxLines = 4
    MaxChunk = 4
    MaxBuffer = 8
INVARIANT EmitsWhatWasSent
CHECK_DEADLOCK FALSE
