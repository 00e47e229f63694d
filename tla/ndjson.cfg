SPECIFICATION Spec
CONSTANTS
    Lines <- MCLines
    MaxLines = 4
    MaxChunk = 4
    MaxBuffer = 8
INVARIANTS TypeOK ChunksDoNotMatter OnlyLongLinesDestroy
CHECK_DEADLOCK FALSE
