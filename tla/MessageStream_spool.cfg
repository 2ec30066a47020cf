SPECIFICATION Spec

CONSTANTS
    MaxChunks  = 3
    SpoolAfter = {2}
    MaxPipes   = 2

CHECK_DEADLOCK FALSE

INVARIANTS
    WholeMessage
