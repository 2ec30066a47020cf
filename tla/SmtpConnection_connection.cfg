SPECIFICATION FairSpec

CONSTANTS
    Commands  = {"HELO", "EHLO", "MAIL", "RCPT", "DATA", "TEXT", "BIG", "MANY", "BARE",
                 "RSET", "NOOP", "VRFY", "QUIT"}
    Async     = {}
    Impatient = TRUE
    MaxLines  = 8
    MaxBuffer = 2

CHECK_DEADLOCK FALSE

INVARIANTS
    RepliesInOrder
    NoStall
    EnvelopeIsAccepted
    QueuedIsTold

PROPERTIES
    ClosedForGood
    EventuallyAnswered
