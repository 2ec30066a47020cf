SPECIFICATION Spec

CONSTANTS
    Rcpts           = {"ann", "bob", "cyd"}
    Domains         = {"x.org", "y.org"}
    DomainOf        <- TwoHosts
    MaxItems        = 4
    MaxTempFailures = 2
    Concurrency     = 1
    RcptReplies     = {"250", "4xx", "5xx"}
    SendReplies     = {"cont", "delay", "stop"}
    DeferReplies    = {"cont", "ok"}
    BounceReplies   = {"cont", "ok"}
    Faults          = {}
    Lmtp            = TRUE
    NullSender      = FALSE
    CanDisable      = TRUE
    MaxDelays       = 1
    MaxCrashes      = 0

CHECK_DEADLOCK FALSE

INVARIANTS
    NoLoss
    RefCounts
    NothingForgotten
    NeverThrows
    AtMostOnce
    BounceIsTrue
