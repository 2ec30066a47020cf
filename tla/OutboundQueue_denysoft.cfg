SPECIFICATION Spec

CONSTANTS
    Rcpts           = {"ann", "bob"}
    Domains         = {"x.org", "y.org"}
    DomainOf        <- OneHost
    MaxItems        = 3
    MaxTempFailures = 2
    Concurrency     = 1
    RcptReplies     = {"250", "4xx", "5xx"}
    SendReplies     = {"cont"}
    DeferReplies    = {"cont", "denysoft"}
    BounceReplies   = {"cont"}
    Faults          = {}
    Lmtp            = FALSE
    NullSender      = FALSE
    CanDisable      = FALSE
    MaxDelays       = 0
    MaxCrashes      = 0

CHECK_DEADLOCK FALSE

INVARIANTS
    NothingForgotten
