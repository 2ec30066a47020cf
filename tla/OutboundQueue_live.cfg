SPECIFICATION FairSpec

CONSTANTS
    Rcpts           = {"ann", "bob"}
    Domains         = {"x.org", "y.org"}
    DomainOf        <- OneHost
    MaxItems        = 4
    MaxTempFailures = 2
    Concurrency     = 1
    RcptReplies     = {"250", "4xx"}
    SendReplies     = {"cont", "delay", "stop"}
    DeferReplies    = {"cont"}
    BounceReplies   = {"cont"}
    Faults          = {"rename"}
    Lmtp            = TRUE
    NullSender      = TRUE
    CanDisable      = FALSE
    MaxDelays       = 1
    MaxCrashes      = 1

CHECK_DEADLOCK FALSE

INVARIANTS
    LossInv
PROPERTIES
    EventuallySettled
