SPECIFICATION Spec

CONSTANTS
    Rcpts           = {"ann", "bob", "cyd"}
    Domains         = {"x.org", "y.org"}
    DomainOf        <- TwoHosts
    MaxItems        = 4
    MaxTempFailures = 2
    Concurrency     = 1
    RcptReplies     = {"250", "4xx", "5xx"}
    SendReplies     = {"cont"}
    DeferReplies    = {"cont", "denysoft"}
    BounceReplies   = {"cont"}
    Faults          = {"queue", "split", "rename", "bounce"}
    Lmtp            = TRUE
    NullSender      = FALSE
    CanDisable      = FALSE
    MaxDelays       = 0
    MaxCrashes      = 0

CHECK_DEADLOCK FALSE

INVARIANTS
    NoLoss
    DeniedNotSent
