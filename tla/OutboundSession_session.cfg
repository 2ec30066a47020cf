SPECIFICATION FairSpec

CONSTANTS
    Rcpts        <- TwoRcpts
    Mxs          <- AllMxs
    RcptReplies  = {"250", "4xx", "5xx"}
    OtherReplies = {"2xx", "4xx", "5xx", "bad"}
    EnableTls    = TRUE
    OpenEnded    = FALSE

CHECK_DEADLOCK FALSE

INVARIANTS
    OneOwner
    EveryRecipientReported
    SmtpReportIsTrue
PROPERTIES
    ImplementsAttempt
    EventuallyOver
