SPECIFICATION FairSpec

CONSTANTS
    Files           = {"f1"}
    Sessions        = {"s1"}
    OpenTimeout     = 1
    PayTimeout      = 2
    MaxTempFailures = 2
    ChargeAnswers   = {"succeeded", "pending", "declined", "lost"}
    Prompt          = FALSE
    MaxTime         = 4
    MaxCrashes      = 1
    MaxWebCrashes   = 1
    MaxPollErrors   = 1
    MaxHookTimeouts = 1
    MaxUpdateErrors = 1

CHECK_DEADLOCK FALSE

INVARIANTS
    UnpaidNotSent
    ChargedOnce
    FailNoticeIsTrue
PROPERTIES
    EventuallyDecided
