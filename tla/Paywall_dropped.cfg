SPECIFICATION Spec

CONSTANTS
    Files           = {"f1"}
    Sessions        = {"s1"}
    OpenTimeout     = 1
    PayTimeout      = 2
    MaxTempFailures = 2
    ChargeAnswers   = {"succeeded"}
    Prompt          = TRUE
    MaxTime         = 4
    MaxCrashes      = 0
    MaxWebCrashes   = 0
    MaxPollErrors   = 0
    MaxHookTimeouts = 0
    MaxUpdateErrors = 0

CHECK_DEADLOCK FALSE

INVARIANTS
    PaidIsForwarded
