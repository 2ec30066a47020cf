CONSTANTS
    hooks <- HooksIn
    stream <- StreamIn
    timers <- TimersIn
    config <- ConfigIn
    lists <- ListsIn
    checks <- ChecksIn
    p0f <- P0fIn
    scan <- ScanIn
    sender <- SenderIn
    denied <- DeniedIn
    rates <- RatesIn
    signups <- SignupIn
    form <- FormIn
    loader <- LoaderIn
    alone <- AloneIn
    rcpts <- RcptsIn

SPECIFICATION Spec

CHECK_DEADLOCK FALSE

INVARIANTS
    EveryReaderIsTold
