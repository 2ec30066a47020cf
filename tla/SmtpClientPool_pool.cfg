SPECIFICATION Spec

CONSTANTS
    Conns        = {a, b}
    Plugins      = {"forward", "forward_each", "proxy"}
    NRcpt        = 2
    MaxAsked     = 2
    MaxTx        = 2
    Sizes        = {1, 2}
    MaxClients   = 3
    Caps         = {"XCLIENT"}
    Auth         = FALSE
    SlowUpstream = FALSE

SYMMETRY Symmetry

CHECK_DEADLOCK FALSE

INVARIANTS
    InStep
    OneEnvelope
    TellsTruth

PROPERTY
    KeepsHooks
