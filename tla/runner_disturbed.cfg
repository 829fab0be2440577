CONSTANTS
    State <- MCState
    Entry <- MCDisturbed
    Terminal <- MCTerminal
    Transitions <- MCTransitions
    Capability <- MCCapability
    NoAction = NoAction
    Effect <- MCEffect
    Enabled <- MCEnabled
    Handled <- MCHandled
    Tenant = tenant
    Actor = {ana}
    Blank = blank
    Path = {p}
    Value = {v1, v2}
    Missing = Missing
    HostData = {v2, Missing}
    max_steps = 4
    approval_ttl = 1
    CallbacksMayRaise = TRUE
    SinkMayRaise = TRUE
    SinkMayEdit = TRUE
    MaxNow = 1
    MaxCalls = 3
SPECIFICATION Spec
INVARIANTS
    TypeOK
    PendingCoherent
    EffectsApproved
    OneDecisionPerCall
    AuditOrdered
    FinalIsLast
PROPERTIES
    GovernedMoves
    ImplementsPromise
CHECK_DEADLOCK FALSE
