CONSTANTS
    State <- MCState
    Entry <- MCEntry
    Terminal <- MCTerminal
    Transitions <- MCTransitions
    Capability <- MCCapability
    NoAction = NoAction
    Effect <- MCEffect
    Enabled <- MCEnabled
    Handled <- MCHandled
    Tenant = tenant
    Actor = {ana, blank}
    Blank = blank
    Path = {p}
    Value = {v1, v2}
    Missing = Missing
    HostData = {v1, v2}
    max_steps = 6
    approval_ttl = 1
    CallbacksMayRaise = FALSE
    SinkMayRaise = FALSE
    SinkMayEdit = FALSE
    MaxNow = 1
    MaxCalls = 3
SPECIFICATION FairSpec
INVARIANTS
    EffectsAsSealed
    EffectOncePerApproval
    RejectionIsFinal
    AuditComplete
    BudgetCharged
PROPERTIES
    RunReturns
CHECK_DEADLOCK FALSE
