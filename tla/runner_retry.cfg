CONSTANTS
    State <- MCState
    Entry <- MCGoverned
    Terminal <- MCTerminal
    Transitions <- MCTransitions
    Capability <- MCCapability
    NoAction = NoAction
    Effect <- MCEffect
    Enabled <- MCEnabled
    Handled <- MCHandled
    Tenant = tenant
    Actor = {ana}
    Blank = blank
    Path = {p}
    Value = {v1, v2}
    Missing = Missing
    HostData = {v1, v2}
    max_steps = 6
    approval_ttl = 1
    CallbacksMayRaise = TRUE
    SinkMayRaise = FALSE
    SinkMayEdit = FALSE
    MaxNow = 1
    MaxCalls = 3
SPECIFICATION Spec
INVARIANTS
    EffectsAsSealed
CHECK_DEADLOCK FALSE
