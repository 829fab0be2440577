CONSTANTS
    Thread = {t1, t2}
    Nobody = Nobody
    Tenant = {x}
    Effect <- MCEffect
    Actor = {ana}
    Ttl = {1}
    approval_ttl = 2
    ClockMayStepBack = TRUE
    MaxNow = 1
    MaxCalls = 3
SPECIFICATION Spec
INVARIANTS
    NoDecisionAfterExpiry
CHECK_DEADLOCK FALSE
