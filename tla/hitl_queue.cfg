CONSTANTS
    Thread = {t1, t2}
    Nobody = Nobody
    Tenant = {x, y}
    Effect <- MCEffect
    Actor = {ana}
    Ttl = {1}
    approval_ttl = 2
    ClockMayStepBack = FALSE
    MaxNow = 1
    MaxCalls = 3
SPECIFICATION Spec
INVARIANTS
    TypeOK
    ChainValid
    DecidedOnce
    NoDecisionAfterExpiry
    AnswersOnRecord
    ListingSound
PROPERTIES
    ImplementsDecisions
    CallsReturn
CHECK_DEADLOCK FALSE
