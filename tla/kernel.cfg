CONSTANTS
    Calls <- MCCalls
    Tenant = {"acme", "beta"}
    Canonical <- MCCanonical
    Adapter = {"pi"}
    Earlier <- MCEarlier
    TailLimit = 2
    PipeLines = 1
    MaxLines = 4
    MaxReports = 1
    MaxLives = 2
    Draft <- MCDraft
    HandBuilt <- MCHandBuilt
    Native <- MCNative
    Key <- MCKey
    MaxInstalls = 3
SPECIFICATION KernelSpec
INVARIANTS
    WireOrder
    AnswersMatchRecord
    AccountsAgree
    UsageCoversStreams
    TenantsApart
    WorkflowsResolvable
    ModulesWhole
    RejectionNeeded
PROPERTIES
    SessionsKeepLog
    LinesAreServed
CHECK_DEADLOCK FALSE
