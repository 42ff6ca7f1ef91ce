SPECIFICATION MCSpec
CONSTANTS
    MaxAttempts = 3
    InitialDelay = 4
    MaxDelay = 8
    Base = 2
    Jitter = TRUE
    Timeout = 9
    MaxRun = 2
    Error <- MCError
    Retryable <- MCRetryable
    SSHError = "transient"
    MaxUses = 5
    Upid = {"a", "b"}
    BadUpid = {"b"}
    WaitAttempts = 2
    WaitDelay = 1
    WaitTimeout = 3
    Poll = 1
    MaxRequest = 1
    Streamed = "a"
    Limit = 2
    MaxLines = 3
    TransferAttempts = 2
INVARIANTS
    NonRetryableEnds
    BackoffBudget
    OneCommandAtATime
    ResultIsTrue
    WaitBudget
    HelperResultIsTrue
    StreamIsComplete
    StoredIsWhole
    UploadIsStored
PROPERTIES
    ImplementsAttempts
    BlocksAreAttempts
    GatherEnds
    StreamEnds
    TransferEnds
CHECK_DEADLOCK FALSE
