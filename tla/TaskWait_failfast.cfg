SPECIFICATION WaitSpec
CONSTANTS
    MaxAttempts = 2
    InitialDelay = 1
    MaxDelay = 2
    Base = 2
    Jitter = FALSE
    Error = {"transient"}
    Retryable = {"transient"}
    Upid = {"a", "b"}
    BadUpid = {}
    WaitAttempts = 2
    WaitDelay = 1
    WaitTimeout = 3
    Poll = 1
    MaxRequest = 1
PROPERTY
    FailFastCancels
CHECK_DEADLOCK FALSE
