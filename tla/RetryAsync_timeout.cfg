SPECIFICATION Spec
CONSTANTS
    MaxAttempts = 3
    InitialDelay = 4
    MaxDelay = 8
    Base = 2
    Jitter = TRUE
    Timeout = 9
    MaxRun = 2
    Error <- MCError
    Retryable <- MCRetryable
INVARIANT
    OverallTimeout
CHECK_DEADLOCK FALSE
