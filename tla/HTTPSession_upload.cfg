SPECIFICATION Spec
CONSTANTS
    t1 = t1
    t2 = t2
    Task <- MCTask
    MaxAttempts = 2
    RenewAge = 2
    Timeout = 1
    Lifetime = 4
    MaxClock = 6
    NoToken = NoToken
INVARIANT
    RetrySendsTheFile
