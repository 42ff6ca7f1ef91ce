SPECIFICATION SSHFairSpec
CONSTANTS
    Task = {t1, t2}
    Key = {k1}
    MaxConnections = 3
    MaxKeepalive = 1
    KeepaliveTimeout = 1
    ClientsMayDrop = TRUE
    MaxLeases = 4
    NoConn = NoConn
    MaxAttempts = 2
    MaxRequests = 2
INVARIANTS
    CloseSettlesPool
PROPERTIES
    RequestsReturn
    UsesPool
