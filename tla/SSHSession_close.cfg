SPECIFICATION SSHSpec
CONSTANTS
    Task = {t1, t2}
    Key = {k1}
    MaxConnections = 2
    MaxKeepalive = 1
    KeepaliveTimeout = 1
    ClientsMayDrop = TRUE
    MaxLeases = 4
    NoConn = NoConn
    MaxAttempts = 2
    MaxRequests = 2
INVARIANT
    ClosePoolToo
