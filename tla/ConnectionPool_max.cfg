SPECIFICATION Spec
CONSTANTS
    Task = {t1, t2}
    Key = {k1}
    MaxConnections = 1
    MaxKeepalive = 1
    KeepaliveTimeout = 1
    ClientsMayDrop = FALSE
    MaxLeases = 3
    NoConn = NoConn
INVARIANT
    InUseWithinMaxConnections
