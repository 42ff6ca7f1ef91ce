SPECIFICATION FairSpec
CONSTANTS
    Task = {t1, t2}
    Key = {k1}
    MaxConnections = 1
    MaxKeepalive = 2
    KeepaliveTimeout = 1
    ClientsMayDrop = FALSE
    MaxLeases = 2
    NoConn = NoConn
PROPERTIES
    ListSteps
    CallsReturn
    StaleIsRemoved
