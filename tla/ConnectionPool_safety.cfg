SPECIFICATION Spec
CONSTANTS
    Task = {t1, t2}
    Key = {k1}
    MaxConnections = 1
    MaxKeepalive = 1
    KeepaliveTimeout = 1
    ClientsMayDrop = TRUE
    MaxLeases = 3
    NoConn = NoConn
SYMMETRY TaskSymmetry
INVARIANTS
    TypeOK
    KeepaliveBound
    SingleOwner
    PermitAccounting
    ClosedStaysEmpty
    NoOrphans
    StatsNeverOvercount
PROPERTY
    ImplementsLeases
