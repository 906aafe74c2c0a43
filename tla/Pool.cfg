\* Three tasks over a pool of two: overflow, hits, misses and stale entries.
CONSTANTS
    Tasks = {t1, t2, t3}
    Sockets = {s1, s2, s3, s4, s5}
    NoSocket = NoSocket
    IdleTtl = 1
    MaxIdle = 2
    OriginKeepAlive = 3
SPECIFICATION PoolSpec
SYMMETRY Symmetry
INVARIANTS
    PoolTypeOK
PROPERTIES
    FreshNeverWasted
