\* Two streams over a pool of one: the second may reuse the first one's
\* socket, fresh, stale or closed, or find the pool full.
SPECIFICATION FairSpec
CONSTANTS
    Tasks = {t1, t2}
    Sockets = {s1, s2}
    NoSocket = NoSocket
    None = None
    Bad = Bad
    IdleTtl = 1
    MaxIdle = 1
    OriginKeepAlive = 1
    MaxUpload = 1
    MaxBody = 2
INVARIANTS
    TypeOK
    PooledSocketsQuiet
PROPERTIES
    ExchangeRefined
    PooledStreamEnds
