\* One stream is enough.
SPECIFICATION ServingSpec
CONSTANTS
    Tasks = {t1}
    Sockets = {s1}
    NoSocket = NoSocket
    None = None
    Bad = Bad
    IdleTtl = 1
    MaxIdle = 1
    OriginKeepAlive = 1
    MaxUpload = 1
    MaxBody = 1
PROPERTIES
    StreamCompletes
