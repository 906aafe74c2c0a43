\* One leg with a reconnect, two attempts per loss and a proxied stream.
\* The model stops when the leg is done.
SPECIFICATION FairSpec
CONSTANTS
    HA = 1
    MaxDials = 2
    MaxReconnectAttempts = 2
    MaxStreams = 1
PROPERTIES
    HeardSignalIsFinal
    HeardSignalStops
    LostLegSettles
    GoneLegLeavesNothing
    ReleasedConnectionForgotten
CHECK_DEADLOCK FALSE
