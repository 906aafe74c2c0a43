\* The smallest tunnel whose control stream can be lost on its own.
SPECIFICATION FairSpec
CONSTANTS
    HA = 1
    MaxDials = 1
    MaxReconnectAttempts = 1
    MaxStreams = 0
PROPERTIES
    ControlLossNoticed
CHECK_DEADLOCK FALSE
