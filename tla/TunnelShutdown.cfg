\* The smallest tunnel whose shutdown can hang.
SPECIFICATION FairSpec
CONSTANTS
    HA = 1
    MaxDials = 1
    MaxReconnectAttempts = 1
    MaxStreams = 0
PROPERTIES
    SignalStopsEveryReactor
CHECK_DEADLOCK FALSE
