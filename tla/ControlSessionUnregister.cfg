\* The promise of shutdown_graceful that the driver does not keep.
SPECIFICATION SessionSpec
CONSTANTS
    HA = 1
    MaxDials = 1
PROPERTIES
    UnregisterIsSent
CHECK_DEADLOCK FALSE
