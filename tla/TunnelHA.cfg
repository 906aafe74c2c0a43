\* Two legs sharing one shutdown signal, each with one connection and one
\* retry. The model stops when both legs are done.
SPECIFICATION FairSpec
CONSTANTS
    HA = 2
    MaxDials = 1
    MaxReconnectAttempts = 1
    MaxStreams = 0
INVARIANTS
    ClosedMeansFinished
    ReplaceAfterSession
    GiveUpAfterBudget
    ReconnectsCountsSuccesses
PROPERTIES
    ShutdownReturnsIfHeard
CHECK_DEADLOCK FALSE
