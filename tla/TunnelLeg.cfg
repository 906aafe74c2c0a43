\* One leg and three connections: registered, lost, one reconnect abandoned
\* or refused, one that succeeds. The model stops when the leg is done.
SPECIFICATION Spec
CONSTANTS
    HA = 1
    MaxDials = 3
    MaxReconnectAttempts = 2
    MaxStreams = 1
INVARIANTS
    TypeOK
    LegOwnsItsSession
    NoOrphanDriver
    ReplaceAfterSession
    GiveUpAfterBudget
    ReconnectsCountsSuccesses
    ServingLegIsRegistered
CHECK_DEADLOCK FALSE
