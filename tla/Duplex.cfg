\* Two pieces in each direction; the system stops when the task is over, or
\* waits for a far end that waits itself.
SPECIFICATION Spec
CONSTANTS
    MaxBytes = 2
INVARIANTS
    TypeOK
    CleanEndIsWhole
PROPERTIES
    EndReachesLocal
    GoneEndsFree
    ImpatientEdgeSuffices
CHECK_DEADLOCK FALSE
