\* Two callers, an edge pair and an IPv6 edge of which two are dialled.
SPECIFICATION Spec
CONSTANTS
    Callers = {c1, c2}
    Edges = {a, b, v}
    V6 = {v}
    Up = {b}
    None = None
    MaxRetries = 3
    DialCap = 2
    Ttl = 2
    MaxLag = 1
INVARIANTS
    TypeOK
    RetriesWellSpent
    ServedMatchesFilter
    StaleIsBounded
PROPERTIES
    ReachableEdgeIsReached
    CallReturns
CHECK_DEADLOCK FALSE
