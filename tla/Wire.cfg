\* Three setters reach every pair of overlapping places, in either order and
\* with one of them set again.
SPECIFICATION Spec
CONSTANTS
    MaxSets = 3
INVARIANTS
    TypeOK
    ReadsLastWritten
    CallsReachNamesake
    AcceptedMeansDetails
    ConversionsFaithful
CHECK_DEADLOCK FALSE
