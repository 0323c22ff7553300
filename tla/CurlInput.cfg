\* Two URLs one after the other.  A request can hang when its answer comes early.
SPECIFICATION FairSpec
CONSTANTS
    Requests <- Pairs
    PipeSize = 2
    PipesFail = TRUE
CHECK_DEADLOCK FALSE
INVARIANTS OwnAnswer NoErrorConverted
PROPERTIES GoesOn Exits
