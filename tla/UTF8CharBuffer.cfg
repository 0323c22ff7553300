SPECIFICATION Spec
CONSTANTS
    Sources <- MCSources
    SRCBUFSIZE = 5
    MinFirst = 4
INVARIANTS
    ReadsSource
    HashesSource
