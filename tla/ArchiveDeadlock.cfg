\* An output directory and one archive too many.
SPECIFICATION FairSpec
CONSTANTS
    CommandLines <- OneTooMany
    MaxThreads = 2
    MaxOpenFiles = 1
    MaxUnits = 1
CHECK_DEADLOCK FALSE
PROPERTIES FirstWritten
