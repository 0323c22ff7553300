\* A single output archive, and directories with few and with too many archives
\* to read: the last may stop for good (TakesAllPermits).
SPECIFICATION FairSpec
CONSTANTS
    CommandLines <- Ends
    MaxThreads = 2
    MaxOpenFiles = 1
    MaxUnits = 2
CHECK_DEADLOCK FALSE
INVARIANTS CountExact NoLostWakeup
PROPERTIES Termination
