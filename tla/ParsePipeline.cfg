\* Two threads, two requests from two inputs, the second a file list.
SPECIFICATION FairSpec
CONSTANTS
    Workers = {w1, w2}
    NumInputs = 2
    Filelists = {2}
    Verbose = FALSE
    MaxRequests = 2
    MaxErrors = 1
INVARIANTS NothingLost ErrorsNoticed ClosedOnce
PROPERTIES Termination ImplementsOrderedOutput
