\* All documents, whole and broken off.  A document that breaks off before
\* its first unit can leave the user waiting.
SPECIFICATION FairSpec
CONSTANTS
    Documents <- All
CHECK_DEADLOCK FALSE
INVARIANTS HandOff NeverBothWait RootFirst
PROPERTIES WritesInCall ImplementsUnitStream CallsReturn
