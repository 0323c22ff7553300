SPECIFICATION Spec
CONSTANTS
    Programs <- MCPrograms
    Elements = {"name"}
    MaxModes = 3
    MaxStarts = 3
    TabSize = 4
INVARIANTS
    SourceKept
    Nested
    Counted
