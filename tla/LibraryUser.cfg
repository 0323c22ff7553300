SPECIFICATION Spec
CONSTANT u1 = u1
CONSTANT Units <- One
CONSTANT UserUris <- Own
CONSTANT PrefixNames <- Names
CONSTANT Fields <- Hash
CONSTANT Values <- HashValues
CONSTANT Toggles <- Solitary
CONSTANT Registrations <- Registered
CONSTANT Elements <- WrittenElements
CONSTANT Sources <- Parsed
CONSTANT MaxEvents = 2
CONSTANT MaxPieces = 11
CONSTANT MaxDocuments = 1
CONSTANT Reopens = FALSE
CONSTANT Mixes = FALSE
VIEW WithoutSource
CHECK_DEADLOCK FALSE
INVARIANT WellBuilt
INVARIANT InnerIsContent
INVARIANT Complete
PROPERTY ImplementsDocuments
