SPECIFICATION Spec
CONSTANTS
    Cases <- MCCases
    Query <- MCQuery
    Expression <- Conversions
    HasItem <- MCHasItem
    Declared <- MCDeclared
INVARIANTS
    Composed
    Identified
    Meant
