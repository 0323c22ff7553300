SPECIFICATION Spec
CONSTANTS
    Scenarios <- MCScenarios
    Processors <- MCProcessors
    NameOrder <- MCNameOrder
INVARIANTS
    PartsTaken
    RoundTrip
    Answers
    OneRoot
CHECK_DEADLOCK FALSE
