SPECIFICATION Spec
CONSTANT Sources <- Programs
INVARIANT ReturnsProgram
INVARIANT BlockStructure
INVARIANT StatementsTold
