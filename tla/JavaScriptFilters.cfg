SPECIFICATION Spec
CONSTANT Programs <- SmallPrograms
INVARIANT SourceInOrder
INVARIANT WordsTold
INVARIANT StatementsEnd
