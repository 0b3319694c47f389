SPECIFICATION Spec
CONSTANT Inputs <- MCInputs
CONSTANT Documents <- MCDocuments
CONSTANT Handled <- Numbers
CONSTANT Configurable <- Extents
CONSTANT MaxTokens = 20
CONSTANT MaxChunk = 20
INVARIANT JunkIsLeft
INVARIANT ChunkIsRead
PROPERTY ErrorAtOffender
PROPERTY ImplementsParser
CHECK_DEADLOCK FALSE
