SPECIFICATION Spec
CONSTANT Handled <- NoCallbacks
CONSTANT Configurable <- Extents
CONSTANT MaxTokens = 6
CONSTANT MaxChunk = 6
INVARIANT TypeOK
INVARIANT ErrorsAreExact
INVARIANT FinishMeansDocument
PROPERTY ImplementsEvents
CHECK_DEADLOCK FALSE
