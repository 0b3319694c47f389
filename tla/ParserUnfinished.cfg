SPECIFICATION Spec
CONSTANT Handled <- NoCallbacks
CONSTANT Configurable <- Extents
CONSTANT MaxTokens = 3
CONSTANT MaxChunk = 3
INVARIANT FinishConsumesAll
CHECK_DEADLOCK FALSE
