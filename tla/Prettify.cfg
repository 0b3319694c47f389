SPECIFICATION PrettySpec
CONSTANT Handled <- Installed
CONSTANT Configurable = {}
CONSTANT MaxTokens = 6
CONSTANT MaxChunk = 6
CONSTANT JHN_MAX_DEPTH = 2
CONSTANT UINT_MAX = 7
INVARIANT PrintsWhatIsParsed
INVARIANT RefusedOnlyForDepth
CHECK_DEADLOCK FALSE
