SPECIFICATION Spec
CONSTANT Handled <- Converting
CONSTANT Configurable <- LexerOptions
CONSTANT MaxTokens = 4
CONSTANT MaxChunk = 3
INVARIANT StackMirrorsNesting
PROPERTY StaysFailed
PROPERTY CallReturns
CHECK_DEADLOCK FALSE
