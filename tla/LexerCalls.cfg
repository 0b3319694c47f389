SPECIFICATION PeekSpec
CONSTANT Inputs <- MCPeekInputs
CONSTANT PeekComments = FALSE
INVARIANT HeldSurvivesPeek
INVARIANT PeekTellsNext
PROPERTY CallReturns
CHECK_DEADLOCK FALSE
