SPECIFICATION Spec
CONSTANT LLONG_MAX = 32767
CONSTANT MaxOffset = 65
CONSTANT MaxLength = 70
CONSTANT Breaks <- SomeBreaks
CONSTANT Chunks <- SomeChunks
CONSTANT JHN_BUF_INIT_SIZE = 2
CONSTANT MaxUsed = 7
CONSTANT LexerAllocators = {"client"}
CONSTANT MaxPrintCallbacks = 1
CONSTANT MaxBytes = 3
CONSTANT MaxPieces = 3
CONSTANT Strings <- SomeStrings
CONSTANT Texts <- SomeTexts
CHECK_DEADLOCK FALSE
INVARIANT EscapesAreKnown
