SPECIFICATION Spec
CONSTANT Inputs <- MCInputs
INVARIANT TypeOK
INVARIANT IndexSafe
INVARIANT HeldIsUnfinished
INVARIANT TokensAreLexemes
PROPERTY ImplementsStream
PROPERTY KeepsContract
CHECK_DEADLOCK FALSE
