SPECIFICATION Spec
CONSTANT Inputs <- MCFewInputs
INVARIANT Utf8ErrorAtOffender
CHECK_DEADLOCK FALSE
