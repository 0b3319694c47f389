SPECIFICATION Spec
CONSTANT JHN_MAX_DEPTH = 3
CONSTANT UINT_MAX = 7
CONSTANT MaxWords = 3
CONSTANT Disciplined = FALSE
INVARIANT GenerationCompleteMeansDocument
