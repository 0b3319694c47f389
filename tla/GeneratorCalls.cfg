SPECIFICATION LayoutSpec
CONSTANT JHN_MAX_DEPTH = 4
CONSTANT UINT_MAX = 7
CONSTANT MaxWords = 9
CONSTANT Disciplined = TRUE
INVARIANT TypeOK
INVARIANT DepthMirrorsNesting
INVARIANT OutputIsJson
INVARIANT RefusalsAreExact
INVARIANT LinesMirrorNesting
INVARIANT LineEndsWithDocument
