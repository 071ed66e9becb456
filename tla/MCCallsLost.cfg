SPECIFICATION Spec
CONSTANTS
    Programs <- MCMultiGet
    NeedsOne <- MCNeedsOne
    MaxLen = 2
    Loses <- NoLosses
    Swallows <- MCSwallows
    Wraps <- MCWraps
INVARIANTS
    NothingLost
