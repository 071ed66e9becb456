SPECIFICATION Spec
CONSTANTS
    Programs <- MCPrograms
    NeedsOne <- MCNeedsOne
    MaxLen = 2
    Loses <- MCLoses
    Swallows <- MCSwallows
    Wraps <- MCWraps
INVARIANTS
    OnlyLiveMemory
    NothingLost
    ErrorReported
    ResultsMatch
    Reviewed
