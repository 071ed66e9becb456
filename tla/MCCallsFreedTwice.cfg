SPECIFICATION Spec
CONSTANTS
    Programs <- MCHistory
    NeedsOne <- MCNeedsOne
    MaxLen = 2
    Loses <- MCLoses
    Swallows <- MCSwallows
    Wraps <- MCWraps
INVARIANTS
    OnlyLiveMemory
