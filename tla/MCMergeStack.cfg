SPECIFICATION Spec
CONSTANTS
    Nothing = Nothing
    Failed = Failed
    Operators <- AllOperators
    MaxWrites = 4
    MaxSnapshots = 2
INVARIANTS
    ReadsAgree
    OffersReachOperator
PROPERTY
    ImplementsKey
