SPECIFICATION Spec
CONSTANTS
    Nothing = Nothing
    Failed = Failed
    Operators <- TestOperator
    MaxWrites = 3
    MaxSnapshots = 1
INVARIANT OffersReachOperator
