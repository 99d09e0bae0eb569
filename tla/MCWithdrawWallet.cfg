SPECIFICATION Spec
CONSTANTS
    Stores = {s1, s2}
    Couriers = {c1, c2}
    Requests = {r1, r2, r3}
    Amounts = {1, 2}
    Balances = {2}
    MaxUpdates = 2
SYMMETRY OwnerSymmetry
CHECK_DEADLOCK FALSE
INVARIANTS
    TypeOK
    TotalConserved
    OverdrawnOnlyUnchecked
    PendingIsSumOfPending
