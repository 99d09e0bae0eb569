SPECIFICATION Spec
CONSTANTS
    Stores = {s1}
    Couriers = {}
    Requests = {r1, r2}
    Amounts = {1, 2}
    Balances = {2}
    MaxUpdates = 0
CHECK_DEADLOCK FALSE
INVARIANT BalanceNeverNegative
