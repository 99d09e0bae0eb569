SPECIFICATION PoolFairSpec
CONSTANTS
    Requests = {r1, r2, r3}
    Customers = {c1}
    PointAmounts = {1}
    FundAmounts = {2}
    LoyaltyOn = TRUE
    OrderPoints = 2
    InitPoints = 1
    InitWallet = 0
    PoolSize = 3
PROPERTY EveryRequestEnds
