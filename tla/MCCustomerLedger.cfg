SPECIFICATION Spec
CONSTANTS
    Requests = {r1, r2, r3}
    Customers = {c1}
    PointAmounts <- MCPointAmounts
    FundAmounts <- MCFundAmounts
    LoyaltyOn = TRUE
    OrderPoints = 2
    InitPoints = 2
    InitWallet = 0
CONSTRAINT FewAmounts
SYMMETRY RequestSymmetry
INVARIANTS
    TypeOK
    PointsNeverNegative
    NothingCountedTwice
    ExactUnlessStale
    BalancesAddUp
    EffectsInOrder
PROPERTY ImplementsPassbook
