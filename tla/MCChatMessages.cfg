SPECIFICATION ChatSpec
CONSTANTS
    Requests = {r1, r2}
    Users <- MCUsers
    Roles <- MCRoles
    Accounts <- MCAccounts
    Orders = {"o1", "o2"}
    Customer <- MCCustomer
    DeliveryMan <- MCDeliveryMan
    Nobody = Nobody
    Inputs <- MCRequests
    None = None
    Messages = {m1}
    Fetches = {f1, f2}
CHECK_DEADLOCK FALSE
SYMMETRY ChatSymmetry
INVARIANTS
    ChatTypeOK
    DuplicateOnlyFromOverlap
    EmptyOnlyUnfilled
    AnswerIsTheirs
    UnreadUntilFetched
PROPERTY
    ImplementsMailbox
