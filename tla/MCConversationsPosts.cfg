SPECIFICATION Spec
CONSTANTS
    Requests = {r1, r2, r3}
    Users <- MCUsers
    Roles <- MCRoles
    Accounts <- MCAccounts
    Orders = {"o1", "o2"}
    Customer <- MCCustomer
    DeliveryMan <- MCDeliveryMan
    Nobody = Nobody
    Inputs <- MCPosts
    None = None
SYMMETRY RequestSymmetry
INVARIANT
    OneConversationPerPair
CHECK_DEADLOCK FALSE
