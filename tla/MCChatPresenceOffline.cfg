SPECIFICATION Spec
CONSTANTS
    Sockets = {"s1", "s2"}
    Chat = {"s1"}
    Sessions = {"work"}
    Token <- MCTokens
    Users <- MCUsers
    Roles <- MCRoles
    Owner <- MCOwner
    Couriers <- MCCouriers
    NoSocket = NoSocket
INVARIANT
    OnlineWhileConnected
CHECK_DEADLOCK FALSE
