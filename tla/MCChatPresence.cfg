SPECIFICATION Spec
CONSTANTS
    Sockets = {"s1", "s2", "s3"}
    Chat = {"s1", "s3"}
    Sessions = {"work", "home"}
    Token <- MCTokens
    Users <- MCUsers
    Roles <- MCRoles
    Owner <- MCOwner
    Couriers <- MCCouriers
    NoSocket = NoSocket
CONSTRAINT TwoSockets
INVARIANTS
    TypeOK
    OnlineIsExplained
    OfflineIsExplained
    LeakIsExplained
    ReachableUnlessTaken
    AddressedRight
CHECK_DEADLOCK FALSE
