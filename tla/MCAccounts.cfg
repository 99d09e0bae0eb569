SPECIFICATION Spec
CONSTANTS
    Calls = {c1, c2, c3}
    Accounts = {a, b}
    Shared = {a, b}
    Devices = {d}
    None = None
    MultiSession = FALSE
CONSTRAINT Bound
SYMMETRY Symmetry
INVARIANTS
    TypeOK
    LoneSession
    UnverifiedHasCode
PROPERTY ControlsAccess
CHECK_DEADLOCK FALSE
