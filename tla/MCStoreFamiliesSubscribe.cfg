SPECIFICATION Spec
CONSTANTS
    Ids = {1, 2, 3, 4, 5, 6}
    Names = {"x", "y", "z"}
    Plans = {1, 2}
    DefaultPlan = 1
    Paid = {2}
    Times = {1, 2, 3}
    Calls = {1, 2, 3, 4}
    Unset = Unset
    Inputs <- MCInputs
    Existing <- MCExisting
    BitOr <- MCBitOr
CONSTRAINT Bounded
CHECK_DEADLOCK FALSE
INVARIANT CheckedSubscribes
