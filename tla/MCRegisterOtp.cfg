SPECIFICATION Spec
CONSTANTS
    Generations = {g1, g2, g3, g4}
    Verifications = {v1, v2}
    Slots = {"customer", "vendor"}
    Phones <- MCPhones
    PhoneOf <- MCOnePhone
    Codes = {"a", "b"}
    DefaultOtp = FALSE
    Window = 1
    Delay = 1
    Nobody = Nobody
SYMMETRY CallSymmetry
CONSTRAINT FewCalls
INVARIANTS
    TypeOK
    SmsLimit
    RefusedOnlyAfterThree
    ThrottledCodeUnsent
    AcceptedFresh
    UsedUp
