SPECIFICATION SerialSpec
CONSTANTS
    Requests = {r1, r2, r3}
    ModeBodies <- OnlyOn
    LimitBodies <- OnlyNumbers
SYMMETRY RequestSymmetry
INVARIANTS LimitEnforced AttemptsExact
PROPERTIES LockLasts ImplementsLockout
CONSTANTS
    NoUser = NoUser
    Numerals <- MCNumerals
    NumberOf <- MCNumberOf
    Texts = {"many"}
    SeedLimit <- MCSeedLimit
