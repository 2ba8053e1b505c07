SPECIFICATION Spec
CONSTANTS
    Requests = {r1, r2, r3}
    ModeBodies <- OnlyOn
    LimitBodies <- OnlyNumbers
INVARIANTS LimitEnforced
CONSTANTS
    NoUser = NoUser
    Numerals <- MCNumerals
    NumberOf <- MCNumberOf
    Texts = {"many"}
    SeedLimit <- MCSeedLimit
