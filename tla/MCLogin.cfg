SPECIFICATION FairSpec
CONSTANTS
    Requests = {r1, r2}
    ModeBodies <- AnyMode
    LimitBodies <- AnyLimit
INVARIANTS TypeOK AttemptsNotOverstated
PROPERTIES EveryLoginAnswered
CONSTANTS
    NoUser = NoUser
    Numerals <- MCNumerals
    NumberOf <- MCNumberOf
    Texts = {"many"}
    SeedLimit <- MCSeedLimit
