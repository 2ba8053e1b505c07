SPECIFICATION Spec
CONSTANTS
    Logins = {l1, l2}
    Encryption = FALSE
    Scale = 2
    AccessLife = 1
    NotBefore = 1
    RefreshLife = 2
    RememberLife = 3
    PasswordLife = 5
    Horizon = 8
SYMMETRY LoginSymmetry
INVARIANTS TypeOK SessionEnds NoGap RevocationBounded
