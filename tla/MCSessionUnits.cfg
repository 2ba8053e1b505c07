SPECIFICATION Spec
CONSTANTS
    Logins = {l1}
    Encryption = FALSE
    Scale = 1000
    AccessLife = 1
    NotBefore = 1
    RefreshLife = 2
    RememberLife = 3
    PasswordLife = 5
    Horizon = 4000
INVARIANTS AccessLifeKept
