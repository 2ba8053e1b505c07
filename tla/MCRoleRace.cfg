SPECIFICATION Spec
CONSTANTS
    Requests = {r1, r2, r3, r4}
    SeedRoles <- MCSeedRoles
    SeedUsers <- MCSeedUsers
    Calls <- MCCalls
    Names <- MCNames
    PermissionIds <- MCPermissionIds
    Permissions <- MCPermissions
    Matching <- MCMatching
    NoPattern <- MCNoPattern
    UserRole = "user"
    NoMobile = NoMobile
    None = None
SYMMETRY RequestSymmetry
INVARIANTS TypeOK UniqueKeys
CHECK_DEADLOCK FALSE
