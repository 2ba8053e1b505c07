SPECIFICATION Spec
CONSTANTS
    Requests = {r1, r2, r3}
    SeedRoles <- MCSeedRoles
    SeedUsers <- MCSeedUsers
    Calls <- MCCalls
    Names <- MCNames
    PermissionIds <- MCPermissionIds
    Permissions <- MCPermissions
    Matching <- MCMatching
    NoPattern <- MCNoPattern
    UserRole = "user"
    NoMobile = NoMobile
    None = None
INVARIANTS NoDanglingRole
CHECK_DEADLOCK FALSE
