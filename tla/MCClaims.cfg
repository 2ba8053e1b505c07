SPECIFICATION AuthSpec
CONSTANTS
    Requests = {r1, r2}
    Handlers = {h1}
    Desks = {d1}
    SeedRoles <- MCClaimsRoles
    SeedUsers <- MCClaimsUsers
    Calls <- MCCalls
    PermissionCalls <- MCPermissionCalls
    Names <- MCNames
    PermissionIds <- MCClaimsPermissionIds
    Permissions <- MCClaimsPermissions
    Matching <- MCMatching
    NoPattern <- MCNoPattern
    UserRole = "user"
    NoMobile = NoMobile
    None = None
SYMMETRY RequestSymmetry
INVARIANTS ClaimsTypeOK ClaimsCurrent GrantedByRole NoDanglingRole ChecksSuffice
PROPERTIES ImplementsReferences
CHECK_DEADLOCK FALSE
