------------------------------- MODULE MCClaims -------------------------------
(* Instances of Authorization: the bodies of MCRoleUsers, log-ins of any user  *)
(* between any two steps of the requests, and three kinds of senders: a super  *)
(* administrator whose role names no permission, an administrator who may not  *)
(* change permissions, and users who have no access to any of it.              *)
EXTENDS Authorization, MCRoleUsers

MCClaimsPermissions ==
    UNION {Required(op) : op \in {"createUser", "deleteUser", "createRole", "deleteRole",
                                  "updateRole", "updatePermission"}} \cup {"read", "write"}
MCClaimsPermissionIds == MCClaimsPermissions \cup {"unknown"}

MCClaimsRoles ==
    [roleUser |-> Active(Role1("user", {})),
     roleStaff |-> Active(Role1("staff", MCClaimsPermissions \ {"PERMISSION_UPDATE"})),
     roleRoot |-> [name |-> "root", permissions |-> {}, accessFor |-> "SUPER_ADMIN",
                   isActive |-> TRUE]]
MCClaimsUsers ==
    MCSeedUsers @@ [userEve |-> [username |-> "user", email |-> "+n@x", mobileNumber |-> NoMobile,
                                 role |-> "roleRoot"]]

MCPermissionCalls ==
    {[op |-> op, target |-> "USER_DELETE"] :
        op \in {"updatePermission", "inactivePermission", "activePermission"}}
    \cup {[op |-> "inactivePermission", target |-> "unknown"]}
=============================================================================
