----------------------------- MODULE MCRoleUsers -----------------------------
(* Instances of RoleUsers: two seeded roles, a seeded user of one of them, and *)
(* bodies that collide on each unique key, and on e-mails as patterns.         *)
EXTENDS RoleUsers, TLC

MCPermissionIds == {"read", "write", "unknown"}
MCPermissions == {"read", "write"}

Emails == {"ann@x", "cy@x", "nn@x", "a+n@x", "+n@x"}
MCNames == {"root", "user", "staff", "crew", "ann", "bob", "628"} \cup Emails
MCNoPattern == {"+n@x"}
MCMatching == {<<"ann@x", "ann@x">>, <<"cy@x", "cy@x">>, <<"nn@x", "nn@x">>, <<"ann@x", "nn@x">>}

Role1(name, permissions) ==
    [name |-> name, permissions |-> permissions,
     accessFor |-> IF name = "user" THEN "USER" ELSE "ADMIN"]
Active(body) == body @@ [isActive |-> TRUE]

MCSeedRoles == [roleUser |-> Active(Role1("user", {"read"})),
                roleStaff |-> Active(Role1("staff", {"read", "write"}))]
MCSeedUsers == [userBob |-> [username |-> "bob", email |-> "nn@x", mobileNumber |-> NoMobile,
                             role |-> "roleStaff"]]

Ask(op, target, body) == [op |-> op, target |-> target, body |-> body]
Person(username, email, number) ==
    [username |-> username, email |-> email, mobileNumber |-> number]

\* Users that come and go while their role is updated, deleted and made again.
MCCalls ==
    {Ask("signUp", None, Person("ann", "ann@x", "628")),
     Ask("signUp", None, Person("bob", "a+n@x", NoMobile)),
     Ask("createUser", "roleStaff", Person("staff", "nn@x", NoMobile)),
     Ask("createUser", "roleStaff", Person("crew", "a+n@x", "628")),
     Ask("createUser", "roleStaff", Person("crew", "+n@x", NoMobile)),
     Ask("createUser", "roleUser", Person("crew", "cy@x", NoMobile)),
     Ask("deleteUser", "userBob", None),
     Ask("createRole", None, Role1("crew", {"read"})),
     Ask("createRole", None, Role1("user", {"unknown"})),
     Ask("updateRole", "roleStaff", Role1("crew", {"read"})),
     Ask("updateRole", "roleStaff", Role1("staff", {"unknown"})),
     Ask("updateRole", "roleStaff", Role1("staff", {})),
     Ask("updateRole", "roleUser", Role1("crew", {})),
     Ask("deleteRole", "roleStaff", None),
     Ask("deleteRole", "roleUser", None),
     Ask("inactiveRole", "roleStaff", None),
     Ask("activeRole", "roleStaff", None)}

RequestSymmetry == Permutations(Requests)
=============================================================================
