------------------------------ MODULE RoleUsers ------------------------------
(***************************************************************************)
(* The collections of users and roles and the handlers that create, change *)
(* and delete their documents (modules/user, modules/role): sign-up, the   *)
(* administrators' create and delete of a user, and create, update, delete,*)
(* inactive and active of a role.                                          *)
(*                                                                         *)
(* A handler checks first, one query per check, and writes last; no        *)
(* transaction joins the two, so other handlers write in between.  What    *)
(* MongoDB itself enforces are the unique indexes of the entities.         *)
(***************************************************************************)
EXTENDS Naturals, FiniteSets

CONSTANTS Requests,    \* requests, each one run of a handler; also names what it creates
          SeedRoles,   \* the role documents of the migration: id -> document
          SeedUsers,   \* the user documents of the migration: id -> document
          Calls,       \* what clients and administrators may ask for
          Names,       \* the texts of the bodies: names, e-mails, numbers
          PermissionIds, \* the permissions a body may name
          Permissions, \* the ones that are stored (no handler deletes one)
          Matching,    \* <<stored, asked>>: the stored e-mail matches RegExp(asked)
          NoPattern,   \* e-mails that are no regular expression: RegExp throws
          UserRole,    \* the role name that sign-up looks for
          NoMobile,    \* a user without a mobile number
          None         \* no document, no body, or no call yet

RoleIds == DOMAIN SeedRoles \cup Requests
UserIds == DOMAIN SeedUsers \cup Requests

User == [username: Names, email: Names, mobileNumber: Names \cup {NoMobile}, role: RoleIds]
AccessFor == {"SUPER_ADMIN", "ADMIN", "USER"}
Role == [name: Names, permissions: SUBSET Permissions, accessFor: AccessFor, isActive: BOOLEAN]

\* What UserPayloadSerialization keeps of a role.
Payload == [name: Names, permissions: SUBSET Permissions, accessFor: AccessFor]

UserBody == [username: Names, email: Names, mobileNumber: Names \cup {NoMobile}]
RoleBody == [name: Names, permissions: SUBSET PermissionIds, accessFor: {"ADMIN", "USER"}]

\* What can be asked for: an operation, the document it is about, a body.
AnyCall ==
         [op: {"signUp"}, target: {None}, body: UserBody]
    \cup [op: {"createUser"}, target: RoleIds, body: UserBody]
    \cup [op: {"deleteUser"}, target: UserIds, body: {None}]
    \cup [op: {"createRole"}, target: {None}, body: RoleBody]
    \cup [op: {"updateRole"}, target: RoleIds, body: RoleBody]
    \cup [op: {"deleteRole", "inactiveRole", "activeRole"}, target: RoleIds, body: {None}]

\* A user's keys against another's, as the indexes compare them.
DifferentKeys(u, v) ==
    /\ u.username # v.username
    /\ u.email # v.email
    /\ u.mobileNumber = NoMobile \/ u.mobileNumber # v.mobileNumber

ASSUME RoleUsersAssumption ==
    /\ SeedRoles \in [DOMAIN SeedRoles -> Role]
    /\ SeedUsers \in [DOMAIN SeedUsers -> User]
    /\ \A i \in DOMAIN SeedUsers : SeedUsers[i].role \in DOMAIN SeedRoles
    /\ \A i, j \in DOMAIN SeedUsers : i # j => DifferentKeys(SeedUsers[i], SeedUsers[j])
    /\ \A i, j \in DOMAIN SeedRoles : i # j => SeedRoles[i].name # SeedRoles[j].name
    /\ Requests \cap (DOMAIN SeedRoles \cup DOMAIN SeedUsers) = {}
    /\ Calls \subseteq AnyCall
    /\ Permissions \subseteq PermissionIds
    /\ None \notin Role \cup Payload \cup User \cup RoleIds \cup UserIds \cup Calls
    /\ NoMobile \notin Names
    /\ IsFiniteSet(Requests)

VARIABLES roles, users, \* id -> document or None
          pc,           \* where each request is, or what it was answered
          call,         \* what each request asks for
          role          \* the id of the document its checks are about

vars == <<roles, users, pc, call, role>>

Roles == {i \in RoleIds : roles[i] # None}
Users == {i \in UserIds : users[i] # None}

Steps == {"findRole", "username", "email", "mobile", "insertUser", "findUser", "deleteUser",
          "document", "used", "exists", "permissions", "insertRole", "updateRole",
          "deleteRole", "setActive"}
Answers == {"done", "notFound", "roleNotFound", "usernameExist", "emailExist", "mobileExist",
            "roleActive", "roleUsed", "roleExist", "permissionNotFound", "error"}

InFlight == {r \in Requests : pc[r] \in Steps}

FirstStep(op) ==
    CASE op \in {"signUp", "createUser"} -> "findRole"
      [] op = "deleteUser" -> "findUser"
      [] op = "createRole" -> "exists"
      [] OTHER -> "document"

Init ==
    /\ roles = [i \in RoleIds |-> IF i \in DOMAIN SeedRoles THEN SeedRoles[i] ELSE None]
    /\ users = [i \in UserIds |-> IF i \in DOMAIN SeedUsers THEN SeedUsers[i] ELSE None]
    /\ pc = [r \in Requests |-> "idle"]
    /\ call = [r \in Requests |-> None]
    /\ role = [r \in Requests |-> None]

Goto(r, step) == pc' = [pc EXCEPT ![r] = step]

\* A request is accepted; a call that names a role by its id carries that id along.
Start(r, c) ==
    /\ pc[r] = "idle"
    /\ call' = [call EXCEPT ![r] = c]
    /\ role' = [role EXCEPT ![r] = c.target]
    /\ Goto(r, FirstStep(c.op))
    /\ UNCHANGED <<roles, users>>

At(r, step) == pc[r] = step /\ UNCHANGED call

\* A check that reads and writes nothing: on to the next step, or an answer.
Check(r, step, ok, next, refusal) ==
    /\ At(r, step)
    /\ Goto(r, IF ok THEN next ELSE refusal)
    /\ UNCHANGED <<roles, users, role>>
-----------------------------------------------------------------------------
(* Users *)

\* Mutant: an administrator's role is taken without looking for it.
FindRoleUnchecked(r) ==
    /\ At(r, "findRole")
    /\ \/ /\ call[r].op = "signUp"
          /\ \E i \in Roles : roles[i].name = UserRole /\ role' = [role EXCEPT ![r] = i]
          /\ Goto(r, "username")
       \/ call[r].op = "createUser" /\ Goto(r, "username") /\ UNCHANGED role
    /\ UNCHANGED <<roles, users>>

\* Sign-up looks for the role named 'user', an administrator names one by id.
FindRole(r) ==
    /\ At(r, "findRole")
    /\ LET named == IF call[r].op = "signUp" THEN {i \in Roles : roles[i].name = UserRole}
                                             ELSE Roles \cap {call[r].target}
       IN \/ named = {} /\ Goto(r, "roleNotFound") /\ UNCHANGED role
          \/ \E i \in named : /\ role' = [role EXCEPT ![r] = i]
                              /\ Goto(r, "username")
    /\ UNCHANGED <<roles, users>>

\* existUsername
UsernameFree(username) == \A i \in Users : users[i].username # username

ExistUsername(r) ==
    Check(r, "username", UsernameFree(call[r].body.username), "email", "usernameExist")

\* The e-mail is compared as an unanchored, case-insensitive regular expression.
EmailFree(email) == \A i \in Users : <<users[i].email, email>> \notin Matching

ExistEmail(r) ==
    Check(r, "email", call[r].body.email \notin NoPattern /\ EmailFree(call[r].body.email),
          "mobile", IF call[r].body.email \in NoPattern THEN "error" ELSE "emailExist")

\* existMobileNumber
MobileNumberFree(number) == \A i \in Users : users[i].mobileNumber # number

\* No query when there is no number.
ExistMobileNumber(r) ==
    LET number == call[r].body.mobileNumber
    IN Check(r, "mobile", number = NoMobile \/ MobileNumberFree(number),
             "insertUser", "mobileExist")

\* Mutant: a unique index on the user name only.
UserFitsName(doc) == \A i \in Users : users[i].username # doc.username

\* The unique indexes of the user collection; that of the number is sparse.
UserFits(doc) == \A i \in Users : DifferentKeys(doc, users[i])

InsertUser(r) ==
    /\ At(r, "insertUser")
    /\ LET doc == [username |-> call[r].body.username, email |-> call[r].body.email,
                   mobileNumber |-> call[r].body.mobileNumber, role |-> role[r]]
       IN \/ UserFits(doc) /\ users' = [users EXCEPT ![r] = doc] /\ Goto(r, "done")
          \/ ~UserFits(doc) /\ UNCHANGED users /\ Goto(r, "error")
    /\ UNCHANGED <<roles, role>>

\* The guards of delete: the user is put on the request, 404 without one.
FindUser(r) == Check(r, "findUser", call[r].target \in Users, "deleteUser", "notFound")

\* Deleting what is already gone answers like deleting it.
DeleteUser(r) ==
    /\ At(r, "deleteUser")
    /\ users' = [users EXCEPT ![call[r].target] = None]
    /\ Goto(r, "done")
    /\ UNCHANGED <<roles, role>>
-----------------------------------------------------------------------------
(* Roles *)

\* Mutant: no RoleUsedGuard on delete.
AfterGuardsUnused(op) ==
    CASE op = "updateRole" -> "used"
      [] op = "deleteRole" -> "deleteRole"
      [] OTHER -> "setActive"

\* What the guards of each operation want isActive to be, and the next step after them.
WantsActive(op) == op # "activeRole"
AfterGuards(op) == IF op \in {"updateRole", "deleteRole"} THEN "used" ELSE "setActive"

\* RolePutToRequestGuard reads the document, and RoleNotFoundGuard looks whether there is one.
RoleFound(r) == role[r] \in Roles

\* RoleActiveGuard, on the copy that was put to the request.
RoleDocument(r) ==
    /\ At(r, "document")
    /\ \/ ~RoleFound(r) /\ Goto(r, "notFound")
       \/ /\ RoleFound(r)
          /\ Goto(r, IF roles[role[r]].isActive = WantsActive(call[r].op)
                     THEN AfterGuards(call[r].op) ELSE "roleActive")
    /\ UNCHANGED <<roles, users, role>>

\* Mutant: RoleUsedGuard on delete only.
RoleUsedDelete(r) ==
    Check(r, "used", \/ call[r].op = "updateRole"
                     \/ \A i \in Users : users[i].role # role[r],
          IF call[r].op = "deleteRole" THEN "deleteRole" ELSE "exists", "roleUsed")

\* RoleUsedGuard
RoleUsed(r) ==
    Check(r, "used", \A i \in Users : users[i].role # role[r],
          IF call[r].op = "deleteRole" THEN "deleteRole" ELSE "exists", "roleUsed")

\* exists(name), which an update asks of the other roles only
NameFree(name, except) == \A i \in Roles \ except : roles[i].name # name

\* Mutant: an update does not look for the name.
ExistsRoleCreate(r) ==
    Check(r, "exists", call[r].op = "updateRole" \/ NameFree(call[r].body.name, {}),
          "permissions", "roleExist")

ExistsRole(r) ==
    Check(r, "exists",
          NameFree(call[r].body.name, IF call[r].op = "updateRole" THEN {role[r]} ELSE {}),
          "permissions", "roleExist")

\* Mutant: the permissions of the body are not looked for.
CheckNoPermissions(r) ==
    Check(r, "permissions", TRUE,
          IF call[r].op = "updateRole" THEN "updateRole" ELSE "insertRole", "permissionNotFound")

\* One findOneById per permission of the body: the first unknown one is a 404.
CheckPermissions(r) ==
    Check(r, "permissions", call[r].body.permissions \subseteq Permissions,
          IF call[r].op = "updateRole" THEN "updateRole" ELSE "insertRole", "permissionNotFound")

\* The index on the name is unique.
InsertRole(r) ==
    /\ At(r, "insertRole")
    /\ LET doc == [name |-> call[r].body.name, permissions |-> call[r].body.permissions,
                   accessFor |-> call[r].body.accessFor, isActive |-> TRUE]
       IN \/ NameFree(doc.name, {}) /\ roles' = [roles EXCEPT ![r] = doc] /\ Goto(r, "done")
          \/ ~NameFree(doc.name, {}) /\ UNCHANGED roles /\ Goto(r, "error")
    /\ UNCHANGED <<users, role>>

\* updateOneById: an update of a document that is gone changes nothing and is
\* answered like one that did.
UpdateRole(r) ==
    /\ At(r, "updateRole")
    /\ \/ role[r] \notin Roles /\ UNCHANGED roles /\ Goto(r, "done")
       \/ /\ role[r] \in Roles
          /\ NameFree(call[r].body.name, {role[r]})
          /\ roles' = [roles EXCEPT ![role[r]].name = call[r].body.name,
                                    ![role[r]].permissions = call[r].body.permissions,
                                    ![role[r]].accessFor = call[r].body.accessFor]
          /\ Goto(r, "done")
       \/ /\ role[r] \in Roles
          /\ ~NameFree(call[r].body.name, {role[r]})
          /\ UNCHANGED roles
          /\ Goto(r, "error")
    /\ UNCHANGED <<users, role>>

DeleteRole(r) ==
    /\ At(r, "deleteRole")
    /\ roles' = [roles EXCEPT ![role[r]] = None]
    /\ Goto(r, "done")
    /\ UNCHANGED <<users, role>>

SetActive(r) ==
    /\ At(r, "setActive")
    /\ roles' = IF role[r] \notin Roles THEN roles
                ELSE [roles EXCEPT ![role[r]].isActive = (call[r].op = "activeRole")]
    /\ Goto(r, "done")
    /\ UNCHANGED <<users, role>>
-----------------------------------------------------------------------------
UserStep(r) ==
    \/ FindRole(r) \/ ExistUsername(r) \/ ExistEmail(r) \/ ExistMobileNumber(r)
    \/ InsertUser(r) \/ FindUser(r) \/ DeleteUser(r)

RoleStep(r) ==
    \/ RoleDocument(r) \/ RoleUsed(r) \/ ExistsRole(r) \/ CheckPermissions(r)
    \/ InsertRole(r) \/ UpdateRole(r) \/ DeleteRole(r) \/ SetActive(r)

Next ==
    \E r \in Requests : \/ \E c \in Calls : Start(r, c)
                        \/ UserStep(r)
                        \/ RoleStep(r)

Spec == Init /\ [][Next]_vars

\* The same program when one request is handled at a time.
SerialSpec == Init /\ [][Next /\ Cardinality(InFlight') <= 1]_vars
-----------------------------------------------------------------------------
\* A stored role grants stored permissions only.
TypeOK ==
    /\ roles \in [RoleIds -> Role \cup {None}]
    /\ users \in [UserIds -> User \cup {None}]
    /\ pc \in [Requests -> {"idle"} \cup Steps \cup Answers]
    /\ call \in [Requests -> Calls \cup {None}]
    /\ role \in [Requests -> RoleIds \cup UserIds \cup {None}]

\* However the checks of concurrent requests interleave with the inserts of others,
\* no two users share a user name, an e-mail or a number, and no two roles a name.
UniqueKeys ==
    /\ \A i, j \in Users : i # j => DifferentKeys(users[i], users[j])
    /\ \A i, j \in Roles : i # j => roles[i].name # roles[j].name

\* "Role in used": no user is left with a role that was deleted under him.
NoDanglingRole == \A i \in Users : users[i].role \in Roles

\* The queries before an insert or an update are complete: taken one at a time, a
\* request is answered with the conflict it has, and fails at the database only
\* for an e-mail that does not match itself as a regular expression, or is none.
ChecksSuffice ==
    \A r \in Requests : pc[r] = "error" =>
        /\ call[r].op \in {"signUp", "createUser"}
        /\ \/ call[r].body.email \in NoPattern
           \/ <<call[r].body.email, call[r].body.email>> \notin Matching

\* Taken one at a time, the requests keep what the guard on used roles promises:
\* what a role grants is settled while nobody holds it, and outlives its holders.
Content(doc) ==
    IF doc = None THEN None
    ELSE [name |-> doc.name, permissions |-> doc.permissions, accessFor |-> doc.accessFor]

References == INSTANCE RoleReferences WITH
    content <- [i \in RoleIds |-> Content(roles[i])],
    holds <- [i \in UserIds |-> IF users[i] = None THEN None ELSE users[i].role]

ImplementsReferences == References!Spec
=============================================================================
