---------------------------- MODULE Authorization ----------------------------
(***************************************************************************)
(* Claims with the guards that decide who may ask (common/auth): a request *)
(* on users, roles or permissions carries an access token, and is admitted *)
(* for what the copy of the role in that token says, without a look at the *)
(* database.  With it, the administrators' requests on permissions         *)
(* (modules/permission).                                                   *)
(*                                                                         *)
(* A refused request changes nothing and is not shown.                     *)
(***************************************************************************)
EXTENDS Claims

CONSTANTS Desks,          \* requests on permissions that may run at once
          PermissionCalls \* what they may ask for: an operation and a permission

ASSUME AuthorizationAssumption ==
    PermissionCalls \subseteq
        [op: {"updatePermission", "inactivePermission", "activePermission"}, target: PermissionIds]

VARIABLES active, \* permission -> isActive
          by,     \* the token each request on users and roles came with, if it needs one
          desk    \* the request on permissions under way: its step, token and call

authVars == <<allVars, active, by, desk>>

Desk == [step: {"idle", "document", "write"}, by: Token \cup {None}, call: PermissionCalls \cup {None}]
NoRequest == [step |-> "idle", by |-> None, call |-> None]

AuthInit ==
    /\ ClaimsInit
    /\ active = [p \in Permissions |-> TRUE]
    /\ by = [r \in Requests |-> None]
    /\ desk = [d \in Desks |-> NoRequest]
-----------------------------------------------------------------------------
(* The guards on the token *)

\* The permissions that the decorator of each handler names.
Required(op) ==
    CASE op = "createUser" -> {"USER_READ", "USER_CREATE"}
      [] op = "deleteUser" -> {"USER_READ", "USER_DELETE"}
      [] op = "createRole" -> {"ROLE_READ", "ROLE_CREATE"}
      [] op = "deleteRole" -> {"ROLE_READ", "ROLE_DELETE"}
      [] op \in {"updateRole", "inactiveRole", "activeRole"} -> {"ROLE_READ", "ROLE_UPDATE"}
      [] OTHER -> {"PERMISSION_READ", "PERMISSION_UPDATE"}

\* AuthPayloadAccessForGuard
HasFor(rights, requiredFor) == rights.accessFor \in requiredFor

\* Mutant: some of the permissions are enough.
HasSomePermission(rights, required) ==
    rights.accessFor = "SUPER_ADMIN" \/ required \cap rights.permissions # {}

\* AuthPayloadPermissionGuard: a super administrator needs no permission.
HasPermission(rights, required) ==
    rights.accessFor = "SUPER_ADMIN" \/ required \subseteq rights.permissions

\* AuthJwtAdminAccessProtected, on a role or on the copy of one.
AdminAccess(rights, op) ==
    HasFor(rights, {"SUPER_ADMIN", "ADMIN"}) /\ HasPermission(rights, Required(op))

\* A request on users and roles; anyone may sign up.
Admit(r, c) ==
    /\ Start(r, c)
    /\ \/ c.op = "signUp" /\ UNCHANGED by
       \/ /\ c.op # "signUp"
          /\ \E t \in tokens : AdminAccess(t.role, c.op) /\ by' = [by EXCEPT ![r] = t]
-----------------------------------------------------------------------------
(* Permissions *)

AskPermission(d, c) ==
    /\ desk[d].step = "idle"
    /\ \E t \in tokens : /\ AdminAccess(t.role, c.op)
                         /\ desk' = [desk EXCEPT ![d] = [step |-> "document", by |-> t, call |-> c]]
    /\ UNCHANGED active

\* PermissionActiveGuard, on the copy that was put to the request.
ActiveAsWanted(isActive, op) == isActive = (op # "activePermission")

\* PermissionPutToRequestGuard and PermissionNotFoundGuard
PermissionFound(p) == p \in Permissions

\* What the guards of each operation let through.
PermissionDocument(d) ==
    /\ desk[d].step = "document"
    /\ LET p == desk[d].call.target
           passes == PermissionFound(p) /\ ActiveAsWanted(active[p], desk[d].call.op)
       IN desk' = IF passes THEN [desk EXCEPT ![d].step = "write"]
                            ELSE [desk EXCEPT ![d] = NoRequest]
    /\ UNCHANGED active

Write(d, op) ==
    /\ desk[d].step = "write" /\ desk[d].call.op = op
    /\ desk' = [desk EXCEPT ![d] = NoRequest]

\* A name and a description, neither of which a role or a token holds.
UpdatePermission(d) == Write(d, "updatePermission") /\ UNCHANGED active

InactivePermission(d) ==
    /\ Write(d, "inactivePermission")
    /\ active' = [active EXCEPT ![desk[d].call.target] = FALSE]

ActivePermission(d) ==
    /\ Write(d, "activePermission")
    /\ active' = [active EXCEPT ![desk[d].call.target] = TRUE]
-----------------------------------------------------------------------------
\* A request takes its next step; its token goes with it once it is answered.
Proceeds(r) ==
    /\ UserStep(r) \/ RoleStep(r)
    /\ by' = [by EXCEPT ![r] = IF r \in InFlight' THEN @ ELSE None]

RequestNext ==
    /\ \E r \in Requests : (\E c \in Calls : Admit(r, c)) \/ Proceeds(r)
    /\ Cardinality(InFlight') <= 1
    /\ UNCHANGED <<claimVars, active, desk>>

DeskNext ==
    /\ \E d \in Desks : \/ \E c \in PermissionCalls : AskPermission(d, c)
                        \/ PermissionDocument(d)
                        \/ UpdatePermission(d) \/ InactivePermission(d) \/ ActivePermission(d)
    /\ UNCHANGED <<allVars, by>>

AuthNext == RequestNext \/ DeskNext \/ (ClaimsNext /\ UNCHANGED <<vars, active, by, desk>>)

AuthSpec == AuthInit /\ [][AuthNext]_authVars
-----------------------------------------------------------------------------
\* What a role entitles its holders to.
Entitled(doc, op) ==
    \/ doc.accessFor = "SUPER_ADMIN"
    \/ doc.accessFor = "ADMIN" /\ \A p \in Required(op) : p \in doc.permissions

Granted(t, op) == t.user \in Users => Entitled(roles[users[t.user].role], op)

\* As long as a request is under way, the role its sender holds by then, if he still
\* exists, gives him the right to it: the guards saw only a copy, as old as the token,
\* and log-ins, requests and the expiry of the token went on around it.
GrantedByRole ==
    /\ \A r \in InFlight : call[r].op = "signUp" \/ Granted(by[r], call[r].op)
    /\ \A d \in Desks : desk[d].step # "idle" => Granted(desk[d].by, desk[d].call.op)
=============================================================================
