-------------------------- MODULE RoleUsers_proofs --------------------------
(***************************************************************************)
(* Theorems about RoleUsers, for any seeds, any calls and any number of    *)
(* requests.                                                               *)
(***************************************************************************)
EXTENDS RoleUsers, FiniteSetTheorems, TLAPS

\* The steps each operation goes through.
Creating == {"findRole", "username", "email", "mobile", "insertUser"}
WithRole == Creating \ {"findRole"}
Removing == {"findUser", "deleteUser"}
OnRole == {"document", "used", "updateRole", "deleteRole", "setActive"}
OnBody == {"exists", "permissions", "insertRole", "updateRole"}

\* A request is at a step of the operation it asks for, on the document it names.
OnCourse(r) ==
    /\ pc[r] # "idle" => call[r] \in Calls
    /\ pc[r] \in Creating => call[r].op \in {"signUp", "createUser"}
    /\ pc[r] \in WithRole => role[r] \in RoleIds
    /\ pc[r] \in Removing => call[r].op = "deleteUser"
    /\ pc[r] \in OnRole => call[r].op \notin {"signUp", "createUser", "deleteUser", "createRole"}
    /\ pc[r] = "used" => call[r].op \in {"updateRole", "deleteRole"}
    /\ pc[r] \in OnBody => call[r].op \in {"createRole", "updateRole"}
    /\ pc[r] = "insertRole" => call[r].op = "createRole"
    /\ pc[r] = "updateRole" => call[r].op = "updateRole"
    /\ pc[r] = "deleteRole" => call[r].op = "deleteRole"
    /\ pc[r] \in {"insertRole", "updateRole"} => call[r].body.permissions \subseteq Permissions
    /\ pc[r] \in OnRole \cup OnBody /\ call[r].op # "createRole" => role[r] \in RoleIds

TypeInv == TypeOK /\ \A r \in Requests : OnCourse(r)

LEMMA CallFacts ==
    ASSUME NEW c \in Calls
    PROVE  /\ c.op \in {"signUp", "createUser", "deleteUser", "createRole", "updateRole",
                        "deleteRole", "inactiveRole", "activeRole"}
           /\ c.target \in RoleIds \cup UserIds \cup {None}
           /\ c.op \in {"signUp", "createUser"} => c.body \in UserBody
           /\ c.op = "deleteUser" => c.target \in UserIds
           /\ c.op \in {"createRole", "updateRole"} => c.body \in RoleBody
           /\ c.op \in {"updateRole", "deleteRole", "inactiveRole", "activeRole"}
                 => c.target \in RoleIds
<1>1. c \in AnyCall
  BY RoleUsersAssumption
<1> QED
  BY <1>1 DEF AnyCall

LEMMA IdsOfRequests ==
    ASSUME NEW r \in Requests
    PROVE  r \in RoleIds /\ r \in UserIds
  BY DEF RoleIds, UserIds

LEMMA TypeInit == Init => TypeInv
<1> SUFFICES ASSUME Init PROVE TypeInv
  OBVIOUS
<1>1. roles \in [RoleIds -> Role \cup {None}]
  BY RoleUsersAssumption DEF Init
<1>2. users \in [UserIds -> User \cup {None}]
  BY RoleUsersAssumption DEF Init
<1> QED
  BY <1>1, <1>2 DEF Init, TypeInv, TypeOK, OnCourse, Creating, WithRole, Removing, OnRole, OnBody

\* Steps that only move a request keep the types, whatever the others do.
LEMMA Others ==
    ASSUME TypeInv, NEW r \in Requests,
           pc' = [pc EXCEPT ![r] = pc'[r]],
           call' = [call EXCEPT ![r] = call'[r]],
           role' = [role EXCEPT ![r] = role'[r]]
    PROVE  \A q \in Requests \ {r} : OnCourse(q)'
  BY DEF TypeInv, TypeOK, OnCourse

LEMMA RoleRecord ==
    ASSUME NEW doc \in Role
    PROVE  /\ \A b \in BOOLEAN : [doc EXCEPT !.isActive = b] \in Role
           /\ \A n \in Names, P \in SUBSET Permissions, F \in AccessFor :
                 [doc EXCEPT !.name = n, !.permissions = P, !.accessFor = F] \in Role
  BY DEF Role

LEMMA StartType ==
    ASSUME TypeInv, NEW r \in Requests, NEW c \in Calls, Start(r, c)
    PROVE  TypeInv'
<1>1. pc[r] = "idle" /\ c.target \in RoleIds \cup UserIds \cup {None}
  BY CallFacts DEF Start
<1>2. TypeOK'
  BY <1>1, CallFacts DEF TypeInv, TypeOK, Start, Goto, FirstStep, Steps
<1>3. OnCourse(r)'
  BY CallFacts DEF TypeInv, TypeOK, Start, Goto, FirstStep, OnCourse, Creating, WithRole, Removing,
                   OnRole, OnBody
<1>4. \A q \in Requests \ {r} : OnCourse(q)'
  BY Others DEF TypeInv, TypeOK, Start, Goto
<1> QED
  BY <1>2, <1>3, <1>4 DEF TypeInv

LEMMA UserStepType ==
    ASSUME TypeInv, NEW r \in Requests, UserStep(r)
    PROVE  TypeInv'
<1> USE DEF TypeInv, TypeOK
<1>1. CASE FindRole(r)
  <2>1. TypeOK' /\ OnCourse(r)'
    BY <1>1 DEF FindRole, At, Goto, Roles, Steps, Answers, OnCourse, Creating, WithRole, Removing,
                OnRole, OnBody
  <2>2. \A q \in Requests \ {r} : OnCourse(q)'
    BY <1>1, Others DEF FindRole, At, Goto
  <2> QED
    BY <2>1, <2>2
<1>2. CASE ExistUsername(r) \/ ExistEmail(r) \/ ExistMobileNumber(r) \/ FindUser(r)
  <2>1. TypeOK' /\ OnCourse(r)'
    BY <1>2 DEF ExistUsername, ExistEmail, ExistMobileNumber, FindUser, Check, At, Goto, Steps,
                Answers, OnCourse, Creating, WithRole, Removing, OnRole, OnBody
  <2>2. \A q \in Requests \ {r} : OnCourse(q)'
    BY <1>2, Others DEF ExistUsername, ExistEmail, ExistMobileNumber, FindUser, Check, At, Goto
  <2> QED
    BY <2>1, <2>2
<1>3. CASE InsertUser(r)
  <2>1. users' \in [UserIds -> User \cup {None}]
    <3>1. call[r].body \in UserBody /\ role[r] \in RoleIds
      BY <1>3, CallFacts DEF InsertUser, At, OnCourse, Creating, WithRole
    <3> QED
      BY <1>3, <3>1, IdsOfRequests DEF InsertUser, User, UserBody
  <2>2. TypeOK' /\ OnCourse(r)'
    BY <1>3, <2>1 DEF InsertUser, At, Goto, Answers, OnCourse, Creating, WithRole, Removing,
                      OnRole, OnBody
  <2>3. \A q \in Requests \ {r} : OnCourse(q)'
    BY <1>3, Others DEF InsertUser, At, Goto
  <2> QED
    BY <2>2, <2>3
<1>4. CASE DeleteUser(r)
  <2>1. TypeOK' /\ OnCourse(r)'
    BY <1>4 DEF DeleteUser, At, Goto, Answers, OnCourse, Creating, WithRole, Removing, OnRole, OnBody
  <2>2. \A q \in Requests \ {r} : OnCourse(q)'
    BY <1>4, Others DEF DeleteUser, At, Goto
  <2> QED
    BY <2>1, <2>2
<1> QED
  BY <1>1, <1>2, <1>3, <1>4 DEF UserStep

LEMMA RoleStepType ==
    ASSUME TypeInv, NEW r \in Requests, RoleStep(r)
    PROVE  TypeInv'
<1> USE DEF TypeInv, TypeOK
<1>1. CASE RoleDocument(r) \/ RoleUsed(r) \/ ExistsRole(r) \/ CheckPermissions(r)
  <2>1. call[r] \in Calls /\ pc[r] # "idle"
    BY <1>1 DEF RoleDocument, RoleUsed, ExistsRole, CheckPermissions, Check, At, OnCourse
  <2>2. call[r].op \in {"signUp", "createUser", "deleteUser", "createRole", "updateRole",
                        "deleteRole", "inactiveRole", "activeRole"}
    BY <2>1, CallFacts
  <2>3. pc' \in [Requests -> {"idle"} \cup Steps \cup Answers] /\ call' = call
    BY <1>1 DEF RoleDocument, RoleUsed, ExistsRole, CheckPermissions, Check, At, Goto, AfterGuards,
                Steps, Answers
  <2>4. TypeOK'
    BY <1>1, <2>3 DEF RoleDocument, RoleUsed, ExistsRole, CheckPermissions, Check
  <2>5. OnCourse(r)'
    <3>1. CASE RoleDocument(r)
      BY <3>1, <2>1, <2>2 DEF RoleDocument, At, Goto, AfterGuards, OnCourse, Creating, WithRole,
                              Removing, OnRole, OnBody
    <3>2. CASE RoleUsed(r)
      BY <3>2, <2>1, <2>2 DEF RoleUsed, Check, At, Goto, OnCourse, Creating, WithRole, Removing,
                              OnRole, OnBody
    <3>3. CASE ExistsRole(r)
      BY <3>3, <2>1, <2>2 DEF ExistsRole, Check, At, Goto, OnCourse, Creating, WithRole, Removing,
                              OnRole, OnBody
    <3>4. CASE CheckPermissions(r)
      BY <3>4, <2>1, <2>2 DEF CheckPermissions, Check, At, Goto, OnCourse, Creating, WithRole,
                              Removing, OnRole, OnBody
    <3> QED
      BY <1>1, <3>1, <3>2, <3>3, <3>4
  <2>6. \A q \in Requests \ {r} : OnCourse(q)'
    BY <1>1, <2>3, Others DEF RoleDocument, RoleUsed, ExistsRole, CheckPermissions, Check, Goto
  <2> QED
    BY <2>4, <2>5, <2>6
<1>2. CASE InsertRole(r)
  <2>1. roles' \in [RoleIds -> Role \cup {None}]
    <3>1. call[r].body \in RoleBody /\ call[r].body.permissions \subseteq Permissions
      BY <1>2, CallFacts DEF InsertRole, At, OnCourse, OnBody
    <3> DEFINE doc == [name |-> call[r].body.name, permissions |-> call[r].body.permissions,
                       accessFor |-> call[r].body.accessFor, isActive |-> TRUE]
    <3>2. /\ call[r].body.name \in Names /\ call[r].body.permissions \in SUBSET Permissions
          /\ call[r].body.accessFor \in AccessFor
      BY <3>1 DEF RoleBody, AccessFor
    <3>3. doc \in Role
      BY <3>2 DEF Role
    <3>4. roles' = [roles EXCEPT ![r] = doc] \/ roles' = roles
      BY <1>2 DEF InsertRole
    <3> QED
      BY <3>3, <3>4, IdsOfRequests
  <2>2. TypeOK' /\ OnCourse(r)'
    BY <1>2, <2>1 DEF InsertRole, At, Goto, Answers, OnCourse, Creating, WithRole, Removing,
                      OnRole, OnBody
  <2>3. \A q \in Requests \ {r} : OnCourse(q)'
    BY <1>2, Others DEF InsertRole, At, Goto
  <2> QED
    BY <2>2, <2>3
<1>3. CASE UpdateRole(r) \/ DeleteRole(r) \/ SetActive(r)
  <2>1. roles' \in [RoleIds -> Role \cup {None}]
    <3>1. CASE UpdateRole(r)
      <4>1. call[r].body \in RoleBody /\ call[r].body.permissions \subseteq Permissions
        BY <3>1, CallFacts DEF UpdateRole, At, OnCourse, OnBody
      <4>2. /\ call[r].body.name \in Names /\ call[r].body.accessFor \in AccessFor
            /\ role[r] \in Roles => roles[role[r]] \in Role /\ role[r] \in RoleIds
        BY <4>1 DEF RoleBody, AccessFor, Roles
      <4> DEFINE doc == [roles[role[r]] EXCEPT !.name = call[r].body.name,
                                               !.permissions = call[r].body.permissions,
                                               !.accessFor = call[r].body.accessFor]
      <4>3. role[r] \in Roles => doc \in Role
        BY <4>1, <4>2, RoleRecord
      <4>4. roles' = roles \/ (role[r] \in Roles /\ roles' = [roles EXCEPT ![role[r]] = doc])
        BY <3>1, <4>2 DEF UpdateRole
      <4> QED
        BY <4>2, <4>3, <4>4
    <3>2. CASE DeleteRole(r)
      BY <3>2 DEF DeleteRole
    <3>3. CASE SetActive(r)
      BY <3>3, RoleRecord DEF SetActive, Roles
    <3> QED
      BY <1>3, <3>1, <3>2, <3>3
  <2>2. /\ pc' = [pc EXCEPT ![r] = pc'[r]] /\ pc'[r] \in {"done", "error"}
        /\ UNCHANGED <<call, role, users>>
    BY <1>3 DEF UpdateRole, DeleteRole, SetActive, At, Goto
  <2>3. TypeOK' /\ OnCourse(r)'
    <3>1. pc[r] # "idle"
      BY <1>3 DEF UpdateRole, DeleteRole, SetActive, At
    <3> QED
      BY <2>1, <2>2, <3>1 DEF Answers, OnCourse, Creating, WithRole, Removing, OnRole, OnBody
  <2>4. \A q \in Requests \ {r} : OnCourse(q)'
    BY <2>2, Others
  <2> QED
    BY <2>3, <2>4
<1> QED
  BY <1>1, <1>2, <1>3 DEF RoleStep

LEMMA TypeStep == TypeInv /\ [Next]_vars => TypeInv'
<1>1. ASSUME TypeInv, UNCHANGED vars PROVE TypeInv'
  BY <1>1 DEF vars, TypeInv, TypeOK, OnCourse
<1> QED
  BY <1>1, StartType, UserStepType, RoleStepType DEF Next

\* Every variable keeps its type: in particular no stored role ever grants a permission
\* that is not stored, whatever the bodies name.
THEOREM TypeCorrect == Spec => []TypeOK
<1>1. TypeInv => TypeOK
  BY DEF TypeInv
<1> QED
  BY <1>1, TypeInit, TypeStep, PTL DEF Spec
-----------------------------------------------------------------------------
\* The indexes alone keep the keys apart, so uniqueness is inductive as it stands.
UniqueInv == TypeInv /\ UniqueKeys

LEMMA UserKeysStep ==
    ASSUME UniqueInv, NEW r \in Requests, UserStep(r)
    PROVE  UniqueKeys'
<1>1. roles' = roles
  BY DEF UserStep, FindRole, ExistUsername, ExistEmail, ExistMobileNumber, InsertUser, FindUser,
         DeleteUser, Check
<1>2. CASE users' = users
  BY <1>1, <1>2 DEF UniqueInv, UniqueKeys, Users, Roles
<1>3. CASE InsertUser(r) /\ users' # users
  <2>1. PICK doc \in User : UserFits(doc) /\ users' = [users EXCEPT ![r] = doc]
    <3>1. call[r].body \in UserBody /\ role[r] \in RoleIds
      BY <1>3, CallFacts DEF UniqueInv, TypeInv, InsertUser, At, OnCourse, Creating, WithRole
    <3> QED
      BY <1>3, <3>1 DEF InsertUser, User, UserBody
  <2>2. doc # None
    BY RoleUsersAssumption
  <2>3. /\ users'[r] = doc
        /\ Users' = Users \cup {r}
        /\ \A i \in Users \ {r} : users'[i] = users[i]
    BY <2>1, <2>2, IdsOfRequests DEF Users, UniqueInv, TypeInv, TypeOK
  <2>4. \A i \in Users : DifferentKeys(doc, users[i]) /\ DifferentKeys(users[i], doc)
    <3>1. \A i \in Users : users[i] \in User
      BY DEF Users, UniqueInv, TypeInv, TypeOK
    <3> QED
      BY <2>1, <3>1 DEF UserFits, DifferentKeys
  <2>5. \A i, j \in Users' : i # j => DifferentKeys(users'[i], users'[j])
    BY <2>3, <2>4 DEF UniqueInv, UniqueKeys
  <2> QED
    BY <1>1, <2>5 DEF UniqueInv, UniqueKeys, Roles, DifferentKeys
<1>4. CASE DeleteUser(r)
  <2>1. Users' \subseteq Users /\ \A i \in Users' : users'[i] = users[i]
    BY <1>4 DEF DeleteUser, Users, UniqueInv, TypeInv, TypeOK
  <2> QED
    BY <1>1, <2>1 DEF UniqueInv, UniqueKeys, Roles, DifferentKeys
<1> QED
  BY <1>2, <1>3, <1>4 DEF UserStep, FindRole, ExistUsername, ExistEmail, ExistMobileNumber, FindUser,
                          Check

\* Storing a name that no other role has.
LEMMA RoleNameStep ==
    ASSUME UniqueInv, UNCHANGED users, NEW i \in RoleIds,
           roles' = [roles EXCEPT ![i] = roles'[i]],
           \/ roles'[i] = None
           \/ NameFree(roles'[i].name, {i})
    PROVE  UniqueKeys'
<1>1. \A j \in Roles' \ {i} : j \in Roles /\ roles'[j] = roles[j]
  BY DEF Roles, UniqueInv, TypeInv, TypeOK
<1>2. \A j, k \in Roles' : j # k => roles'[j].name # roles'[k].name
  BY <1>1 DEF UniqueInv, UniqueKeys, NameFree, Roles
<1> QED
  BY <1>2 DEF UniqueInv, UniqueKeys, Users, DifferentKeys

LEMMA RoleKeysStep ==
    ASSUME UniqueInv, NEW r \in Requests, RoleStep(r)
    PROVE  UniqueKeys'
<1>0. roles \in [RoleIds -> Role \cup {None}] /\ r \in RoleIds
  BY IdsOfRequests DEF UniqueInv, TypeInv, TypeOK
<1>1. users' = users
  BY DEF RoleStep, RoleDocument, RoleUsed, ExistsRole, CheckPermissions, InsertRole, UpdateRole,
         DeleteRole, SetActive, Check
<1>2. CASE roles' = roles
  BY <1>1, <1>2 DEF UniqueInv, UniqueKeys, Users, Roles, DifferentKeys
<1>3. CASE InsertRole(r) /\ roles' # roles
  BY <1>0, <1>1, <1>3, RoleNameStep DEF InsertRole, NameFree
<1>4. CASE UpdateRole(r) /\ roles' # roles
  <2>1. /\ role[r] \in Roles /\ roles[role[r]] \in Role
        /\ NameFree(call[r].body.name, {role[r]})
        /\ roles' = [roles EXCEPT ![role[r]] = [roles[role[r]] EXCEPT !.name = call[r].body.name,
                                       !.permissions = call[r].body.permissions,
                                       !.accessFor = call[r].body.accessFor]]
    BY <1>0, <1>4 DEF UpdateRole, Roles
  <2>2. roles'[role[r]].name = call[r].body.name
    BY <1>0, <2>1 DEF Role, Roles
  <2>3. role[r] \in RoleIds
    BY <2>1 DEF Roles
  <2> QED
    BY <1>0, <1>1, <2>1, <2>2, <2>3, RoleNameStep
<1>5. CASE DeleteRole(r)
  <2>1. role[r] \in RoleIds
    BY <1>5 DEF DeleteRole, At, UniqueInv, TypeInv, OnCourse, OnRole
  <2> QED
    BY <1>0, <1>1, <1>5, <2>1, RoleNameStep DEF DeleteRole
<1>6. CASE SetActive(r) /\ roles' # roles
  <2>1. /\ role[r] \in Roles /\ role[r] \in RoleIds /\ roles[role[r]] \in Role
        /\ roles' = [roles EXCEPT ![role[r]] =
                        [roles[role[r]] EXCEPT !.isActive = (call[r].op = "activeRole")]]
    BY <1>0, <1>6 DEF SetActive, Roles
  <2>2. roles'[role[r]].name = roles[role[r]].name
    BY <1>0, <2>1 DEF Role
  <2>3. NameFree(roles'[role[r]].name, {role[r]})
    BY <2>1, <2>2 DEF UniqueInv, UniqueKeys, NameFree
  <2> QED
    BY <1>0, <1>1, <2>1, <2>3, RoleNameStep
<1> QED
  BY <1>2, <1>3, <1>4, <1>5, <1>6
     DEF RoleStep, RoleDocument, RoleUsed, ExistsRole, CheckPermissions, Check

\* No interleaving of checks and inserts stores a key twice: the indexes, not the checks
\* before them, are what guarantees it.
THEOREM KeysUnique == Spec => []UniqueKeys
<1>1. Init => UniqueInv
  <2> SUFFICES ASSUME Init PROVE UniqueKeys
    BY TypeInit DEF UniqueInv
  <2>1. /\ \A i \in Users : i \in DOMAIN SeedUsers /\ users[i] = SeedUsers[i]
        /\ \A i \in Roles : i \in DOMAIN SeedRoles /\ roles[i] = SeedRoles[i]
    BY DEF Init, Users, Roles
  <2> QED
    BY <2>1, RoleUsersAssumption DEF UniqueKeys
<1>2. UniqueInv /\ [Next]_vars => UniqueInv'
  <2> SUFFICES ASSUME UniqueInv, [Next]_vars PROVE UniqueKeys'
    BY TypeStep DEF UniqueInv
  <2>1. CASE UNCHANGED <<roles, users>>
    BY <2>1 DEF UniqueInv, UniqueKeys, Users, Roles, DifferentKeys
  <2> QED
    BY <2>1, UserKeysStep, RoleKeysStep DEF Next, vars, Start
<1>3. UniqueInv => UniqueKeys
  BY DEF UniqueInv
<1> QED
  BY <1>1, <1>2, <1>3, PTL DEF Spec
-----------------------------------------------------------------------------
\* What the handlers store: a role of their own, or a new version of one that exists.
LEMMA RolesWritten ==
    ASSUME TypeInv, NEW r \in Requests, RoleStep(r), ~DeleteRole(r)
    PROVE  \/ roles' = roles
           \/ \E i \in RoleIds, doc \in Role :
                 /\ roles' = [roles EXCEPT ![i] = doc]
                 /\ \/ InsertRole(r) /\ i = r
                    \/ /\ i \in Roles /\ i = role[r]
                       /\ UpdateRole(r) \/ Content(doc) = Content(roles[i])
<1> USE DEF TypeInv, TypeOK
<1>1. CASE InsertRole(r)
  <2>1. call[r].body \in RoleBody /\ call[r].body.permissions \subseteq Permissions
    BY <1>1, CallFacts DEF InsertRole, At, OnCourse, OnBody
  <2> QED
    BY <1>1, <2>1, IdsOfRequests DEF InsertRole, Role, RoleBody, AccessFor
<1>2. CASE UpdateRole(r) /\ roles' # roles
  <2>1. call[r].body \in RoleBody /\ call[r].body.permissions \subseteq Permissions
    BY <1>2, CallFacts DEF UpdateRole, At, OnCourse, OnBody
  <2>2. role[r] \in Roles /\ role[r] \in RoleIds /\ roles[role[r]] \in Role
    BY <1>2 DEF UpdateRole, Roles
  <2> DEFINE doc == [roles[role[r]] EXCEPT !.name = call[r].body.name,
                                           !.permissions = call[r].body.permissions,
                                           !.accessFor = call[r].body.accessFor]
  <2>3. doc \in Role
    BY <2>1, <2>2, RoleRecord DEF RoleBody, AccessFor
  <2>4. roles' = [roles EXCEPT ![role[r]] = doc]
    BY <1>2, <2>2 DEF UpdateRole
  <2> QED
    BY <1>2, <2>2, <2>3, <2>4
<1>3. CASE SetActive(r) /\ roles' # roles
  <2>1. role[r] \in Roles /\ role[r] \in RoleIds /\ roles[role[r]] \in Role
    BY <1>3 DEF SetActive, Roles
  <2> DEFINE doc == [roles[role[r]] EXCEPT !.isActive = (call[r].op = "activeRole")]
  <2>2. /\ doc \in Role /\ doc.name = roles[role[r]].name
        /\ doc.permissions = roles[role[r]].permissions /\ doc.accessFor = roles[role[r]].accessFor
    BY <2>1, RoleRecord DEF Role
  <2>3. Content(doc) = Content(roles[role[r]])
    BY <2>1, <2>2, RoleUsersAssumption DEF Content
  <2>4. roles' = [roles EXCEPT ![role[r]] = doc]
    BY <1>3, <2>1 DEF SetActive
  <2> QED
    BY <2>1, <2>2, <2>3, <2>4
<1> QED
  BY <1>1, <1>2, <1>3 DEF RoleStep, RoleDocument, RoleUsed, ExistsRole, CheckPermissions, UpdateRole,
                          SetActive, Check
-----------------------------------------------------------------------------
SerialNext == Next /\ Cardinality(InFlight') <= 1

Held(i) == \E u \in Users : users[u].role = i

\* While one request is handled at a time, what its checks found is still so at its
\* write: the role it will assign exists, the role it will change is held by nobody,
\* and nothing is stored yet under the id it will insert.
Checked(r) ==
    /\ pc[r] \in WithRole => role[r] \in Roles
    /\ pc[r] = "deleteRole" \/ (pc[r] \in OnBody /\ call[r].op = "updateRole")
          => ~Held(role[r])
    /\ pc[r] \in {"idle"} \cup Steps => r \notin Users \cup Roles

SerialInv ==
    /\ TypeInv
    /\ NoDanglingRole
    /\ \A q, r \in InFlight : q = r
    /\ \A r \in Requests : Checked(r)

LEMMA AtMostOne ==
    ASSUME NEW S \in SUBSET Requests, Cardinality(S) <= 1
    PROVE  \A q, r \in S : q = r
<1> SUFFICES ASSUME NEW q \in S, NEW r \in S, q # r PROVE FALSE
  OBVIOUS
<1>1. IsFiniteSet(S) /\ Cardinality(S) \in Nat
  BY RoleUsersAssumption, FS_Subset, FS_CardinalityType
<1>2. Cardinality({q} \cup {r}) = 2
  <2>1. IsFiniteSet({q}) /\ Cardinality({q}) = 1
    BY FS_Singleton
  <2> QED
    BY <2>1, FS_AddElement
<1>3. Cardinality({q} \cup {r}) <= Cardinality(S)
  BY <1>1, FS_Subset
<1> QED
  BY <1>1, <1>2, <1>3

\* Nobody else is under way when a request takes a step.
LEMMA Alone ==
    ASSUME SerialInv, SerialNext, NEW r \in Requests,
           (\E c \in Calls : Start(r, c)) \/ UserStep(r) \/ RoleStep(r)
    PROVE  /\ \A q \in Requests \ {r} : pc[q] \notin Steps /\ UNCHANGED <<pc[q], call[q], role[q]>>
           /\ \A p, q \in InFlight' : p = q
<1>1. \A p, q \in InFlight' : p = q
  BY AtMostOne DEF SerialNext, InFlight
<1>2. \A q \in Requests \ {r} : UNCHANGED <<pc[q], call[q], role[q]>>
  BY DEF SerialInv, TypeInv, TypeOK, Start, UserStep, FindRole, ExistUsername, ExistEmail,
         ExistMobileNumber, InsertUser, FindUser, DeleteUser, RoleStep, RoleDocument, RoleUsed,
         ExistsRole, CheckPermissions, InsertRole, UpdateRole, DeleteRole, SetActive, Check, At, Goto
<1>3. r \in InFlight \/ r \in InFlight'
  <2>1. CASE \E c \in Calls : Start(r, c)
    BY <2>1 DEF SerialInv, TypeInv, TypeOK, Start, Goto, FirstStep, Steps, InFlight
  <2>2. CASE UserStep(r) \/ RoleStep(r)
    BY <2>2 DEF UserStep, FindRole, ExistUsername, ExistEmail, ExistMobileNumber, InsertUser,
                FindUser, DeleteUser, RoleStep, RoleDocument, RoleUsed, ExistsRole,
                CheckPermissions, InsertRole, UpdateRole, DeleteRole, SetActive, Check, At,
                Steps, InFlight
  <2> QED
    BY <2>1, <2>2
<1>4. \A q \in Requests \ {r} : q \notin InFlight
  BY <1>1, <1>2, <1>3 DEF SerialInv, InFlight
<1> QED
  BY <1>1, <1>2, <1>4 DEF InFlight

\* A request that is not under way has nothing checked, wherever its document is.
LEMMA OthersChecked ==
    ASSUME SerialInv, NEW r \in Requests,
           \A q \in Requests \ {r} : pc[q] \notin Steps /\ UNCHANGED <<pc[q], call[q], role[q]>>,
           Users' \subseteq Users \cup {r},
           Roles' \subseteq Roles \cup {r}
    PROVE  \A q \in Requests \ {r} : Checked(q)'
  BY DEF SerialInv, Checked, Steps, WithRole, Creating, OnBody

\* A role is deleted or changed only by the request that found it unused.
LEMMA UserChecked ==
    ASSUME SerialInv, NEW r \in Requests, UserStep(r)
    PROVE  /\ NoDanglingRole' /\ Checked(r)'
           /\ Users' \subseteq Users \cup {r} /\ Roles' \subseteq Roles \cup {r}
<1> USE DEF SerialInv, TypeInv, TypeOK
<1>1. roles' = roles /\ Roles' = Roles
  BY DEF UserStep, FindRole, ExistUsername, ExistEmail, ExistMobileNumber, InsertUser, FindUser,
         DeleteUser, Check, Roles
<1>2. CASE FindRole(r)
  BY <1>1, <1>2 DEF FindRole, At, Goto, NoDanglingRole, Users, Checked, WithRole, Creating, OnBody,
                    Steps
<1>3. CASE ExistUsername(r) \/ ExistEmail(r) \/ ExistMobileNumber(r) \/ FindUser(r)
  <2>1. NoDanglingRole' /\ Users' = Users
    BY <1>1, <1>3 DEF ExistUsername, ExistEmail, ExistMobileNumber, FindUser, Check, NoDanglingRole,
                      Users
  <2>2. Checked(r)'
    BY <1>1, <1>3, <2>1 DEF ExistUsername, ExistEmail, ExistMobileNumber, FindUser, Check, At, Goto,
                            Checked, WithRole, Creating, OnBody, Steps
  <2> QED
    BY <1>1, <2>1, <2>2
<1>4. CASE InsertUser(r)
  <2>1. \/ users' = users
        \/ \E doc \in User : /\ users' = [users EXCEPT ![r] = doc]
                             /\ doc.role = role[r]
    <3>1. call[r].body \in UserBody /\ role[r] \in RoleIds
      BY <1>4, CallFacts DEF InsertUser, At, OnCourse, Creating, WithRole
    <3> QED
      BY <1>4, <3>1 DEF InsertUser, User, UserBody
  <2>2. role[r] \in Roles
    BY <1>4 DEF InsertUser, At, Checked, WithRole, Creating
  <2>3. NoDanglingRole' /\ Users' \subseteq Users \cup {r}
    BY <1>1, <2>1, <2>2, IdsOfRequests DEF NoDanglingRole, Users
  <2>4. Checked(r)'
    BY <1>4 DEF InsertUser, At, Goto, Checked, WithRole, Creating, OnBody, Steps
  <2> QED
    BY <1>1, <2>3, <2>4
<1>5. CASE DeleteUser(r)
  <2>1. NoDanglingRole' /\ Users' \subseteq Users
    BY <1>1, <1>5 DEF DeleteUser, NoDanglingRole, Users
  <2>2. Checked(r)'
    BY <1>5 DEF DeleteUser, At, Goto, Checked, WithRole, Creating, OnBody, Steps
  <2> QED
    BY <1>1, <2>1, <2>2
<1> QED
  BY <1>2, <1>3, <1>4, <1>5 DEF UserStep

LEMMA RoleChecked ==
    ASSUME SerialInv, NEW r \in Requests, RoleStep(r)
    PROVE  /\ NoDanglingRole' /\ Checked(r)'
           /\ Users' \subseteq Users \cup {r} /\ Roles' \subseteq Roles \cup {r}
<1> USE DEF SerialInv, TypeInv, TypeOK
<1>1. users' = users /\ Users' = Users /\ role' = role /\ call' = call
  BY DEF RoleStep, RoleDocument, RoleUsed, ExistsRole, CheckPermissions, InsertRole, UpdateRole,
         DeleteRole, SetActive, Check, At, Users
<1>2. CASE RoleDocument(r) \/ RoleUsed(r) \/ ExistsRole(r) \/ CheckPermissions(r)
  <2>1. roles' = roles /\ Roles' = Roles /\ NoDanglingRole'
    BY <1>1, <1>2 DEF RoleDocument, RoleUsed, ExistsRole, CheckPermissions, Check, NoDanglingRole, Roles
  <2>2. Held(role[r])' = Held(role[r])
    BY <1>1 DEF Held
  <2>3. Checked(r)'
    <3>1. CASE RoleDocument(r)
      BY <1>1, <2>1, <3>1 DEF RoleDocument, At, Goto, AfterGuards, Checked, WithRole, Creating, OnBody,
                              Steps
    <3>2. CASE RoleUsed(r)
      BY <1>1, <2>1, <2>2, <3>2 DEF RoleUsed, Check, At, Goto, Held, Checked, WithRole, Creating,
                                    OnBody, Steps
    <3>3. CASE ExistsRole(r) \/ CheckPermissions(r)
      BY <1>1, <2>1, <2>2, <3>3 DEF ExistsRole, CheckPermissions, Check, At, Goto, Checked, WithRole,
                                    Creating, OnBody, Steps
    <3> QED
      BY <1>2, <3>1, <3>2, <3>3
  <2> QED
    BY <1>1, <2>1, <2>3
<1>3. CASE InsertRole(r) \/ UpdateRole(r) \/ DeleteRole(r) \/ SetActive(r)
  <2>1. Checked(r)'
    BY <1>3 DEF InsertRole, UpdateRole, DeleteRole, SetActive, At, Goto, Checked, WithRole, Creating,
                OnBody, Steps
  <2>2. Roles' \subseteq Roles \cup {r}
    BY <1>3 DEF InsertRole, UpdateRole, DeleteRole, SetActive, Roles
  <2>3. NoDanglingRole'
    <3>1. CASE DeleteRole(r)
      <4>1. ~Held(role[r]) /\ \A i \in Roles \ {role[r]} : i \in Roles'
        BY <3>1 DEF DeleteRole, At, Checked, Roles
      <4> QED
        BY <1>1, <4>1 DEF NoDanglingRole, Held
    <3>2. CASE InsertRole(r) \/ UpdateRole(r) \/ SetActive(r)
      <4>1. Roles \subseteq Roles'
        <5>1. \A i \in RoleIds, doc \in Role :
                 roles' = [roles EXCEPT ![i] = doc] => Roles \subseteq Roles'
          BY RoleUsersAssumption DEF Roles
        <5>2. ~DeleteRole(r)
          BY <3>2 DEF InsertRole, UpdateRole, SetActive, DeleteRole, At
        <5>3. roles' = roles \/ \E i \in RoleIds, doc \in Role : roles' = [roles EXCEPT ![i] = doc]
          <6>1. TypeInv
            OBVIOUS
          <6> HIDE DEF TypeInv, TypeOK
          <6> QED
            BY <5>2, <6>1, RolesWritten
        <5>4. roles' = roles => Roles' = Roles
          BY DEF Roles
        <5> QED
          BY <5>1, <5>3, <5>4
      <4> QED
        BY <1>1, <4>1 DEF NoDanglingRole
    <3> QED
      BY <1>3, <3>1, <3>2
  <2> QED
    BY <1>1, <2>1, <2>2, <2>3
<1> QED
  BY <1>2, <1>3 DEF RoleStep

LEMMA SerialInit == Init => SerialInv
<1> SUFFICES ASSUME Init PROVE SerialInv
  OBVIOUS
<1>1. NoDanglingRole
  <2>1. \A i \in DOMAIN SeedRoles : i \in Roles
    BY RoleUsersAssumption DEF Init, Roles, RoleIds
  <2> QED
    BY <2>1, RoleUsersAssumption DEF Init, NoDanglingRole, Users
<1>2. \A r \in Requests : r \notin Users \cup Roles
  BY RoleUsersAssumption DEF Init, Users, Roles
<1>3. InFlight = {}
  BY DEF Init, InFlight, Steps
<1> QED
  BY <1>1, <1>2, <1>3, TypeInit
     DEF SerialInv, Init, Checked, WithRole, Creating, OnBody

LEMMA SerialStep == SerialInv /\ [SerialNext]_vars => SerialInv'
<1> SUFFICES ASSUME SerialInv, [SerialNext]_vars PROVE SerialInv'
  OBVIOUS
<1>1. TypeInv'
  BY TypeStep DEF SerialInv, SerialNext
<1>2. CASE UNCHANGED vars
  <2>1. NoDanglingRole' /\ \A r \in Requests : Checked(r)'
    BY <1>2 DEF vars, SerialInv, NoDanglingRole, Checked, Held, Users, Roles
  <2> QED
    BY <1>1, <1>2, <2>1 DEF vars, SerialInv, InFlight
<1>3. ASSUME SerialNext, NEW r \in Requests,
             (\E c \in Calls : Start(r, c)) \/ UserStep(r) \/ RoleStep(r)
      PROVE  SerialInv'
  <2>1. /\ \A q \in Requests \ {r} : pc[q] \notin Steps /\ UNCHANGED <<pc[q], call[q], role[q]>>
        /\ \A p, q \in InFlight' : p = q
    BY <1>3, Alone
  <2>2. /\ NoDanglingRole' /\ Checked(r)'
        /\ Users' \subseteq Users \cup {r} /\ Roles' \subseteq Roles \cup {r}
    <3>1. CASE \E c \in Calls : Start(r, c)
      <4>1. Users' = Users /\ Roles' = Roles /\ NoDanglingRole'
        BY <3>1 DEF Start, Users, Roles, SerialInv, NoDanglingRole
      <4>2. Checked(r)'
        BY <3>1, <4>1 DEF Start, Goto, FirstStep, SerialInv, TypeInv, TypeOK, Checked, WithRole,
                          Creating, OnBody, Steps
      <4> QED
        BY <4>1, <4>2
    <3> QED
      BY <1>3, <3>1, UserChecked, RoleChecked
  <2>3. \A q \in Requests \ {r} : Checked(q)'
    BY <2>1, <2>2, OthersChecked
  <2> QED
    BY <1>1, <2>1, <2>2, <2>3 DEF SerialInv
<1> QED
  BY <1>2, <1>3 DEF SerialNext, Next

\* One request at a time, the guard on used roles works: no user is ever left with a
\* role that is gone, whatever is asked for and in whatever order.
THEOREM RolesExist == SerialSpec => []NoDanglingRole
<1>1. SerialInv => NoDanglingRole
  BY DEF SerialInv
<1> QED
  BY <1>1, SerialInit, SerialStep, PTL DEF SerialSpec, SerialNext
-----------------------------------------------------------------------------
Explained(r) ==
    /\ call[r].op \in {"signUp", "createUser"}
    /\ \/ call[r].body.email \in NoPattern
       \/ <<call[r].body.email, call[r].body.email>> \notin Matching

\* While one request is handled at a time, a key that its checks found free is still
\* free when it is stored.
FreeKeys(r) ==
    /\ pc[r] \in {"email", "mobile", "insertUser"}
          => \A i \in Users : users[i].username # call[r].body.username
    /\ pc[r] \in {"mobile", "insertUser"} => EmailFree(call[r].body.email)
    /\ pc[r] = "insertUser" => \/ call[r].body.mobileNumber = NoMobile
                               \/ \A i \in Users : users[i].mobileNumber # call[r].body.mobileNumber
    /\ pc[r] \in {"permissions", "insertRole", "updateRole"}
          => NameFree(call[r].body.name, IF call[r].op = "updateRole" THEN {role[r]} ELSE {})
    /\ pc[r] = "error" => Explained(r)

SufficeInv == SerialInv /\ \A r \in Requests : FreeKeys(r)

LEMMA UserFreeKeys ==
    ASSUME SufficeInv, NEW r \in Requests, UserStep(r)
    PROVE  FreeKeys(r)'
<1>1. /\ FreeKeys(r) /\ call' = call
      /\ pc \in [Requests -> {"idle"} \cup Steps \cup Answers]
  BY DEF SufficeInv, SerialInv, TypeInv, TypeOK, UserStep, FindRole, ExistUsername, ExistEmail,
         ExistMobileNumber, InsertUser, FindUser, DeleteUser, Check, At
<1>2. CASE FindRole(r) \/ FindUser(r) \/ DeleteUser(r)
  BY <1>1, <1>2 DEF FindRole, FindUser, DeleteUser, Check, At, Goto, FreeKeys
<1>3. CASE ExistUsername(r) \/ ExistEmail(r) \/ ExistMobileNumber(r)
  <2>1. /\ users' = users /\ Users' = Users
        /\ EmailFree(call[r].body.email)' = EmailFree(call[r].body.email)
    BY <1>1, <1>3 DEF ExistUsername, ExistEmail, ExistMobileNumber, Check, Users, EmailFree
  <2>2. CASE ExistUsername(r)
    BY <1>1, <2>1, <2>2 DEF ExistUsername, UsernameFree, Check, At, Goto, FreeKeys
  <2>3. CASE ExistEmail(r)
    <3>1. call[r].op \in {"signUp", "createUser"}
      BY <2>3 DEF ExistEmail, Check, At, SufficeInv, SerialInv, TypeInv, OnCourse, Creating
    <3> QED
      BY <1>1, <2>1, <2>3, <3>1 DEF ExistEmail, Check, At, Goto, FreeKeys, Explained
  <2>4. CASE ExistMobileNumber(r)
    BY <1>1, <2>1, <2>4 DEF ExistMobileNumber, MobileNumberFree, Check, At, Goto, FreeKeys
  <2> QED
    BY <1>3, <2>2, <2>3, <2>4
<1>4. CASE InsertUser(r)
  <2> DEFINE doc == [username |-> call[r].body.username, email |-> call[r].body.email,
                     mobileNumber |-> call[r].body.mobileNumber, role |-> role[r]]
  <2>1. pc[r] = "insertUser" /\ call[r].op \in {"signUp", "createUser"}
    BY <1>4 DEF InsertUser, At, SufficeInv, SerialInv, TypeInv, OnCourse, Creating
  <2>2. ASSUME ~UserFits(doc)
        PROVE  Explained(r)
    <3>1. PICK i \in Users : ~DifferentKeys(doc, users[i])
      BY <2>2 DEF UserFits
    <3>2. /\ users[i].username # doc.username
          /\ doc.mobileNumber = NoMobile \/ users[i].mobileNumber # doc.mobileNumber
          /\ <<users[i].email, doc.email>> \notin Matching
      BY <1>1, <2>1 DEF FreeKeys, EmailFree
    <3>3. users[i].email = doc.email
      BY <3>1, <3>2 DEF DifferentKeys
    <3> QED
      BY <2>1, <3>2, <3>3 DEF Explained
  <2>3. \/ UserFits(doc) /\ pc'[r] = "done"
        \/ ~UserFits(doc) /\ pc'[r] = "error"
    BY <1>1, <1>4 DEF InsertUser, Goto
  <2> QED
    BY <1>1, <2>2, <2>3 DEF FreeKeys, Explained
<1> QED
  BY <1>2, <1>3, <1>4 DEF UserStep

LEMMA RoleFreeKeys ==
    ASSUME SufficeInv, NEW r \in Requests, RoleStep(r)
    PROVE  FreeKeys(r)'
<1>1. /\ FreeKeys(r) /\ call' = call /\ role' = role
      /\ pc \in [Requests -> {"idle"} \cup Steps \cup Answers]
  BY DEF SufficeInv, SerialInv, TypeInv, TypeOK, RoleStep, RoleDocument, RoleUsed, ExistsRole,
         CheckPermissions, InsertRole, UpdateRole, DeleteRole, SetActive, Check, At
<1>2. CASE RoleDocument(r) \/ RoleUsed(r) \/ DeleteRole(r) \/ SetActive(r)
  BY <1>1, <1>2 DEF RoleDocument, RoleUsed, DeleteRole, SetActive, Check, At, Goto, AfterGuards,
                    FreeKeys
<1>3. CASE ExistsRole(r) \/ CheckPermissions(r)
  <2>1. \A n, X : NameFree(n, X)' = NameFree(n, X)
    BY <1>3 DEF ExistsRole, CheckPermissions, Check, NameFree, Roles
  <2> QED
    BY <1>1, <1>3, <2>1 DEF ExistsRole, CheckPermissions, Check, At, Goto, FreeKeys
<1>4. CASE InsertRole(r)
  <2>1. NameFree(call[r].body.name, {})
    BY <1>1, <1>4 DEF InsertRole, At, FreeKeys, SufficeInv, SerialInv, TypeInv, OnCourse
  <2>2. pc'[r] = "done"
    BY <1>1, <1>4, <2>1 DEF InsertRole, Goto
  <2> QED
    BY <2>2 DEF FreeKeys
<1>5. CASE UpdateRole(r)
  <2>1. NameFree(call[r].body.name, {role[r]})
    BY <1>1, <1>5 DEF UpdateRole, At, FreeKeys, SufficeInv, SerialInv, TypeInv, OnCourse
  <2>2. pc'[r] = "done"
    BY <1>1, <1>5, <2>1 DEF UpdateRole, Goto
  <2> QED
    BY <2>2 DEF FreeKeys
<1> QED
  BY <1>2, <1>3, <1>4, <1>5 DEF RoleStep

LEMMA SufficeStep == SufficeInv /\ [SerialNext]_vars => SufficeInv'
<1> SUFFICES ASSUME SufficeInv, [SerialNext]_vars PROVE SufficeInv'
  OBVIOUS
<1>1. SerialInv'
  BY SerialStep DEF SufficeInv
<1>2. CASE UNCHANGED vars
  BY <1>1, <1>2 DEF vars, SufficeInv, FreeKeys, EmailFree, NameFree, Users, Roles, Explained
<1>3. ASSUME SerialNext, NEW r \in Requests,
             (\E c \in Calls : Start(r, c)) \/ UserStep(r) \/ RoleStep(r)
      PROVE  SufficeInv'
  <2>1. \A q \in Requests \ {r} : pc[q] \notin Steps /\ UNCHANGED <<pc[q], call[q], role[q]>>
    BY <1>3, Alone DEF SufficeInv
  <2>2. \A q \in Requests \ {r} : FreeKeys(q)'
    BY <2>1 DEF SufficeInv, FreeKeys, Explained, Steps
  <2>3. FreeKeys(r)'
    <3>1. CASE \E c \in Calls : Start(r, c)
      <4>1. pc'[r] \in {"findRole", "findUser", "exists", "document"}
        BY <3>1 DEF Start, Goto, FirstStep, SufficeInv, SerialInv, TypeInv, TypeOK
      <4> QED
        BY <4>1 DEF FreeKeys
    <3> QED
      BY <1>3, <3>1, UserFreeKeys, RoleFreeKeys
  <2> QED
    BY <1>1, <2>2, <2>3 DEF SufficeInv
<1> QED
  BY <1>2, <1>3 DEF SerialNext, Next

\* One request at a time, a request fails at the database only for an e-mail that is no
\* pattern, or that does not match itself: every other conflict is answered before.
THEOREM ChecksAreComplete == SerialSpec => []ChecksSuffice
<1>1. Init => SufficeInv
  BY SerialInit DEF Init, SufficeInv, FreeKeys
<1>2. SufficeInv => ChecksSuffice
  BY DEF SufficeInv, FreeKeys, Explained, ChecksSuffice
<1> QED
  BY <1>1, <1>2, SufficeStep, PTL DEF SerialSpec, SerialNext
-----------------------------------------------------------------------------
content == [i \in RoleIds |-> Content(roles[i])]
holds == [i \in UserIds |-> IF users[i] = None THEN None ELSE users[i].role]

LEMMA HeldInContent ==
    ASSUME SerialInv, NEW i \in RoleIds
    PROVE  References!Used(i) <=> Held(i)
  BY RoleUsersAssumption DEF References!Used, Held, Users

LEMMA ContentExists ==
    ASSUME NEW doc \in Role \cup {None}
    PROVE  Content(doc) = None <=> doc = None
<1>1. doc # None => Content(doc) \in Payload
  BY RoleUsersAssumption DEF Content, Role, Payload
<1> QED
  BY <1>1, RoleUsersAssumption DEF Content

LEMMA UserReferences ==
    ASSUME SerialInv, NEW r \in Requests, UserStep(r)
    PROVE  References!Next \/ UNCHANGED <<content, holds>>
<1> USE DEF SerialInv, TypeInv, TypeOK
<1>1. content' = content
  BY DEF UserStep, FindRole, ExistUsername, ExistEmail, ExistMobileNumber, InsertUser, FindUser,
         DeleteUser, Check, content
<1>2. CASE users' = users
  BY <1>1, <1>2 DEF holds
<1>3. CASE InsertUser(r) /\ users' # users
  <2>1. PICK doc \in User : users' = [users EXCEPT ![r] = doc] /\ doc.role = role[r]
    <3>1. call[r].body \in UserBody /\ role[r] \in RoleIds
      BY <1>3, CallFacts DEF InsertUser, At, OnCourse, Creating, WithRole
    <3> QED
      BY <1>3, <3>1 DEF InsertUser, User, UserBody
  <2>2. r \in UserIds /\ r \notin Users /\ role[r] \in Roles
    BY <1>3, IdsOfRequests DEF InsertUser, At, Checked, WithRole, Creating, Steps
  <2>3. holds[r] = None
    BY <2>2 DEF holds, Users
  <2>4. role[r] \in RoleIds /\ content[role[r]] # None
    BY <2>2, ContentExists DEF content, Roles
  <2>5. holds' = [holds EXCEPT ![r] = role[r]]
    BY <2>1, <2>2, RoleUsersAssumption DEF holds
  <2>6. PICK i \in RoleIds : i = role[r]
    BY <2>4
  <2>7. References!AddUser(r, i)
    BY <1>1, <2>3, <2>4, <2>5, <2>6 DEF References!AddUser, content, holds
  <2> QED
    BY <2>2, <2>7 DEF References!Next
<1>4. CASE DeleteUser(r)
  <2>1. PICK u \in UserIds : u = call[r].target
    BY <1>4, CallFacts DEF DeleteUser, At, OnCourse, Removing
  <2>2. holds' = [holds EXCEPT ![u] = None]
    BY <1>4, <2>1 DEF DeleteUser, holds
  <2>3. References!RemoveUser(u)
    BY <1>1, <2>2 DEF References!RemoveUser, content, holds
  <2> QED
    BY <2>3 DEF References!Next
<1> QED
  BY <1>2, <1>3, <1>4 DEF UserStep, FindRole, ExistUsername, ExistEmail, ExistMobileNumber, FindUser,
                          Check

LEMMA RoleReference ==
    ASSUME SerialInv, NEW r \in Requests, RoleStep(r)
    PROVE  References!Next \/ UNCHANGED <<content, holds>>
<1>1. roles \in [RoleIds -> Role \cup {None}] /\ holds' = holds
  BY DEF SerialInv, TypeInv, TypeOK, RoleStep, RoleDocument, RoleUsed, ExistsRole, CheckPermissions,
         InsertRole, UpdateRole, DeleteRole, SetActive, Check, holds
<1>2. ASSUME NEW i \in RoleIds, NEW doc \in Role \cup {None}, ~Held(i),
             roles' = [roles EXCEPT ![i] = doc]
      PROVE  References!Next
  <2>1. content' = [content EXCEPT ![i] = content'[i]]
    BY <1>1, <1>2 DEF content
  <2>2. ~References!Used(i)
    BY <1>2, HeldInContent
  <2>3. References!SetRole(i)
    BY <1>1, <2>1, <2>2 DEF References!SetRole, content, holds
  <2> QED
    BY <2>3 DEF References!Next
<1>3. CASE DeleteRole(r)
  <2>1. role[r] \in RoleIds /\ ~Held(role[r])
    BY <1>3 DEF DeleteRole, At, SerialInv, TypeInv, OnCourse, OnRole, Checked
  <2> QED
    BY <1>2, <1>3, <2>1 DEF DeleteRole
<1>4. CASE roles' = roles
  BY <1>1, <1>4 DEF content
<1>5. ASSUME NEW i \in RoleIds, NEW doc \in Role, roles' = [roles EXCEPT ![i] = doc],
             \/ InsertRole(r) /\ i = r
             \/ /\ i \in Roles /\ i = role[r]
                /\ UpdateRole(r) \/ Content(doc) = Content(roles[i])
      PROVE  References!Next \/ UNCHANGED <<content, holds>>
  <2>1. CASE InsertRole(r) /\ i = r
    <3>1. r \notin Roles
      BY <2>1 DEF InsertRole, At, SerialInv, Checked, Steps
    <3> QED
      BY <1>2, <1>5, <2>1, <3>1 DEF Held, SerialInv, NoDanglingRole
  <2>2. CASE UpdateRole(r) /\ i = role[r]
    <3>1. ~Held(i)
      BY <2>2 DEF UpdateRole, At, SerialInv, TypeInv, OnCourse, Checked, OnBody
    <3> QED
      BY <1>2, <1>5, <3>1
  <2>3. CASE Content(doc) = Content(roles[i])
    BY <1>1, <1>5, <2>3 DEF content
  <2> QED
    BY <1>5, <2>1, <2>2, <2>3
<1> QED
  BY <1>3, <1>4, <1>5, RolesWritten DEF SerialInv

\* One request at a time, the handlers implement RoleReferences: a user is created with a
\* role that exists, and what a role grants changes only while nobody holds it.
THEOREM ReferencesImplemented == SerialSpec => ImplementsReferences
<1>1. Init => References!Init
  <2> SUFFICES ASSUME Init PROVE References!Init
    OBVIOUS
  <2>1. SerialInv
    BY SerialInit
  <2>2. ASSUME NEW u \in UserIds, holds[u] # None PROVE content[holds[u]] # None
    <3>1. u \in Users /\ holds[u] = users[u].role
      BY <2>2 DEF holds, Users
    <3>2. users[u].role \in Roles
      BY <2>1, <3>1 DEF SerialInv, NoDanglingRole
    <3> QED
      BY <2>1, <3>1, <3>2, ContentExists DEF content, Roles, SerialInv, TypeInv, TypeOK
  <2> QED
    BY <2>2 DEF References!Init, content, holds
<1>2. SerialInv /\ [SerialNext]_vars => [References!Next]_<<content, holds>>
  BY UserReferences, RoleReference DEF SerialNext, Next, Start, vars, content, holds
<1> QED
  BY <1>1, <1>2, SerialInit, SerialStep, PTL
     DEF SerialSpec, SerialNext, ImplementsReferences, References!Spec, content, holds

=============================================================================
