------------------------- MODULE Authorization_proofs -------------------------
(***************************************************************************)
(* Theorems about Claims and Authorization.                                *)
(*                                                                         *)
(* Those about Claims rest on the refinement of RoleReferences: a step of  *)
(* the handlers either leaves a user and what his role grants as they are, *)
(* or removes the user, and an id is never given a second time.            *)
(*                                                                         *)
(* Authorization implements Claims, so what a token says of a role stays   *)
(* true; and the guards found on the token all that its holder's role has  *)
(* to grant.                                                               *)
(***************************************************************************)
EXTENDS Authorization, RoleUsers_proofs

\* The id is of a user that exists or existed: no request will create it any more.
Known(u) == u \in UserIds /\ (u \in Requests => pc[u] \notin {"idle"} \cup Creating)

Truthful(u, doc) == u \in Users => /\ users[u].role \in Roles
                               /\ doc = Content(roles[users[u].role])

ClaimsInv ==
    /\ SerialInv
    /\ ClaimsTypeOK
    /\ \A h \in Handlers : at[h] # "idle" => Known(who[h])
    /\ \A h \in Handlers : at[h] = "populate" =>
          (who[h] \in Users => held[h] = users[who[h]].role)
    /\ \A h \in Handlers : at[h] = "issue" => copy[h] \in Payload /\ Truthful(who[h], copy[h])
    /\ \A t \in tokens : Known(t.user) /\ Truthful(t.user, t.role)

Step(r) == (\E c \in Calls : Start(r, c)) \/ UserStep(r) \/ RoleStep(r)

LEMMA UsersKnown ==
    ASSUME SerialInv, NEW u \in Users
    PROVE  Known(u)
  BY DEF SerialInv, Checked, Known, Users, Steps, Creating

\* What a held role grants does not change, and neither does the role a user holds.
LEMMA Frozen ==
    ASSUME SerialInv, NEW r \in Requests, Step(r), NEW u \in UserIds,
           holds[u] # None, holds'[u] # None
    PROVE  holds'[u] = holds[u] /\ content'[holds[u]] = content[holds[u]]
<1>1. References!Next \/ UNCHANGED <<content, holds>>
  <2>1. CASE \E c \in Calls : Start(r, c)
    BY <2>1 DEF Start, content, holds
  <2> QED
    BY <2>1, UserReferences, RoleReference DEF Step
<1>2. ASSUME NEW i \in RoleIds, References!SetRole(i)
      PROVE  holds'[u] = holds[u] /\ content'[holds[u]] = content[holds[u]]
  <2>1. holds' = holds /\ holds[u] # i /\ content' = [content EXCEPT ![i] = content'[i]]
    BY <1>2 DEF References!SetRole, References!Used, content, holds
  <2>2. holds[u] \in RoleIds
    BY DEF holds, SerialInv, TypeInv, TypeOK, User
  <2> QED
    BY <2>1, <2>2 DEF content
<1>3. ASSUME NEW v \in UserIds, References!RemoveUser(v) \/ \E i \in RoleIds : References!AddUser(v, i)
      PROVE  holds'[u] = holds[u] /\ content'[holds[u]] = content[holds[u]]
  BY <1>3 DEF References!RemoveUser, References!AddUser, content, holds
<1> QED
  BY <1>1, <1>2, <1>3 DEF References!Next

\* An id that was used is not used again.
LEMMA KnownStays ==
    ASSUME SerialInv, SerialNext, NEW r \in Requests, Step(r), NEW u, Known(u)
    PROVE  Known(u)' /\ (u \in Users' => u \in Users)
<1>1. CASE u # r
  <2>1. u \in Requests => pc'[u] = pc[u]
    BY <1>1, Alone DEF Step
  <2>2. Users' \subseteq Users \cup {r}
    <3>1. CASE \E c \in Calls : Start(r, c)
      BY <3>1 DEF Start, Users
    <3> QED
      BY <3>1, UserChecked, RoleChecked DEF Step
  <2> QED
    BY <1>1, <2>1, <2>2 DEF Known
<1>2. CASE u = r
  <2>1. pc[r] \notin {"idle"} \cup Creating /\ r \in UserIds /\ pc \in [Requests -> {"idle"} \cup Steps \cup Answers]
    BY <1>2 DEF Known, SerialInv, TypeInv, TypeOK
  <2>2. CASE FindUser(r) \/ DeleteUser(r)
    <3>1. users \in [UserIds -> User \cup {None}]
      BY DEF SerialInv, TypeInv, TypeOK
    <3>2. Users' \subseteq Users
      BY <2>2, <3>1 DEF FindUser, DeleteUser, Check, Users
    <3>3. pc'[r] \notin {"idle"} \cup Creating
      BY <2>1, <2>2 DEF FindUser, DeleteUser, Check, At, Goto, Creating
    <3> QED
      BY <1>2, <2>1, <3>2, <3>3 DEF Known
  <2>3. CASE RoleStep(r)
    <3>1. users' = users
      BY <2>3 DEF RoleStep, RoleDocument, RoleUsed, ExistsRole, CheckPermissions, InsertRole,
                  UpdateRole, DeleteRole, SetActive, Check
    <3>2. pc'[r] \notin {"idle"} \cup Creating
      BY <2>1, <2>3 DEF RoleStep, RoleDocument, RoleUsed, ExistsRole, CheckPermissions, InsertRole,
                        UpdateRole, DeleteRole, SetActive, Check, At, Goto, AfterGuards, Creating
    <3> QED
      BY <1>2, <2>1, <3>1, <3>2 DEF Known, Users
  <2> QED
    BY <2>1, <2>2, <2>3
       DEF Step, Start, UserStep, FindRole, ExistUsername, ExistEmail, ExistMobileNumber,
           InsertUser, Check, At, Creating
<1> QED
  BY <1>1, <1>2

LEMMA TruthfulStays ==
    ASSUME SerialInv, SerialInv', SerialNext, NEW r \in Requests, Step(r), NEW u, Known(u),
           u \in Users'
    PROVE  /\ u \in Users
           /\ users'[u].role = users[u].role
           /\ Content(roles'[users[u].role]) = Content(roles[users[u].role])
<1>1. u \in Users /\ u \in UserIds
  BY KnownStays DEF Known
<1>2. /\ users[u] # None /\ users[u].role \in RoleIds
      /\ users'[u] # None /\ users'[u].role \in RoleIds
  BY <1>1 DEF SerialInv, NoDanglingRole, Roles, Users
<1>3. holds[u] = users[u].role /\ holds'[u] = users'[u].role
  BY <1>1, <1>2 DEF holds
<1>4. users'[u].role = users[u].role /\ content'[users[u].role] = content[users[u].role]
  <2>1. holds[u] # None /\ holds'[u] # None
    BY <1>2, <1>3, RoleUsersAssumption
  <2> QED
    BY <1>1, <1>3, <2>1, Frozen
<1> QED
  BY <1>1, <1>2, <1>4 DEF content
-----------------------------------------------------------------------------
LEMMA ClaimsStart == ClaimsInit => ClaimsInv
  BY SerialInit DEF ClaimsInit, ClaimsInv, ClaimsTypeOK

\* Whatever was true of the role of a known user stays true of it.
LEMMA TruthStays ==
    ASSUME ClaimsInv, SerialNext
    PROVE  /\ \A u : Known(u) => Known(u)'
           /\ \A u, doc : Known(u) /\ Truthful(u, doc) => Truthful(u, doc)'
<1>1. PICK r \in Requests : Step(r)
  BY DEF SerialNext, Next, Step
<1>2. SerialInv /\ SerialInv'
  BY SerialStep DEF ClaimsInv
<1>3. \A u : Known(u) => Known(u)'
  BY <1>1, <1>2, KnownStays
<1>4. ASSUME NEW u, NEW doc, Known(u), Truthful(u, doc), u \in Users'
      PROVE  users'[u].role \in Roles' /\ doc = Content(roles'[users'[u].role])
  <2>1. users'[u].role \in Roles'
    BY <1>2, <1>4 DEF SerialInv, NoDanglingRole
  <2> QED
    BY <1>1, <1>2, <1>4, <2>1, TruthfulStays DEF Truthful
<1> QED
  BY <1>3, <1>4 DEF Truthful

LEMMA RequestStep ==
    ASSUME ClaimsInv, SerialNext, UNCHANGED claimVars
    PROVE  ClaimsInv'
<1>1. PICK r \in Requests : Step(r)
  BY DEF SerialNext, Next, Step
<1>2. SerialInv /\ SerialInv'
  BY SerialStep DEF ClaimsInv
<1>3. \A u : Known(u) => Known(u)'
  BY TruthStays
<1>4. \A u, doc : Known(u) /\ Truthful(u, doc) => Truthful(u, doc)'
  BY TruthStays
<1>5. ASSUME NEW h \in Handlers, at[h] = "populate", who[h] \in Users'
      PROVE  held[h] = users'[who[h]].role
  BY <1>1, <1>2, <1>5, TruthfulStays DEF ClaimsInv
<1> QED
  BY <1>2, <1>3, <1>4, <1>5 DEF ClaimsInv, ClaimsTypeOK, claimVars

LEMMA HandlerStep ==
    ASSUME ClaimsInv, ClaimsNext, UNCHANGED vars
    PROVE  ClaimsInv'
<1>1. /\ SerialInv /\ SerialInv'
      /\ \A u : Known(u)' <=> Known(u)
      /\ \A u, doc : Truthful(u, doc)' <=> Truthful(u, doc)
  <2>1. SerialInv'
    BY SerialStep DEF ClaimsInv
  <2> QED
    BY <2>1 DEF ClaimsInv, vars, Known, Truthful, Users, Roles, Content
<1>2. Users' = Users /\ users' = users
  BY DEF vars, Users
<1>3. CASE Expire
  BY <1>1, <1>2, <1>3 DEF Expire, ClaimsInv, ClaimsTypeOK
<1>4. ASSUME NEW h \in Handlers, FindOne(h)
      PROVE  ClaimsInv'
  <2>1. PICK i \in Users : who' = [who EXCEPT ![h] = i] /\ held' = [held EXCEPT ![h] = users[i].role]
    BY <1>4 DEF FindOne
  <2>2. Known(i) /\ i \in UserIds /\ users[i].role \in RoleIds
    BY UsersKnown, <1>1 DEF Users, SerialInv, NoDanglingRole, Roles
  <2> QED
    BY <1>1, <1>2, <1>4, <2>1, <2>2 DEF FindOne, Proceed, ClaimsInv, ClaimsTypeOK
<1>5. ASSUME NEW h \in Handlers, Populate(h)
      PROVE  ClaimsInv'
  <2>1. CASE held[h] \in Roles
    <3>1. roles[held[h]] \in Role
      BY <2>1, <1>1 DEF SerialInv, TypeInv, TypeOK, Roles
    <3>2. Content(roles[held[h]]) \in Payload
      BY <3>1, RoleUsersAssumption DEF Content, Role, Payload
    <3>3. Truthful(who[h], Content(roles[held[h]]))
      BY <1>5, <2>1 DEF Populate, ClaimsInv, Truthful
    <3> QED
      BY <1>1, <1>2, <1>5, <3>2, <3>3 DEF Populate, Proceed, ClaimsInv, ClaimsTypeOK
  <2>2. CASE held[h] \notin Roles
    BY <1>1, <1>2, <1>5, <2>2 DEF Populate, Proceed, ClaimsInv, ClaimsTypeOK
  <2> QED
    BY <2>1, <2>2
<1>6. ASSUME NEW h \in Handlers, Issue(h)
      PROVE  ClaimsInv'
  <2>1. [user |-> who[h], role |-> copy[h]] \in Token
    BY <1>6 DEF Issue, ClaimsInv, Known, Token
  <2>2. Known(who[h]) /\ Truthful(who[h], copy[h])
    BY <1>6 DEF Issue, ClaimsInv
  <2> QED
    BY <1>1, <1>2, <1>6, <2>1, <2>2 DEF Issue, Proceed, ClaimsInv, ClaimsTypeOK
<1> QED
  BY <1>3, <1>4, <1>5, <1>6 DEF ClaimsNext

LEMMA ClaimsStep ==
    ASSUME ClaimsInv,
           [\/ Next /\ Cardinality(InFlight') <= 1 /\ UNCHANGED claimVars
            \/ ClaimsNext /\ UNCHANGED vars]_allVars
    PROVE  ClaimsInv'
<1>1. CASE UNCHANGED allVars
  <2>1. SerialInv'
    BY <1>1, SerialStep DEF ClaimsInv, allVars
  <2> QED
    BY <1>1, <2>1 DEF allVars, claimVars, vars, ClaimsInv, ClaimsTypeOK, Known, Truthful, Users, Roles,
                      Content
<1> QED
  BY <1>1, RequestStep, HandlerStep DEF SerialNext

\* Log-ins at any time, requests one at a time: what a token says of the role of a user
\* who exists is what that role says now.
THEOREM ClaimsStayCurrent == ClaimsSpec => []ClaimsCurrent
<1>1. ClaimsInv => ClaimsCurrent
  BY DEF ClaimsInv, ClaimsCurrent, Truthful
<1> QED
  BY <1>1, ClaimsStart, ClaimsStep, PTL DEF ClaimsSpec

\* Tokens name users by their ids and grant stored permissions only.
THEOREM ClaimsTypeCorrect == ClaimsSpec => []ClaimsTypeOK
<1>1. ClaimsInv => ClaimsTypeOK
  BY DEF ClaimsInv
<1> QED
  BY <1>1, ClaimsStart, ClaimsStep, PTL DEF ClaimsSpec
-----------------------------------------------------------------------------
\* The token of a request that the guards let through, from then on.
Cleared(t, op) == Known(t.user) /\ Truthful(t.user, t.role) /\ AdminAccess(t.role, op)

RequestsCleared == \A r \in InFlight : call[r].op = "signUp" \/ Cleared(by[r], call[r].op)
DesksCleared == \A d \in Desks : desk[d].step # "idle" => Cleared(desk[d].by, desk[d].call.op)

AuthInv ==
    /\ ClaimsInv
    /\ by \in [Requests -> Token \cup {None}]
    /\ desk \in [Desks -> Desk]
    /\ RequestsCleared
    /\ DesksCleared

LEMMA ClearedEntitles ==
    ASSUME NEW t, NEW op, Cleared(t, op)
    PROVE  Granted(t, op)
<1> SUFFICES ASSUME t.user \in Users
             PROVE  Entitled(roles[users[t.user].role], op)
  BY DEF Granted
<1> DEFINE doc == roles[users[t.user].role]
<1>1. doc # None /\ t.role = Content(doc)
  BY DEF Cleared, Truthful, Roles
<1>2. t.role.accessFor = doc.accessFor /\ t.role.permissions = doc.permissions
  BY <1>1 DEF Content
<1> QED
  BY <1>2 DEF Cleared, AdminAccess, HasFor, HasPermission, Entitled

LEMMA AuthStart == AuthInit => AuthInv
<1> SUFFICES ASSUME AuthInit PROVE AuthInv
  OBVIOUS
<1>1. ClaimsInv
  BY ClaimsStart DEF AuthInit
<1>2. InFlight = {}
  BY DEF AuthInit, ClaimsInit, Init, InFlight, Steps
<1>3. desk \in [Desks -> Desk] /\ \A d \in Desks : desk[d].step = "idle"
  BY DEF AuthInit, NoRequest, Desk
<1> QED
  BY <1>1, <1>2, <1>3 DEF AuthInit, AuthInv, RequestsCleared, DesksCleared

\* Every step is one of Claims, or leaves its variables alone.
LEMMA AuthStep ==
    ASSUME [AuthNext]_authVars
    PROVE  \/ SerialNext /\ UNCHANGED claimVars
           \/ ClaimsNext /\ UNCHANGED vars
           \/ UNCHANGED allVars
<1>1. ASSUME RequestNext PROVE SerialNext /\ UNCHANGED claimVars
  BY <1>1 DEF RequestNext, Admit, Proceeds, SerialNext, Next
<1> QED
  BY <1>1 DEF AuthNext, DeskNext, authVars

\* What was cleared stays cleared.
LEMMA ClearedStays ==
    ASSUME AuthInv, [AuthNext]_authVars
    PROVE  \A t, op : Cleared(t, op) => Cleared(t, op)'
<1>1. CASE SerialNext
  BY <1>1, TruthStays DEF AuthInv, Cleared
<1>2. CASE UNCHANGED vars
  BY <1>2 DEF vars, Cleared, Known, Truthful, Users, Roles, Content
<1> QED
  BY <1>1, <1>2, AuthStep DEF allVars

LEMMA ClaimsKept ==
    ASSUME AuthInv, [AuthNext]_authVars
    PROVE  ClaimsInv'
<1>1. [\/ Next /\ Cardinality(InFlight') <= 1 /\ UNCHANGED claimVars
       \/ ClaimsNext /\ UNCHANGED vars]_allVars
  BY AuthStep DEF SerialNext
<1> QED
  BY <1>1, ClaimsStep DEF AuthInv

LEMMA DesksStay ==
    ASSUME AuthInv, [AuthNext]_authVars, UNCHANGED desk
    PROVE  (desk \in [Desks -> Desk])' /\ DesksCleared'
  BY ClearedStays DEF AuthInv, DesksCleared

LEMMA AdmitCleared ==
    ASSUME AuthInv, RequestNext, NEW r \in Requests, NEW c \in Calls, Admit(r, c)
    PROVE  (by \in [Requests -> Token \cup {None}])' /\ RequestsCleared'
<1>1. \A t, op : Cleared(t, op) => Cleared(t, op)'
  BY ClearedStays DEF AuthNext
<1>2. /\ pc \in [Requests -> {"idle"} \cup Steps \cup Answers]
      /\ call \in [Requests -> Calls \cup {None}]
      /\ by \in [Requests -> Token \cup {None}]
      /\ tokens \subseteq Token
  BY DEF AuthInv, ClaimsInv, ClaimsTypeOK, SerialInv, TypeInv, TypeOK
<1>3. call'[r] = c /\ \A q \in Requests \ {r} : pc'[q] = pc[q] /\ call'[q] = call[q]
  BY <1>2 DEF Admit, Start, Goto
<1>4. by' \in [Requests -> Token \cup {None}] /\ \A q \in Requests \ {r} : by'[q] = by[q]
  BY <1>2 DEF Admit
<1>5. c.op = "signUp" \/ Cleared(by'[r], c.op)
  <2>1. CASE c.op # "signUp"
    <3>1. PICK t \in tokens : AdminAccess(t.role, c.op) /\ by' = [by EXCEPT ![r] = t]
      BY <2>1 DEF Admit
    <3>2. by'[r] = t
      BY <1>2, <3>1
    <3> QED
      BY <3>1, <3>2 DEF AuthInv, ClaimsInv, Cleared
  <2> QED
    BY <2>1
<1>6. ASSUME NEW q \in InFlight'
      PROVE  call'[q].op = "signUp" \/ Cleared(by'[q], call'[q].op)
  <2>1. CASE q = r
    BY <2>1, <1>3, <1>5
  <2>2. CASE q # r
    <3>1. q \in InFlight /\ call'[q] = call[q] /\ by'[q] = by[q]
      BY <2>2, <1>3, <1>4 DEF InFlight
    <3> QED
      BY <3>1 DEF AuthInv, RequestsCleared
  <2> QED
    BY <2>1, <2>2
<1> QED
  BY <1>1, <1>4, <1>6 DEF RequestsCleared

LEMMA ProceedCleared ==
    ASSUME AuthInv, RequestNext, NEW r \in Requests, Proceeds(r)
    PROVE  (by \in [Requests -> Token \cup {None}])' /\ RequestsCleared'
<1>1. \A t, op : Cleared(t, op) => Cleared(t, op)'
  BY ClearedStays DEF AuthNext
<1>2. call' = call /\ r \in InFlight /\ pc' = [pc EXCEPT ![r] = pc'[r]]
  <2>1. pc \in [Requests -> {"idle"} \cup Steps \cup Answers]
    BY DEF AuthInv, ClaimsInv, SerialInv, TypeInv, TypeOK
  <2>2. CASE UserStep(r)
    BY <2>1, <2>2 DEF UserStep, FindRole, ExistUsername, ExistEmail, ExistMobileNumber, InsertUser,
                      FindUser, DeleteUser, Check, At, Goto, InFlight, Steps
  <2>3. CASE RoleStep(r)
    BY <2>1, <2>3 DEF RoleStep, RoleDocument, RoleUsed, ExistsRole, CheckPermissions, InsertRole,
                      UpdateRole, DeleteRole, SetActive, Check, At, Goto, InFlight, Steps
  <2> QED
    BY <2>2, <2>3 DEF Proceeds
<1>3. /\ by' \in [Requests -> Token \cup {None}]
      /\ \A q \in InFlight' : q \in InFlight /\ by'[q] = by[q]
  <2>1. /\ by \in [Requests -> Token \cup {None}]
        /\ pc \in [Requests -> {"idle"} \cup Steps \cup Answers]
    BY DEF AuthInv, ClaimsInv, SerialInv, TypeInv, TypeOK
  <2>2. by' = [by EXCEPT ![r] = IF r \in InFlight' THEN by[r] ELSE None]
    BY DEF Proceeds
  <2> QED
    BY <1>2, <2>1, <2>2 DEF InFlight
<1>4. \A q \in InFlight' : call'[q].op = "signUp" \/ Cleared(by'[q], call'[q].op)
  BY <1>2, <1>3 DEF AuthInv, RequestsCleared
<1> QED
  BY <1>1, <1>3, <1>4 DEF RequestsCleared

LEMMA DeskCleared ==
    ASSUME AuthInv, DeskNext
    PROVE  (desk \in [Desks -> Desk])' /\ DesksCleared'
<1>1. \A t, op : Cleared(t, op) => Cleared(t, op)'
  BY ClearedStays DEF AuthNext
<1>2. desk \in [Desks -> Desk] /\ tokens \subseteq Token /\ NoRequest \in Desk
  BY DEF AuthInv, ClaimsInv, ClaimsTypeOK, NoRequest, Desk
<1>3. ASSUME NEW d \in Desks, NEW c \in PermissionCalls, AskPermission(d, c)
      PROVE  /\ desk' \in [Desks -> Desk]
             /\ \A e \in Desks : desk'[e].step # "idle" => Cleared(desk'[e].by, desk'[e].call.op)
  <2>1. PICK t \in tokens :
           /\ AdminAccess(t.role, c.op)
           /\ desk' = [desk EXCEPT ![d] = [step |-> "document", by |-> t, call |-> c]]
    BY <1>3 DEF AskPermission
  <2>2. [step |-> "document", by |-> t, call |-> c] \in Desk
    BY <1>2 DEF Desk
  <2>3. Cleared(t, c.op)
    BY <2>1 DEF AuthInv, ClaimsInv, Cleared
  <2> QED
    BY <1>2, <2>1, <2>2, <2>3 DEF AuthInv, DesksCleared
<1>4. ASSUME NEW d \in Desks,
             \/ PermissionDocument(d) \/ UpdatePermission(d)
             \/ InactivePermission(d) \/ ActivePermission(d)
      PROVE  /\ desk' \in [Desks -> Desk]
             /\ \A e \in Desks : desk'[e].step # "idle" => Cleared(desk'[e].by, desk'[e].call.op)
  <2>1. \/ desk' = [desk EXCEPT ![d].step = "write"] /\ desk[d].step = "document"
        \/ desk' = [desk EXCEPT ![d] = NoRequest]
    BY <1>4 DEF PermissionDocument, UpdatePermission, InactivePermission, ActivePermission, Write
  <2>2. desk' \in [Desks -> Desk]
    BY <1>2, <2>1 DEF Desk
  <2>3. ASSUME NEW e \in Desks, desk'[e].step # "idle"
        PROVE  desk[e].step # "idle" /\ desk'[e].by = desk[e].by /\ desk'[e].call = desk[e].call
    BY <1>2, <2>1, <2>3 DEF Desk, NoRequest
  <2> QED
    BY <2>2, <2>3 DEF AuthInv, DesksCleared
<1> QED
  BY <1>1, <1>3, <1>4 DEF DeskNext, DesksCleared

LEMMA AuthInvStep == AuthInv /\ [AuthNext]_authVars => AuthInv'
<1> SUFFICES ASSUME AuthInv, [AuthNext]_authVars PROVE AuthInv'
  OBVIOUS
<1>1. ClaimsInv'
  BY ClaimsKept
<1>2. CASE RequestNext
  <2>1. (by \in [Requests -> Token \cup {None}])' /\ RequestsCleared'
    BY <1>2, AdmitCleared, ProceedCleared DEF RequestNext
  <2>2. (desk \in [Desks -> Desk])' /\ DesksCleared'
    BY <1>2, DesksStay DEF RequestNext
  <2> QED
    BY <1>1, <2>1, <2>2 DEF AuthInv
<1>3. ASSUME UNCHANGED <<vars, by>>
      PROVE  (by \in [Requests -> Token \cup {None}])' /\ RequestsCleared'
  BY <1>3, ClearedStays DEF AuthInv, RequestsCleared, InFlight, vars
<1>4. CASE DeskNext
  <2>1. UNCHANGED <<vars, by>>
    BY <1>4 DEF DeskNext, allVars
  <2> QED
    BY <1>1, <1>3, <1>4, <2>1, DeskCleared DEF AuthInv
<1>5. CASE UNCHANGED <<vars, by, desk>>
  BY <1>1, <1>3, <1>5, DesksStay DEF AuthInv
<1> QED
  BY <1>2, <1>4, <1>5 DEF AuthNext, authVars, allVars
-----------------------------------------------------------------------------
\* However old the token and whatever went on since: the role that the sender of a
\* request under way holds, if he still exists, gives him the right to it.
THEOREM RightsHold == AuthSpec => []GrantedByRole
<1>1. AuthInv => GrantedByRole
  BY ClearedEntitles DEF AuthInv, RequestsCleared, DesksCleared, GrantedByRole
<1> QED
  BY <1>1, AuthStart, AuthInvStep, PTL DEF AuthSpec

\* With the guards in front, the handlers do nothing that they did not do without.
THEOREM AuthImplementsClaims == AuthSpec => ClaimsSpec
<1>1. AuthInit => ClaimsInit
  BY DEF AuthInit
<1>2. [AuthNext]_authVars => [\/ Next /\ Cardinality(InFlight') <= 1 /\ UNCHANGED claimVars
                              \/ ClaimsNext /\ UNCHANGED vars]_allVars
  BY AuthStep DEF SerialNext
<1> QED
  BY <1>1, <1>2, PTL DEF AuthSpec, ClaimsSpec
=============================================================================
