---------------------------- MODULE LoginAttempt ----------------------------
(***************************************************************************)
(* POST /user/login against one account, and the counter of wrong          *)
(* passwords that locks it (modules/user, common/setting).                 *)
(*                                                                         *)
(* Every await of the handler is a point where other requests run, so the  *)
(* handler is one action per database call: the account is read once, at   *)
(* the start, and every later decision is taken on that copy, while        *)
(* increasePasswordAttempt reads the document again and writes it back in  *)
(* a further call.  Administrators deactivate, activate and delete the     *)
(* account, deactivate and activate its role, and change the two settings  *)
(* that govern the lock at any moment.                                     *)
(***************************************************************************)
EXTENDS Naturals, FiniteSets, SettingValue

CONSTANTS Requests,     \* login requests, each one run of the handler
          ModeBodies,   \* what administrators send for setting passwordAttempt
          LimitBodies,  \* ... and for setting maxPasswordAttempt
          SeedLimit,    \* maxPasswordAttempt as the migration seeds it
          NoUser        \* the account once it is deleted

ASSUME LoginAssumption ==
    /\ ModeBodies \subseteq Setting
    /\ LimitBodies \subseteq Setting
    /\ SeedLimit \in Setting
    /\ IsFiniteSet(Requests)
    /\ NoUser \notin [passwordAttempt: Nat, isActive: BOOLEAN]

VARIABLES user,     \* the stored user document
          role,     \* isActive of the role document the user refers to
          mode,     \* the stored setting passwordAttempt
          limit,    \* the stored setting maxPasswordAttempt
          pending,  \* administrator handlers whose guards passed, before their write
          pc,       \* where each login request is, or what it was answered
          seen,     \* the copy of the user document the request read last
          roleSeen  \* isActive of the role that was populated into it

vars == <<user, role, mode, limit, pending, pc, seen, roleSeen>>

User == [passwordAttempt: Nat, isActive: BOOLEAN]
NewUser == [passwordAttempt |-> 0, isActive |-> TRUE]
SeedMode == [type |-> "BOOLEAN", value |-> "true"]

Steps == {"findUser", "populate", "readMode", "readLimit", "validate", "incRead", "incWrite"}
Answers == {"notFound", "attemptMax", "notMatch", "inactive", "roleInactive", "token", "error"}
AdminOps == {"userInactive", "userActive", "userDelete", "roleInactive", "roleActive"}

\* The requests whose password was compared and found wrong, the ones among
\* them that went through increasePasswordAttempt, and the handlers under way.
Mismatched == {r \in Requests : pc[r] \in {"incRead", "incWrite", "notMatch", "error"}}
Counted == {r \in Requests : pc[r] = "notMatch"}
InFlight == {r \in Requests : pc[r] \in Steps \ {"findUser"}}

Init ==
    /\ user = NewUser
    /\ role = TRUE
    /\ mode = SeedMode
    /\ limit = SeedLimit
    /\ pending = {}
    /\ pc = [r \in Requests |-> "findUser"]
    /\ seen = [r \in Requests |-> NewUser]
    /\ roleSeen = [r \in Requests |-> TRUE]

Goto(r, step) == pc' = [pc EXCEPT ![r] = step]
-----------------------------------------------------------------------------
\* Mutant: the copy comes from a cache filled when the account was new.
FindUserCached(r) ==
    /\ pc[r] = "findUser"
    /\ Goto(r, IF user = NoUser THEN "notFound" ELSE "populate")
    /\ UNCHANGED <<user, role, mode, limit, pending, seen, roleSeen>>

\* findOneByUsername: the document is copied, and 404 when there is none.
FindUser(r) ==
    /\ pc[r] = "findUser"
    /\ \/ user = NoUser /\ Goto(r, "notFound") /\ UNCHANGED seen
       \/ user # NoUser /\ Goto(r, "populate") /\ seen' = [seen EXCEPT ![r] = user]
    /\ UNCHANGED <<user, role, mode, limit, pending, roleSeen>>

\* The join of that find is a query of its own (mongoose populate).
PopulateRole(r) ==
    /\ pc[r] = "populate"
    /\ roleSeen' = [roleSeen EXCEPT ![r] = role]
    /\ Goto(r, "readMode")
    /\ UNCHANGED <<user, role, mode, limit, pending, seen>>

ReadMode(r) ==
    /\ pc[r] = "readMode"
    /\ Goto(r, IF Truthy(GetValue(mode)) THEN "readLimit" ELSE "validate")
    /\ UNCHANGED <<user, role, mode, limit, pending, seen, roleSeen>>

\* Mutant: > for >=.
ReadLimitStrict(r) ==
    /\ pc[r] = "readLimit"
    /\ Goto(r, IF seen[r].passwordAttempt > 0
                  /\ AtLeast(seen[r].passwordAttempt - 1, GetValue(limit))
               THEN "attemptMax" ELSE "validate")
    /\ UNCHANGED <<user, role, mode, limit, pending, seen, roleSeen>>

\* The limit is compared with the counter of the copy.
ReadLimit(r) ==
    /\ pc[r] = "readLimit"
    /\ Goto(r, IF AtLeast(seen[r].passwordAttempt, GetValue(limit))
               THEN "attemptMax" ELSE "validate")
    /\ UNCHANGED <<user, role, mode, limit, pending, seen, roleSeen>>

\* What the handler does once the password is compared, decided on the copy; the
\* tokens are made from it without reading the database again.
Verdict(r, right) ==
    CASE ~right -> "incRead"
      [] right /\ ~seen[r].isActive -> "inactive"
      [] right /\ seen[r].isActive /\ ~roleSeen[r] -> "roleInactive"
      [] OTHER -> "token"

Validate(r) ==
    /\ pc[r] = "validate"
    /\ \E right \in BOOLEAN : Goto(r, Verdict(r, right))
    /\ UNCHANGED <<user, role, mode, limit, pending, seen, roleSeen>>

\* Mutant: a deleted account is taken for a document.
IncReadAnything(r) ==
    /\ pc[r] = "incRead"
    /\ seen' = [seen EXCEPT ![r] = user]
    /\ Goto(r, "incWrite")
    /\ UNCHANGED <<user, role, mode, limit, pending, roleSeen>>

\* Mutant: the handler waits for a document.
IncReadExisting(r) ==
    /\ pc[r] = "incRead"
    /\ user # NoUser
    /\ seen' = [seen EXCEPT ![r] = user]
    /\ Goto(r, "incWrite")
    /\ UNCHANGED <<user, role, mode, limit, pending, roleSeen>>

\* increasePasswordAttempt, first call; a deleted account is a TypeError, hence 500.
IncRead(r) ==
    /\ pc[r] = "incRead"
    /\ \/ user = NoUser /\ Goto(r, "error") /\ UNCHANGED seen
       \/ /\ user # NoUser
          /\ seen' = [seen EXCEPT ![r] = user]
          /\ Goto(r, "incWrite")
    /\ UNCHANGED <<user, role, mode, limit, pending, roleSeen>>

\* Mutant: the number computed for $set is given to $inc.
IncWriteAdds(r) ==
    /\ pc[r] = "incWrite"
    /\ user' = IF user = NoUser THEN NoUser
               ELSE [user EXCEPT !.passwordAttempt = @ + seen[r].passwordAttempt + 1]
    /\ Goto(r, "notMatch")
    /\ UNCHANGED <<role, mode, limit, pending, seen, roleSeen>>

\* Mutant: the update matches active accounts only.
IncWriteActive(r) ==
    /\ pc[r] = "incWrite"
    /\ user' = IF user = NoUser \/ ~user.isActive THEN user
               ELSE [user EXCEPT !.passwordAttempt = seen[r].passwordAttempt + 1]
    /\ Goto(r, "notMatch")
    /\ UNCHANGED <<role, mode, limit, pending, seen, roleSeen>>

\* ... second call: $set of the number computed from the first; updating a
\* document that is gone does nothing.  Then 400.
IncWrite(r) ==
    /\ pc[r] = "incWrite"
    /\ user' = IF user = NoUser THEN NoUser
               ELSE [user EXCEPT !.passwordAttempt = seen[r].passwordAttempt + 1]
    /\ Goto(r, "notMatch")
    /\ UNCHANGED <<role, mode, limit, pending, seen, roleSeen>>

Login(r) ==
    \/ FindUser(r) \/ PopulateRole(r) \/ ReadMode(r) \/ ReadLimit(r)
    \/ Validate(r) \/ IncRead(r) \/ IncWrite(r)
-----------------------------------------------------------------------------
\* The guards of an administrator's handler: a copy of the document is put on the
\* request, and its isActive must be the opposite of what is asked for.
AdminGuards(op) ==
    /\ op \notin pending
    /\ CASE op = "userInactive" -> user # NoUser /\ user.isActive
         [] op = "userActive" -> user # NoUser /\ ~user.isActive
         [] op = "userDelete" -> user # NoUser
         [] op = "roleInactive" -> role
         [] op = "roleActive" -> ~role
    /\ pending' = pending \cup {op}
    /\ UNCHANGED <<user, role, mode, limit, pc, seen, roleSeen>>

\* Mutant: activating an account makes it new.
WriteUserAnew(op) ==
    CASE op = "userDelete" \/ user = NoUser -> NoUser
      [] op = "userInactive" /\ user # NoUser -> [user EXCEPT !.isActive = FALSE]
      [] op = "userActive" /\ user # NoUser -> NewUser
      [] OTHER -> user

WriteUser(op) ==
    CASE op = "userDelete" \/ user = NoUser -> NoUser
      [] op = "userInactive" /\ user # NoUser -> [user EXCEPT !.isActive = FALSE]
      [] op = "userActive" /\ user # NoUser -> [user EXCEPT !.isActive = TRUE]
      [] OTHER -> user

WriteRole(op) ==
    CASE op = "roleInactive" -> FALSE
      [] op = "roleActive" -> TRUE
      [] OTHER -> role

\* The handler itself, in a later call than its guards.
AdminWrite(op) ==
    /\ op \in pending
    /\ user' = WriteUser(op)
    /\ role' = WriteRole(op)
    /\ pending' = pending \ {op}
    /\ UNCHANGED <<mode, limit, pc, seen, roleSeen>>

\* PUT admin/setting/update: the value is checked against the type of the body,
\* and both are stored.
UpdateMode(body) ==
    /\ CheckValue(body.value, body.type)
    /\ mode' = body
    /\ UNCHANGED <<user, role, limit, pending, pc, seen, roleSeen>>

UpdateLimit(body) ==
    /\ CheckValue(body.value, body.type)
    /\ limit' = body
    /\ UNCHANGED <<user, role, mode, pending, pc, seen, roleSeen>>

Next ==
    \/ \E r \in Requests : Login(r)
    \/ \E op \in AdminOps : AdminGuards(op) \/ AdminWrite(op)
    \/ \E body \in ModeBodies : UpdateMode(body)
    \/ \E body \in LimitBodies : UpdateLimit(body)

Spec == Init /\ [][Next]_vars

\* Node runs every continuation whose database call was answered, so a handler
\* that was started finishes.
FairSpec == Spec /\ \A r \in Requests : WF_vars(pc[r] # "findUser" /\ Login(r))

\* The same program when logins come one after the other.
SerialSpec == Init /\ [][Next /\ Cardinality(InFlight') <= 1]_vars
-----------------------------------------------------------------------------
TypeOK ==
    /\ user \in User \cup {NoUser}
    /\ role \in BOOLEAN
    /\ mode \in Setting
    /\ limit \in Setting
    /\ pending \subseteq AdminOps
    /\ pc \in [Requests -> Steps \cup Answers]
    /\ seen \in [Requests -> User]
    /\ roleSeen \in [Requests -> BOOLEAN]

\* Nobody is locked out for more than was done: however the two calls of
\* increasePasswordAttempt interleave with other logins, the stored counter never
\* exceeds the wrong passwords that were answered.  (Lost updates only lower it.)
AttemptsNotOverstated ==
    user # NoUser => user.passwordAttempt <= Cardinality(Counted)

\* When logins do not overlap, the counter is exactly the number of wrong
\* passwords whenever no login is under way.
AttemptsExact ==
    user # NoUser /\ InFlight = {} => user.passwordAttempt = Cardinality(Counted)

\* The settings an administrator may send keep the lock on and its limit a number.
AlwaysLimited ==
    /\ \A body \in ModeBodies : Truthy(GetValue(body))
    /\ \A body \in LimitBodies \cup {SeedLimit} :
          GetValue(body).kind = "number" /\ NumberOf[body.value] >= 0

\* "Max password Attempt when user login": no more wrong passwords are compared
\* with the account's than the largest limit that was ever in force.
LimitEnforced ==
    AlwaysLimited => \E body \in LimitBodies \cup {SeedLimit} :
                        Cardinality(Mismatched) <= NumberOf[body.value]

\* An account that reached the limit stays locked until an administrator changes
\* one of the two settings or deletes it: no login, right or wrong, unlocks it.
Locked == /\ user # NoUser
          /\ Truthy(GetValue(mode))
          /\ AtLeast(user.passwordAttempt, GetValue(limit))

LockLasts ==
    [][Locked /\ ~Locked' => mode' # mode \/ limit' # limit \/ user' = NoUser]_vars

\* Taken one after the other under numeric limits, the logins behave like the
\* abstract lock, each at the comparison of its password.
Granted == {r \in Requests : pc[r] = "token"}

Lockout == INSTANCE PasswordLockout WITH
    Limits <- {NumberOf[body.value] : body \in LimitBodies \cup {SeedLimit}},
    wrong <- Mismatched,
    granted <- Granted

ImplementsLockout == Lockout!Spec

\* Every login that was started is answered.
EveryLoginAnswered == \A r \in Requests : r \in InFlight ~> pc[r] \in Answers
=============================================================================
