------------------------------- MODULE Session -------------------------------
(***************************************************************************)
(* The sessions of one account (modules/user, common/auth): login issues   *)
(* an access and a refresh token, refresh issues a new access token for    *)
(* the same refresh token, and the guards accept a token by its age alone. *)
(* The server keeps no session: what it can still do about an account that *)
(* is deactivated or deleted is to refuse the next login or refresh.       *)
(*                                                                         *)
(* Ages are counted in the unit of the configuration.  Time stands still   *)
(* while a handler runs: the unit is longer than any handler.  Requests    *)
(* that are refused change nothing and are left out.                       *)
(***************************************************************************)
EXTENDS Naturals

CONSTANTS Logins,       \* clients of the account, each with one session at a time
          Scale,        \* units that jsonwebtoken counts for one of the configuration
          AccessLife,   \* expirationTime of the access token
          RefreshLife,  \* expirationTime of the refresh token
          RememberLife, \* expirationTimeRememberMe of the refresh token
          NotBefore,    \* notBeforeExpirationTime of the refresh token
          PasswordLife, \* expiredInMs of a password
          Encryption,   \* payloadEncryption
          Horizon       \* bound: ages are counted up to here

Positive == Nat \ {0}

\* jwtEncrypt hands milliseconds to a library that takes seconds.
Effective(duration) == duration * Scale

ASSUME SessionAssumption ==
    /\ {Scale, AccessLife, RefreshLife, RememberLife} \subseteq Positive
    /\ {NotBefore, PasswordLife, Horizon} \subseteq Nat
    /\ NotBefore <= AccessLife
    /\ Encryption \in BOOLEAN
    /\ Effective(RefreshLife) + Effective(AccessLife) <= Horizon
    /\ Effective(RememberLife) + Effective(AccessLife) <= Horizon

VARIABLES account,     \* "active", "inactive" or "gone"
          roleActive,  \* isActive of the role of the account
          passwordAge, \* since the password was set
          accountDown, \* for how long the account has not been active
          roleDown,    \* for how long its role has not been active
          pc,          \* the handler that runs for each client
          remember,    \* rememberMe of each session
          age,         \* since the login of each session (the claim loginDate)
          refresh,     \* the age of its refresh token
          access       \* the ages of its access tokens that have not expired

vars == <<account, roleActive, passwordAge, accountDown, roleDown,
          pc, remember, age, refresh, access>>
server == <<account, roleActive, passwordAge, accountDown, roleDown>>
session == <<remember, age, refresh, access>>

Steps == {"loginRole", "loginIssue", "refreshRole", "refreshIssue"}

Life(l) == IF remember[l] THEN RememberLife ELSE RefreshLife

Init ==
    /\ account = "active"
    /\ roleActive = TRUE
    /\ passwordAge = 0
    /\ accountDown = 0
    /\ roleDown = 0
    /\ pc = [l \in Logins |-> "idle"]
    /\ remember = [l \in Logins |-> FALSE]
    /\ age = [l \in Logins |-> Horizon]
    /\ refresh = [l \in Logins |-> Horizon]
    /\ access = [l \in Logins |-> {}]
-----------------------------------------------------------------------------
(* What a guard accepts *)

\* Mutant: a token is still good when exp is now.
UnexpiredInclusive(a, life) == a <= Effective(life)

\* jsonwebtoken's verify: now < iat + expiresIn, and iat + notBefore <= now.
Unexpired(a, life) == a < Effective(life)

\* Mutant: not before is exclusive.
MatureExclusive(a, delay) == a > Effective(delay)

Mature(a, delay) == a >= Effective(delay)

\* The strategies call decryptAccessToken(data) with the claim itself, and it looks
\* for a claim `data` inside: an encrypted payload, a text, has none, and AES throws.
Readable == ~Encryption

AccessAccepted(a) == Unexpired(a, AccessLife) /\ Readable

RefreshAccepted(l) ==
    /\ Mature(refresh[l], NotBefore)
    /\ Unexpired(refresh[l], Life(l))
    /\ Readable

\* checkPasswordExpired
PasswordExpired == passwordAge > PasswordLife
-----------------------------------------------------------------------------
(* Handlers *)

Goto(l, step) == pc' = [pc EXCEPT ![l] = step]

\* Nothing of the session of this client opens anything any more.
Over(l) == access[l] = {} /\ ~Unexpired(refresh[l], Life(l))

\* login with the right password: the account is read, and found active.
LoginFind(l) ==
    /\ pc[l] = "idle"
    /\ Over(l)
    /\ account = "active"
    /\ Goto(l, "loginRole")
    /\ UNCHANGED <<server, session>>

\* Its role is populated by a query of its own.
LoginRole(l) ==
    /\ pc[l] = "loginRole"
    /\ Goto(l, IF roleActive THEN "loginIssue" ELSE "idle")
    /\ UNCHANGED <<server, session>>

\* Tokens are issued even if the password is expired; the answer says so.
LoginIssue(l) ==
    /\ pc[l] = "loginIssue"
    /\ \E rememberMe \in BOOLEAN : remember' = [remember EXCEPT ![l] = rememberMe]
    /\ age' = [age EXCEPT ![l] = 0]
    /\ refresh' = [refresh EXCEPT ![l] = 0]
    /\ access' = [access EXCEPT ![l] = {0}]
    /\ Goto(l, "idle")
    /\ UNCHANGED server

\* refresh, behind the guard on refresh tokens: an account that is inactive or gone
\* and an expired password are refused.
RefreshFind(l) ==
    /\ pc[l] = "idle"
    /\ RefreshAccepted(l)
    /\ account = "active"
    /\ ~PasswordExpired
    /\ Goto(l, "refreshRole")
    /\ UNCHANGED <<server, session>>

\* Mutant: refresh does not look at the role.
RefreshRoleUnchecked(l) ==
    /\ pc[l] = "refreshRole"
    /\ Goto(l, "refreshIssue")
    /\ UNCHANGED <<server, session>>

RefreshRole(l) ==
    /\ pc[l] = "refreshRole"
    /\ Goto(l, IF roleActive THEN "refreshIssue" ELSE "idle")
    /\ UNCHANGED <<server, session>>

\* Mutant: a new refresh token is returned as well.
RefreshIssueRotates(l) ==
    /\ pc[l] = "refreshIssue"
    /\ access' = [access EXCEPT ![l] = @ \cup {0}]
    /\ refresh' = [refresh EXCEPT ![l] = 0]
    /\ Goto(l, "idle")
    /\ UNCHANGED <<server, remember, age>>

\* A new access token with the loginDate of the refresh token, which stays as it is.
RefreshIssue(l) ==
    /\ pc[l] = "refreshIssue"
    /\ access' = [access EXCEPT ![l] = @ \cup {0}]
    /\ Goto(l, "idle")
    /\ UNCHANGED <<server, remember, age, refresh>>

\* createPassword: a new password expires a whole PasswordLife from now.
CreatePassword == passwordAge' = 0

\* change-password asks for an access token and the account, active or not.
ChangePassword(l) ==
    /\ \E a \in access[l] : AccessAccepted(a)
    /\ account # "gone"
    /\ CreatePassword
    /\ UNCHANGED <<account, roleActive, accountDown, roleDown, pc, session>>

\* An administrator activates, deactivates or deletes the account.
SetAccount(to) ==
    /\ account # "gone"
    /\ account' = to
    /\ accountDown' = IF to = "active" THEN 0 ELSE accountDown
    /\ UNCHANGED <<roleActive, passwordAge, roleDown, pc, session>>

SetRole(to) ==
    /\ roleActive' = to
    /\ roleDown' = IF to THEN 0 ELSE roleDown
    /\ UNCHANGED <<account, passwordAge, accountDown, pc, session>>

Older(a) == IF a < Horizon THEN a + 1 ELSE a

Tick ==
    /\ \A l \in Logins : pc[l] = "idle"
    /\ passwordAge' = IF PasswordExpired THEN passwordAge ELSE passwordAge + 1
    /\ accountDown' = IF account = "active" THEN 0 ELSE Older(accountDown)
    /\ roleDown' = IF roleActive THEN 0 ELSE Older(roleDown)
    /\ age' = [l \in Logins |-> Older(age[l])]
    /\ refresh' = [l \in Logins |-> Older(refresh[l])]
    /\ access' = [l \in Logins |->
                    {a \in {b + 1 : b \in access[l]} : Unexpired(a, AccessLife)}]
    /\ UNCHANGED <<account, roleActive, pc, remember>>

Next ==
    \/ \E l \in Logins : \/ LoginFind(l) \/ LoginRole(l) \/ LoginIssue(l)
                         \/ RefreshFind(l) \/ RefreshRole(l) \/ RefreshIssue(l)
                         \/ ChangePassword(l)
    \/ \E to \in {"active", "inactive", "gone"} : SetAccount(to)
    \/ \E to \in BOOLEAN : SetRole(to)
    \/ Tick

Spec == Init /\ [][Next]_vars
-----------------------------------------------------------------------------
\* An access token that is listed as good is one the library takes.
TypeOK ==
    /\ account \in {"active", "inactive", "gone"}
    /\ roleActive \in BOOLEAN
    /\ passwordAge \in 0 .. PasswordLife + 1
    /\ accountDown \in 0 .. Horizon
    /\ roleDown \in 0 .. Horizon
    /\ pc \in [Logins -> {"idle"} \cup Steps]
    /\ remember \in [Logins -> BOOLEAN]
    /\ age \in [Logins -> 0 .. Horizon]
    /\ refresh \in [Logins -> 0 .. Horizon]
    /\ access \in [Logins -> SUBSET (0 .. Effective(AccessLife) - 1)]

\* However often a client refreshes, a login opens the account for the life of its
\* refresh token and one more access token, no longer: refreshing does not slide.
SessionEnds ==
    \A l \in Logins :
        age[l] >= Effective(Life(l)) + Effective(AccessLife) => access[l] = {}

\* A client is never left with a refresh token that is not yet good and no access
\* token: the delay of the one is covered by the life of the other.
NoGap ==
    ~Encryption =>
        \A l \in Logins : Unexpired(refresh[l], Life(l)) =>
            RefreshAccepted(l) \/ \E a \in access[l] : AccessAccepted(a)

\* Deactivating or deleting the account, or deactivating its role, ends all sessions
\* within the life of one access token, whatever handlers were running.
RevocationBounded ==
    \/ accountDown >= Effective(AccessLife)
    \/ roleDown >= Effective(AccessLife)
    => \A l \in Logins : access[l] = {}

\* "recommendation for production is 30m": an access token opens the account for as
\* long as the configuration says.
AccessLifeKept == \A l \in Logins : \A a \in access[l] : a < AccessLife
=============================================================================
