-------------------------------- MODULE Claims --------------------------------
(***************************************************************************)
(* RoleUsers with the tokens that log-ins and refreshes issue meanwhile.   *)
(* An access token carries a copy of the user's role (its name and what it *)
(* grants), and the guards on permissions look at that copy only, so the   *)
(* copy has to stay true for as long as the token lives.                   *)
(*                                                                         *)
(* Requests on users and roles are taken one at a time; log-ins run at any *)
(* time, between any two of their steps.                                   *)
(***************************************************************************)
EXTENDS RoleUsers

CONSTANT Handlers \* handlers of login and refresh that may run at once

VARIABLES at,     \* where each handler is
          who,    \* the user it has found
          held,   \* the id of that user's role
          copy,   \* the role under that id, once populated
          tokens  \* the access tokens that have not expired

claimVars == <<at, who, held, copy, tokens>>
allVars == <<vars, claimVars>>

Token == [user: UserIds, role: Payload]

ClaimsInit ==
    /\ Init
    /\ at = [h \in Handlers |-> "idle"]
    /\ who = [h \in Handlers |-> None]
    /\ held = [h \in Handlers |-> None]
    /\ copy = [h \in Handlers |-> None]
    /\ tokens = {}

Proceed(h, step) == at' = [at EXCEPT ![h] = step]

\* login finds a user by name, refresh by the id of its token.  Refusals that have
\* nothing to do with the role end the handler here.
FindOne(h) ==
    /\ at[h] = "idle"
    /\ \E i \in Users : /\ who' = [who EXCEPT ![h] = i]
                        /\ held' = [held EXCEPT ![h] = users[i].role]
    /\ Proceed(h, "populate")
    /\ UNCHANGED <<copy, tokens>>

\* The role is populated by a second query.  A role that is gone is null (the access
\* to its isActive throws), one that is inactive is refused.
Populate(h) ==
    /\ at[h] = "populate"
    /\ \/ /\ held[h] \in {i \in Roles : roles[i].isActive}
          /\ copy' = [copy EXCEPT ![h] = Content(roles[held[h]])]
          /\ Proceed(h, "issue")
       \/ /\ held[h] \notin {i \in Roles : roles[i].isActive}
          /\ Proceed(h, "idle")
          /\ UNCHANGED copy
    /\ UNCHANGED <<who, held, tokens>>

\* The token is made from the copy, some awaits later.
Issue(h) ==
    /\ at[h] = "issue"
    /\ tokens' = tokens \cup {[user |-> who[h], role |-> copy[h]]}
    /\ Proceed(h, "idle")
    /\ UNCHANGED <<who, held, copy>>

Expire == \E t \in tokens : tokens' = tokens \ {t} /\ UNCHANGED <<at, who, held, copy>>

ClaimsNext == Expire \/ \E h \in Handlers : FindOne(h) \/ Populate(h) \/ Issue(h)

ClaimsSpec ==
    ClaimsInit /\ [][\/ Next /\ Cardinality(InFlight') <= 1 /\ UNCHANGED claimVars
                     \/ ClaimsNext /\ UNCHANGED vars]_allVars
-----------------------------------------------------------------------------
\* No token grants a permission that is not stored.
ClaimsTypeOK ==
    /\ at \in [Handlers -> {"idle", "populate", "issue"}]
    /\ who \in [Handlers -> UserIds \cup {None}]
    /\ held \in [Handlers -> RoleIds \cup {None}]
    /\ copy \in [Handlers -> Payload \cup {None}]
    /\ tokens \subseteq Token

\* While a user exists, every token of his, however old, says of his role what the
\* role says itself, though nothing ever checks it again: RoleUsedGuard refuses to
\* change or delete the role of a user, whatever log-in is under way.
ClaimsCurrent ==
    \A t \in tokens : t.user \in Users =>
        /\ users[t.user].role \in Roles
        /\ t.role = Content(roles[users[t.user].role])
=============================================================================
