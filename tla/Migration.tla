------------------------------ MODULE Migration ------------------------------
(***************************************************************************)
(* The seeds and their removal (migration/seeds), run as the two chains of *)
(* package.json: the commands of a chain follow each other as long as each *)
(* of them succeeds.  A chain may be killed anywhere, also in the middle   *)
(* of a bulk insert, and an operator may then start any chain again.  The  *)
(* scripts of package.json also run each command alone.                    *)
(*                                                                         *)
(* The chains run while the application does not.  Ids are new every time  *)
(* a document is created: the number of the chain that created it.         *)
(***************************************************************************)
EXTENDS Absent, Integers, FiniteSets, Sequences, Functions

CONSTANTS Codes,    \* the permission codes, in the order of their enum
          MaxChains \* bound: chains started

VARIABLES settings,    \* the names of the settings
          apikeys,     \* is the key of the seed stored?
          permissions, \* code -> id
          roles,       \* name -> [id, permissions]
          users,       \* name -> its role, [name, id]
          chain,       \* the commands left to run, the first one running
          step,        \* how far that command is
          found,       \* what the command has read
          chains,      \* the number of chains started
          orderly,     \* was no command run alone?
          last         \* how the last chain went, for the properties

collections == <<settings, apikeys, permissions, roles, users>>
vars == <<settings, apikeys, permissions, roles, users, chain, step, found, chains, orderly,
          last>>

SettingNames == <<"maintenance", "maxPasswordAttempt", "passwordAttempt",
                  "mobileNumberCountryCodeAllowed">>

\* Who is seeded: every user has the role of the same name.
Names == <<"superadmin", "admin", "user">>

\* A removal that would take the roles before the users who have them.
RollbackRolesFirst == <<"remove:setting", "remove:apikey", "remove:role", "remove:user",
                        "remove:permission">>

\* A removal that would forget the API keys.
RollbackKeepsApiKey == <<"remove:setting", "remove:user", "remove:role", "remove:permission">>

Rollback == <<"remove:setting", "remove:apikey", "remove:user", "remove:role",
              "remove:permission">>

\* A seed that would store the roles before their permissions.
SeedRolesFirst == <<"seed:setting", "seed:apikey", "seed:role", "seed:permission", "seed:user">>

Seed == <<"seed:setting", "seed:apikey", "seed:permission", "seed:role", "seed:user">>

\* The codes are the values of an enum.
ASSUME MigrationAssumption ==
    /\ Codes \in Seq(STRING) /\ IsInjective(Codes)
    /\ MaxChains \in Nat

Empty == settings = {} /\ ~apikeys /\ permissions = << >> /\ roles = << >> /\ users = << >>

\* The permissions with a field no entity has: undefined.
PermissionsWithoutId == {[code |-> c, id |-> None] : c \in DOMAIN permissions}

Permissions == {[code |-> c, id |-> permissions[c]] : c \in DOMAIN permissions}

Init ==
    /\ settings = {} /\ apikeys = FALSE
    /\ permissions = << >> /\ roles = << >> /\ users = << >>
    /\ chain = << >> /\ step = 1 /\ found = None /\ chains = 0 /\ orderly = TRUE
    /\ last = [of |-> None, empty |-> TRUE, outcome |-> "none"]

Start(commands) ==
    /\ chain = << >> /\ chains < MaxChains
    /\ chain' = commands
    /\ step' = 1 /\ found' = None
    /\ chains' = chains + 1
    /\ last' = [of |-> commands, empty |-> Empty, outcome |-> "running"]
    /\ orderly' = (orderly /\ Len(commands) > 1)
    /\ UNCHANGED collections

Alone == \E command \in Range(Seed) \cup Range(Rollback) : Start(<<command>>)

Running(command) == chain # << >> /\ Head(chain) = command

\* The command ends well: the next one of the chain starts.
Done ==
    /\ chain' = Tail(chain)
    /\ step' = 1 /\ found' = None
    /\ last' = IF Tail(chain) = << >> THEN [last EXCEPT !.outcome = "done"] ELSE last
    /\ UNCHANGED <<chains, orderly>>

\* It throws, and && starts no other.
Ends(outcome) ==
    /\ chain' = << >>
    /\ step' = 1 /\ found' = None
    /\ last' = [last EXCEPT !.outcome = outcome]
    /\ UNCHANGED <<chains, orderly>>

GoOn(read) ==
    /\ step' = step + 1
    /\ found' = read
    /\ UNCHANGED <<chain, chains, orderly, last>>

Killed == chain # << >> /\ Ends("killed") /\ UNCHANGED collections
-----------------------------------------------------------------------------
(* The seeds *)

\* MigrationSettingSeed: four creates, each of which the unique name may refuse.
SeedSetting ==
    LET name == SettingNames[step]
    IN /\ Running("seed:setting")
       /\ \/ name \in settings /\ Ends("refused") /\ UNCHANGED settings
          \/ /\ name \notin settings
             /\ settings' = settings \cup {name}
             /\ IF step = Len(SettingNames) THEN Done ELSE GoOn(None)
       /\ UNCHANGED <<apikeys, permissions, roles, users>>

\* The same, if a key that is there were taken for success.
SeedApiKeyUpserts ==
    /\ Running("seed:apikey")
    /\ apikeys' = TRUE
    /\ Done
    /\ UNCHANGED <<settings, permissions, roles, users>>

SeedApiKey ==
    /\ Running("seed:apikey")
    /\ apikeys' = TRUE
    /\ IF apikeys THEN Ends("refused") ELSE Done
    /\ UNCHANGED <<settings, permissions, roles, users>>

\* insertMany stores what comes before the first document that is refused.
Inserted(n) == [c \in {Codes[m] : m \in 1..n} \cup DOMAIN permissions |->
                  IF c \in DOMAIN permissions THEN permissions[c] ELSE chains]

SeedPermission ==
    LET taken == {n \in DOMAIN Codes : Codes[n] \in DOMAIN permissions}
        upto == IF taken = {} THEN Len(Codes)
                ELSE CHOOSE n \in 0..Len(Codes) : n + 1 \in taken /\ \A m \in taken : n < m
    IN /\ Running("seed:permission")
       /\ \/ permissions' = Inserted(upto) /\ IF taken = {} THEN Done ELSE Ends("refused")
          \/ \E n \in 0..upto : permissions' = Inserted(n) /\ Ends("killed")
       /\ UNCHANGED <<settings, apikeys, roles, users>>

\* A document is stored under a name that is free, and refused under one that is not.
Create(documents, name, document) ==
    [n \in DOMAIN documents \cup {name} |->
        IF n \in DOMAIN documents THEN documents[n] ELSE document]

\* What RoleBulkService.createMany and RoleService.createSuperAdmin store.
Role(given) == [id |-> chains, permissions |-> given]

SuperAdmin == Create(roles, "superadmin", Role({}))

\* RoleSeed: the permissions are read, the super admin is created, then the other two in bulk;
\* as roles are only ever removed together, a super admin that was free leaves them free too.
SeedRole ==
    /\ Running("seed:role")
    /\ \/ step = 1 /\ GoOn(Permissions) /\ UNCHANGED roles
       \/ /\ step = 2
          /\ roles' = SuperAdmin
          /\ IF "superadmin" \in DOMAIN roles THEN Ends("refused") ELSE GoOn(found)
       \/ /\ step = 3
          /\ LET admin == Create(roles, "admin", Role(found))
             IN \/ roles' = Create(admin, "user", Role({})) /\ Done
                \/ roles' = admin /\ Ends("killed")
    /\ UNCHANGED <<settings, apikeys, permissions, users>>

\* UserSeed: the three roles are read, then the users created one by one; a role that was
\* not found ends in a TypeError.
SeedUser ==
    /\ Running("seed:user")
    /\ \/ /\ step = 1
          /\ GoOn([n \in DOMAIN roles |-> [name |-> n, id |-> roles[n].id]])
          /\ UNCHANGED users
       \/ LET name == Names[step - 1]
          IN /\ step > 1
             /\ \/ /\ name \in DOMAIN users \/ name \notin DOMAIN found
                   /\ Ends("refused") /\ UNCHANGED users
                \/ /\ name \notin DOMAIN users /\ name \in DOMAIN found
                   /\ users' = Create(users, name, found[name])
                   /\ IF name = "user" THEN Done ELSE GoOn(found)
    /\ UNCHANGED <<settings, apikeys, permissions, roles>>
-----------------------------------------------------------------------------
(* Their removal: deleteMany({}) *)

RemoveSetting ==
    /\ Running("remove:setting") /\ settings' = {} /\ Done
    /\ UNCHANGED <<apikeys, permissions, roles, users>>

RemoveApiKey ==
    /\ Running("remove:apikey") /\ apikeys' = FALSE /\ Done
    /\ UNCHANGED <<settings, permissions, roles, users>>

RemoveUser ==
    /\ Running("remove:user") /\ users' = << >> /\ Done
    /\ UNCHANGED <<settings, apikeys, permissions, roles>>

RemoveRole ==
    /\ Running("remove:role") /\ roles' = << >> /\ Done
    /\ UNCHANGED <<settings, apikeys, permissions, users>>

RemovePermission ==
    /\ Running("remove:permission") /\ permissions' = << >> /\ Done
    /\ UNCHANGED <<settings, apikeys, roles, users>>

Next ==
    \/ Start(Seed) \/ Start(Rollback) \/ Alone
    \/ Killed
    \/ SeedSetting \/ SeedApiKey \/ SeedPermission \/ SeedRole \/ SeedUser
    \/ RemoveSetting \/ RemoveApiKey \/ RemoveUser \/ RemoveRole \/ RemovePermission

Spec == Init /\ [][Next]_vars
-----------------------------------------------------------------------------
(* Properties *)

\* Every collection holds what its schema says, a role the ids of permissions as they
\* are stored (what RoleSeed maps), and the running command is within its steps.
MigrationTypeOK ==
    LET Ids == 1..MaxChains
        Some(names, values) == UNION {[N -> values] : N \in SUBSET Range(names)}
    IN /\ settings \subseteq Range(SettingNames) /\ apikeys \in BOOLEAN
       /\ permissions \in Some(Codes, Ids)
       /\ DOMAIN roles \subseteq Range(Names)
       /\ \A r \in Range(roles) :
             r.id \in Ids /\ r.permissions \subseteq [code : Range(Codes), id : Ids]
       /\ users \in Some(Names, [name : Range(Names), id : Ids])
       /\ step \in 1..Len(SettingNames) /\ chains \in 0..MaxChains /\ orderly \in BOOLEAN

\* As long as only the two chains are run, in whatever order and wherever they are killed or
\* refused, no user has a role that is not stored and no role a permission that is not: the
\* chain of package.json removes users, roles and permissions in this order.
SeedReferencesHold ==
    orderly =>
        /\ \A u \in DOMAIN users :
              users[u].name \in DOMAIN roles /\ roles[users[u].name].id = users[u].id
        /\ \A r \in DOMAIN roles : roles[r].permissions \subseteq Permissions

\* A chain of seeds that ends well leaves an administrator with every permission, and the
\* three users with their roles, whatever earlier chains left behind.
SeededWhole ==
    last.of = Seed /\ last.outcome = "done" =>
        /\ Cardinality(settings) = Len(SettingNames) /\ apikeys
        /\ roles["admin"].permissions = Permissions
        /\ Cardinality(Permissions) = Len(Codes)
        /\ \A n \in DOMAIN Names : users[Names[n]].name = Names[n]

\* However the seeds were interrupted, removing everything and seeding again works: a removal
\* is never refused and leaves nothing, and seeds that start from nothing are never refused.
Recoverable ==
    /\ last.of = Rollback => last.outcome # "refused" /\ (last.outcome = "done" => Empty)
    /\ last.of = Seed /\ last.empty => last.outcome # "refused"

\* Seeds that were interrupted cannot be resumed: wherever something of them is left, a chain
\* of seeds is refused or killed and never reaches its end (the unique indexes of the entities
\* against the seeds of migration/seeds).
SeedsNeverResume ==
    last.of = Seed /\ ~last.empty => last.outcome # "done"
=============================================================================
