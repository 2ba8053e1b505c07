---------------------------- MODULE Migration_proofs ----------------------------
(***************************************************************************)
(* Theorems about Migration, for any permission codes and any number of    *)
(* chains.                                                                 *)
(***************************************************************************)
EXTENDS Migration, FiniteSetTheorems, WellFoundedInduction, TLAPS

RolesAway == <<"remove:role", "remove:permission">>
PermissionsAway == <<"remove:permission">>

\* What is left of a chain, wherever it is.
Rests ==
    {Seed, <<"seed:apikey", "seed:permission", "seed:role", "seed:user">>,
     <<"seed:permission", "seed:role", "seed:user">>, <<"seed:role", "seed:user">>,
     <<"seed:user">>,
     Rollback, <<"remove:apikey", "remove:user", "remove:role", "remove:permission">>,
     <<"remove:user", "remove:role", "remove:permission">>, RolesAway, PermissionsAway,
     << >>}

LEMMA RestOfRest ==
    ASSUME NEW c \in Rests, c # << >>
    PROVE  /\ Tail(c) \in Rests
           /\ Tail(c) = RolesAway => Head(c) = "remove:user"
           /\ Tail(c) = PermissionsAway => c = RolesAway
           /\ Head(c) = "remove:role" => c = RolesAway
           /\ Head(c) = "remove:permission" => c = PermissionsAway
<1> USE DEF Rests, Seed, Rollback, RolesAway, PermissionsAway
<1>1. CASE c = Seed
  BY <1>1
<1>2. CASE c = <<"seed:apikey", "seed:permission", "seed:role", "seed:user">>
  BY <1>2
<1>3. CASE c = <<"seed:permission", "seed:role", "seed:user">>
  BY <1>3
<1>4. CASE c = <<"seed:role", "seed:user">>
  BY <1>4
<1>5. CASE c = <<"seed:user">>
  BY <1>5
<1>6. CASE c = Rollback
  BY <1>6
<1>7. CASE c = <<"remove:apikey", "remove:user", "remove:role", "remove:permission">>
  BY <1>7
<1>8. CASE c = <<"remove:user", "remove:role", "remove:permission">>
  BY <1>8
<1>9. CASE c = RolesAway
  BY <1>9
<1>10. CASE c = PermissionsAway
  BY <1>10
<1> QED
  BY <1>1, <1>2, <1>3, <1>4, <1>5, <1>6, <1>7, <1>8, <1>9, <1>10

LEMMA NothingInEmpty == DOMAIN << >> = {}
  OBVIOUS

RolesStored ==
    \A u \in DOMAIN users :
        users[u].name \in DOMAIN roles /\ roles[users[u].name].id = users[u].id

PermissionsStored == \A r \in DOMAIN roles : roles[r].permissions \subseteq Permissions

\* The references hold because a chain removes in the opposite order of the references, and
\* because what a seed has read stays stored until it is written.
OrderlyInv ==
    orderly =>
        /\ RolesStored /\ PermissionsStored
        /\ chain \in Rests
        /\ chain \in {RolesAway, PermissionsAway} => DOMAIN users = {}
        /\ chain = PermissionsAway => DOMAIN roles = {}
        /\ Running("seed:role") /\ step # 1 => found \subseteq Permissions
        /\ Running("seed:user") /\ step # 1 =>
              \A n \in DOMAIN found :
                 found[n].name \in DOMAIN roles /\ roles[found[n].name].id = found[n].id

LEMMA OrderlyInit == Init => OrderlyInv
  BY NothingInEmpty DEF Init, OrderlyInv, RolesStored, PermissionsStored, Rests, Running,
                        RolesAway, PermissionsAway

\* Inserting permissions keeps the ids of those that are there.
LEMMA InsertedKeeps ==
    ASSUME NEW n, permissions' = Inserted(n)
    PROVE  Permissions \subseteq Permissions'
<1>1. \A c \in DOMAIN permissions : c \in DOMAIN permissions' /\ permissions'[c] = permissions[c]
  BY DEF Inserted
<1> QED
  BY <1>1 DEF Permissions

\* A command that is over leaves nothing that it had read.
LEMMA AfterOne ==
    ASSUME chain \in Rests, chain # << >>, Done \/ \E outcome : Ends(outcome)
    PROVE  /\ chain' \in Rests
           /\ step' = 1
           /\ chain' = RolesAway => Running("remove:user")
           /\ chain' = PermissionsAway => chain = RolesAway
<1>1. CASE Done
  BY <1>1, RestOfRest DEF Done, Running
<1>2. CASE \E outcome : Ends(outcome)
  <2>1. chain' = << >> /\ step' = 1
    BY <1>2 DEF Ends
  <2>2. << >> \in Rests /\ << >> # RolesAway /\ << >> # PermissionsAway
    BY DEF Rests, RolesAway, PermissionsAway
  <2> QED
    BY <2>1, <2>2
<1> QED
  BY <1>1, <1>2

\* Creating a document touches no other.
LEMMA Created ==
    ASSUME NEW documents, NEW name, NEW document
    PROVE  /\ \A n \in DOMAIN documents :
                 /\ n \in DOMAIN Create(documents, name, document)
                 /\ Create(documents, name, document)[n] = documents[n]
           /\ \A n \in DOMAIN Create(documents, name, document) :
                 \/ n \in DOMAIN documents
                 \/ n = name /\ Create(documents, name, document)[n] = document
  BY DEF Create

LEMMA OrderlyStep == OrderlyInv /\ [Next]_vars => OrderlyInv'
<1> SUFFICES ASSUME OrderlyInv, [Next]_vars, orderly' PROVE OrderlyInv'
  BY DEF OrderlyInv
<1> USE DEF OrderlyInv
<1>1. orderly
  BY DEF Next, vars, Start, Alone, Killed, Done, Ends, GoOn, SeedSetting, SeedApiKey,
         SeedPermission, SeedRole, SeedUser, RemoveSetting, RemoveApiKey, RemoveUser, RemoveRole,
         RemovePermission
<1>2. CASE UNCHANGED vars
  BY <1>1, <1>2 DEF vars, collections, RolesStored, PermissionsStored, Permissions, Running
<1>3. ASSUME NEW c, Start(c) PROVE c \in {Seed, Rollback} => OrderlyInv'
  <2> HAVE c \in {Seed, Rollback}
  <2>1. chain' \in Rests /\ chain' \notin {RolesAway, PermissionsAway} /\ step' = 1
    BY <1>3 DEF Start, Rests, Seed, Rollback, RolesAway, PermissionsAway
  <2>2. RolesStored' /\ PermissionsStored'
    BY <1>1, <1>3 DEF Start, collections, RolesStored, PermissionsStored, Permissions
  <2> QED
    BY <2>1, <2>2
<1>4. ~Alone
  <2> SUFFICES ASSUME NEW command, Start(<<command>>) PROVE FALSE
    BY DEF Alone
  <2>1. ~(Len(<<command>>) > 1)
    OBVIOUS
  <2> QED
    BY <2>1, Zenon DEF Start
<1>5. CASE Killed
  <2>1. chain' = << >> /\ UNCHANGED collections
    BY <1>5 DEF Killed, Ends
  <2>2. chain' \in Rests /\ chain' \notin {RolesAway, PermissionsAway} /\ ~(chain' # << >>)
    BY <2>1 DEF Rests, RolesAway, PermissionsAway
  <2> QED
    BY <1>1, <2>1, <2>2 DEF collections, RolesStored, PermissionsStored, Permissions, Running
<1>6. CASE SeedSetting \/ SeedApiKey \/ RemoveSetting \/ RemoveApiKey
  <2>1. UNCHANGED <<permissions, roles, users>>
    BY <1>6 DEF SeedSetting, SeedApiKey, RemoveSetting, RemoveApiKey
  <2>2. chain # << >> /\ Head(chain) \notin {"remove:user", "remove:role", "seed:role", "seed:user"}
    BY <1>6 DEF SeedSetting, SeedApiKey, RemoveSetting, RemoveApiKey, Running
  <2>3. chain' = chain \/ Done \/ \E outcome : Ends(outcome)
    BY <1>6 DEF SeedSetting, SeedApiKey, RemoveSetting, RemoveApiKey, GoOn
  <2>4. chain' \in Rests /\ chain' # RolesAway /\ chain' # PermissionsAway
    <3>1. Head(RolesAway) = "remove:role" /\ Head(PermissionsAway) = "remove:permission"
      BY DEF RolesAway, PermissionsAway
    <3>2. Head(chain) # "remove:permission"
      BY <1>6 DEF SeedSetting, SeedApiKey, RemoveSetting, RemoveApiKey, Running
    <3>3. CASE chain' = chain
      BY <1>1, <2>2, <3>1, <3>2, <3>3
    <3> QED
      BY <1>1, <2>2, <2>3, <3>1, <3>3, AfterOne DEF Running
  <2>5. ~Running("seed:role")' \/ step' = 1
    BY <1>1, <2>2, <2>3, AfterOne DEF Running
  <2>6. ~Running("seed:user")' \/ step' = 1
    BY <1>1, <2>2, <2>3, AfterOne DEF Running
  <2> QED
    BY <1>1, <2>1, <2>4, <2>5, <2>6 DEF RolesStored, PermissionsStored, Permissions
<1>7. CASE SeedPermission
  <2>1. /\ UNCHANGED <<roles, users>> /\ Running("seed:permission")
        /\ Permissions \subseteq Permissions'
        /\ Done \/ \E outcome : Ends(outcome)
    BY <1>7, InsertedKeeps DEF SeedPermission
  <2>2. chain' \in Rests /\ step' = 1 /\ chain' \notin {RolesAway, PermissionsAway}
    BY <1>1, <2>1, AfterOne DEF Running, RolesAway
  <2> QED
    BY <1>1, <2>1, <2>2 DEF RolesStored, PermissionsStored
<1>8. CASE SeedRole
  <2>1. UNCHANGED <<permissions, users>> /\ Running("seed:role")
    BY <1>8 DEF SeedRole
  <2>2. /\ chain' = chain \/ Done \/ \E outcome : Ends(outcome)
        /\ step' # 1 => found' = Permissions \/ (found' = found /\ step # 1)
    <3>1. \/ GoOn(Permissions)
          \/ GoOn(found) /\ step = 2
          \/ Done \/ \E outcome : Ends(outcome)
      BY <1>8 DEF SeedRole
    <3>2. ASSUME Done \/ \E outcome : Ends(outcome) PROVE step' = 1
      BY <3>2 DEF Done, Ends
    <3>3. ASSUME NEW read, GoOn(read) PROVE chain' = chain /\ found' = read
      BY <3>3 DEF GoOn
    <3>4. step = 2 => step # 1
      OBVIOUS
    <3>5. CASE GoOn(Permissions)
      BY <3>3, <3>5
    <3>6. CASE GoOn(found) /\ step = 2
      BY <3>3, <3>4, <3>6
    <3> QED
      BY <3>1, <3>2, <3>5, <3>6
  <2>3. chain' \in Rests /\ chain' \notin {RolesAway, PermissionsAway}
    BY <1>1, <2>1, <2>2, AfterOne DEF Running, RolesAway, PermissionsAway
  <2>4. /\ \A n \in DOMAIN roles : n \in DOMAIN roles' /\ roles'[n] = roles[n]
        /\ \A n \in DOMAIN roles' :
              n \in DOMAIN roles \/ roles'[n].permissions \subseteq Permissions
    <3>1. CASE step = 1
      BY <1>8, <3>1 DEF SeedRole
    <3>2. CASE step = 2
      BY <1>8, <3>2 DEF SeedRole, SuperAdmin, Create, Role
    <3>3. CASE step = 3
      <4>1. found \subseteq Permissions
        BY <1>1, <2>1, <3>3
      <4> DEFINE admin == Create(roles, "admin", Role(found))
                 both == Create(admin, "user", Role({}))
      <4>2. roles' \in {admin, both}
        BY <1>8, <3>3 DEF SeedRole
      <4>3. Role(found).permissions = found /\ Role({}).permissions = {}
        BY DEF Role
      <4>4. /\ \A n \in DOMAIN roles : n \in DOMAIN admin /\ admin[n] = roles[n]
            /\ \A n \in DOMAIN admin : n \in DOMAIN roles \/ admin[n].permissions = found
        BY <4>3, Created
      <4>5. /\ \A n \in DOMAIN admin : n \in DOMAIN both /\ both[n] = admin[n]
            /\ \A n \in DOMAIN both : n \in DOMAIN admin \/ both[n].permissions = {}
        <5> HIDE DEF admin
        <5> QED
          BY <4>3, Created
      <4> HIDE DEF admin, both
      <4> QED
        BY <4>1, <4>2, <4>4, <4>5
    <3> QED
      BY <1>8, <3>1, <3>2, <3>3 DEF SeedRole
  <2>5. RolesStored' /\ PermissionsStored'
    BY <1>1, <2>1, <2>4 DEF RolesStored, PermissionsStored, Permissions
  <2>6. Running("seed:role")' /\ step' # 1 => found' \subseteq Permissions'
    BY <1>1, <2>1, <2>2, AfterOne DEF Running, Permissions
  <2>7. ~Running("seed:user")' \/ step' = 1
    BY <1>1, <2>1, <2>2, AfterOne DEF Running
  <2> QED
    BY <2>3, <2>5, <2>6, <2>7
<1>9. CASE SeedUser
  <2> DEFINE Fits(f) == \A n \in DOMAIN f :
                           f[n].name \in DOMAIN roles /\ roles[f[n].name].id = f[n].id
  <2>1. UNCHANGED <<permissions, roles>> /\ Running("seed:user")
    BY <1>9 DEF SeedUser
  <2>2. /\ chain' = chain \/ Done \/ \E outcome : Ends(outcome)
        /\ chain' = chain /\ step' # 1 => Fits(found')
    <3>1. CASE step = 1 /\ GoOn([n \in DOMAIN roles |-> [name |-> n, id |-> roles[n].id]])
      <4>1. chain' = chain /\ found' = [n \in DOMAIN roles |-> [name |-> n, id |-> roles[n].id]]
        BY <3>1 DEF GoOn
      <4> QED
        BY <4>1
    <3>2. CASE GoOn(found) /\ step # 1
      BY <1>1, <2>1, <3>2 DEF GoOn
    <3>3. CASE Done \/ \E outcome : Ends(outcome)
      BY <3>3 DEF Done, Ends
    <3>4. step > 1 => step # 1
      OBVIOUS
    <3> QED
      BY <1>9, <3>1, <3>2, <3>3, <3>4 DEF SeedUser
  <2>3. chain' \in Rests /\ chain' \notin {RolesAway, PermissionsAway}
    BY <1>1, <2>1, <2>2, AfterOne DEF Running, RolesAway, PermissionsAway
  <2>4. RolesStored'
    <3>1. CASE users' = users
      BY <1>1, <2>1, <3>1 DEF RolesStored
    <3>2. ASSUME NEW name, step > 1, name \in DOMAIN found, users' = Create(users, name, found[name])
          PROVE  RolesStored'
      <4>1. Fits(found)
        BY <1>1, <2>1, <3>2
      <4>2. \A u \in DOMAIN users' :
               \/ u \in DOMAIN users /\ users'[u] = users[u]
               \/ u = name /\ users'[u] = found[name]
        <5> DEFINE made == Create(users, name, found[name])
        <5>1. users' = made
          BY <3>2
        <5>2. /\ \A u \in DOMAIN users : u \in DOMAIN made /\ made[u] = users[u]
              /\ \A u \in DOMAIN made : u \in DOMAIN users \/ (u = name /\ made[u] = found[name])
          BY Created
        <5> HIDE DEF made
        <5> QED
          BY <5>1, <5>2
      <4> QED
        BY <1>1, <2>1, <3>2, <4>1, <4>2 DEF RolesStored
    <3> QED
      BY <1>9, <3>1, <3>2 DEF SeedUser
  <2>5. PermissionsStored'
    BY <1>1, <2>1 DEF PermissionsStored, Permissions
  <2>6. Running("seed:user")' /\ step' # 1 => Fits(found')
    BY <1>1, <2>1, <2>2, AfterOne DEF Running
  <2>7. ~Running("seed:role")' \/ step' = 1
    BY <1>1, <2>1, <2>2, AfterOne DEF Running
  <2> QED
    BY <2>1, <2>3, <2>4, <2>5, <2>6, <2>7
<1>10. CASE RemoveUser
  <2>1. users' = << >> /\ UNCHANGED <<permissions, roles>> /\ Done /\ chain # << >>
    BY <1>10 DEF RemoveUser, Running
  <2>2. chain' \in Rests /\ step' = 1 /\ (chain' = PermissionsAway => chain = RolesAway)
    BY <1>1, <2>1, AfterOne
  <2>3. chain # RolesAway
    BY <1>10 DEF RemoveUser, Running, RolesAway
  <2> QED
    BY <1>1, <2>1, <2>2, <2>3, NothingInEmpty DEF RolesStored, PermissionsStored, Permissions
<1>11. CASE RemoveRole
  <2>1. /\ roles' = << >> /\ UNCHANGED <<permissions, users>> /\ Done
        /\ chain # << >> /\ chain = RolesAway
    BY <1>1, <1>11, RestOfRest DEF RemoveRole, Running
  <2>2. chain' \in Rests /\ step' = 1
    BY <1>1, <2>1, AfterOne
  <2> QED
    BY <1>1, <2>1, <2>2, NothingInEmpty DEF RolesStored, PermissionsStored
<1>12. CASE RemovePermission
  <2>1. /\ permissions' = << >> /\ UNCHANGED <<roles, users>> /\ Done
        /\ chain # << >> /\ chain = PermissionsAway
    BY <1>1, <1>12, RestOfRest DEF RemovePermission, Running
  <2>2. DOMAIN roles = {} /\ DOMAIN users = {}
    BY <1>1, <2>1
  <2>3. chain' \in Rests /\ step' = 1
    BY <1>1, <2>1, AfterOne
  <2> QED
    BY <2>1, <2>2, <2>3 DEF RolesStored, PermissionsStored
<1> QED
  BY <1>2, <1>3, <1>4, <1>5, <1>6, <1>7, <1>8, <1>9, <1>10, <1>11, <1>12 DEF Next

\* Wherever the two chains are killed or refused, and whichever is started next, no user has a
\* role that is not stored and no role a permission that is not.
THEOREM ReferencesHold == Spec => []SeedReferencesHold
<1>1. OrderlyInv => SeedReferencesHold
  BY DEF OrderlyInv, SeedReferencesHold, RolesStored, PermissionsStored
<1> QED
  BY <1>1, OrderlyInit, OrderlyStep, PTL DEF Spec
-----------------------------------------------------------------------------
\* How a chain went is a record, which the commands leave but for its outcome.
Going == last = [of |-> last.of, empty |-> last.empty, outcome |-> last.outcome]

LEMMA LastOfStart ==
    ASSUME NEW c, Start(c)
    PROVE  /\ last'.of = c /\ last'.empty = Empty /\ last'.outcome = "running" /\ Going'
           /\ chain' = c /\ chain = << >> /\ step' = 1 /\ UNCHANGED collections
  BY DEF Start, Going

LEMMA LastOfEnds ==
    ASSUME Going, NEW outcome, Ends(outcome)
    PROVE  /\ last'.of = last.of /\ last'.empty = last.empty /\ last'.outcome = outcome /\ Going'
           /\ chain' = << >>
  BY DEF Ends, Going

LEMMA LastOfDone ==
    ASSUME Going, Done
    PROVE  /\ last'.of = last.of /\ last'.empty = last.empty /\ Going'
           /\ last'.outcome = IF Tail(chain) = << >> THEN "done" ELSE last.outcome
           /\ chain' = Tail(chain) /\ step' = 1
  BY DEF Done, Going

\* What a removal has emptied by the command it runs.
Removed ==
    /\ settings = {} \/ chain = Rollback
    /\ ~apikeys \/ chain \in {Rollback, Tail(Rollback)}
    /\ users = << >> \/ chain \in {Rollback, Tail(Rollback), Tail(Tail(Rollback))}
    /\ roles = << >> \/ chain # PermissionsAway

Removals == {Rollback, Tail(Rollback), Tail(Tail(Rollback)), RolesAway, PermissionsAway}

\* A removal under way has emptied the collections of the commands it is past.
RemovalInv ==
    /\ Going
    /\ chain # << >> => last.outcome = "running"
    /\ last.of = Rollback =>
          /\ chain # << >> => chain \in Removals /\ Removed
          /\ last.outcome # "refused"
          /\ last.outcome = "done" => chain = << >> /\ Empty

LEMMA RollbackTails ==
    /\ Tail(Rollback) = <<"remove:apikey", "remove:user", "remove:role", "remove:permission">>
    /\ Tail(Tail(Rollback)) = <<"remove:user", "remove:role", "remove:permission">>
    /\ Tail(Tail(Tail(Rollback))) = RolesAway
    /\ Tail(RolesAway) = PermissionsAway
    /\ Tail(PermissionsAway) = << >>
    /\ Rollback # << >> /\ Seed # Rollback
  BY DEF Rollback, RolesAway, PermissionsAway, Seed

\* The command that runs tells where the removal is.
LEMMA RemovalHead ==
    ASSUME chain \in Removals
    PROVE  /\ chain # << >>
           /\ Running("remove:setting") <=> chain = Rollback
           /\ Running("remove:apikey") <=> chain = Tail(Rollback)
           /\ Running("remove:user") <=> chain = Tail(Tail(Rollback))
           /\ Running("remove:role") <=> chain = RolesAway
           /\ Running("remove:permission") <=> chain = PermissionsAway
           /\ \A command : Running(command) =>
                 command \in {"remove:setting", "remove:apikey", "remove:user", "remove:role",
                              "remove:permission"}
<1> USE RollbackTails DEF Running
<1>1. CASE chain = Rollback
  BY <1>1 DEF Rollback, RolesAway, PermissionsAway
<1>2. CASE chain = Tail(Rollback)
  BY <1>2 DEF Rollback, RolesAway, PermissionsAway
<1>3. CASE chain = Tail(Tail(Rollback))
  BY <1>3 DEF Rollback, RolesAway, PermissionsAway
<1>4. CASE chain = RolesAway
  BY <1>4 DEF Rollback, RolesAway, PermissionsAway
<1>5. CASE chain = PermissionsAway
  BY <1>5 DEF Rollback, RolesAway, PermissionsAway
<1> QED
  BY <1>1, <1>2, <1>3, <1>4, <1>5 DEF Removals

LEMMA RemovalInit == Init => RemovalInv
  BY DEF Init, RemovalInv, Going, Rollback

LEMMA RemovalStep == RemovalInv /\ [Next]_vars => RemovalInv'
<1> SUFFICES ASSUME RemovalInv, [Next]_vars PROVE RemovalInv'
  OBVIOUS
<1> USE DEF RemovalInv
<1>1. CASE UNCHANGED vars
  BY <1>1 DEF vars, collections, Going, Removed, Empty
<1>2. ASSUME NEW c, Start(c) PROVE RemovalInv'
  <2>1. Rollback \in Removals
    BY DEF Removals
  <2> QED
    BY <1>2, <2>1, LastOfStart, RemovalHead DEF Removed, PermissionsAway, Rollback
<1>3. CASE Killed
  <2>1. Ends("killed") /\ chain # << >> /\ UNCHANGED collections
    BY <1>3 DEF Killed
  <2> QED
    BY <2>1, LastOfEnds
<1> DEFINE Stays == UNCHANGED last /\ chain' = chain
<1>4. CASE SeedSetting \/ SeedApiKey \/ SeedPermission \/ SeedRole \/ SeedUser
  <2>1. chain # << >> /\ chain \notin Removals
    BY <1>4, RemovalHead DEF SeedSetting, SeedApiKey, SeedPermission, SeedRole, SeedUser, Running
  <2>2. last.of # Rollback
    BY <2>1
  <2>3. Stays \/ Done \/ Ends("refused") \/ Ends("killed")
    BY <1>4 DEF SeedSetting, SeedApiKey, SeedPermission, SeedRole, SeedUser, GoOn
  <2>4. Going' /\ last'.of = last.of /\ (chain' # << >> => last'.outcome = "running")
    BY <2>1, <2>3, LastOfDone, LastOfEnds DEF Going
  <2> QED
    BY <2>2, <2>4
<1>5. CASE RemoveSetting \/ RemoveApiKey \/ RemoveUser \/ RemoveRole \/ RemovePermission
  <2>1. Done /\ chain # << >>
    BY <1>5 DEF RemoveSetting, RemoveApiKey, RemoveUser, RemoveRole, RemovePermission, Running
  <2>2. /\ Going' /\ last'.of = last.of /\ chain' = Tail(chain)
        /\ last'.outcome = IF chain' = << >> THEN "done" ELSE "running"
    BY <2>1, LastOfDone
  <2> SUFFICES ASSUME last.of = Rollback
               PROVE  /\ chain' # << >> => chain' \in Removals /\ Removed'
                      /\ chain' = << >> => Empty'
    BY <2>2
  <2>3. chain \in Removals /\ Removed
    BY <2>1
  <2>4. CASE RemoveSetting
    <3>1. chain = Rollback /\ settings' = {}
      BY <2>3, <2>4, RemovalHead DEF RemoveSetting
    <3> QED
      BY <2>2, <2>3, <2>4, <3>1, RollbackTails DEF RemoveSetting, Removed, Removals, Empty, PermissionsAway
  <2>5. CASE RemoveApiKey
    <3>1. chain = Tail(Rollback) /\ apikeys' = FALSE
      BY <2>3, <2>5, RemovalHead DEF RemoveApiKey
    <3> QED
      BY <2>2, <2>3, <2>5, <3>1, RollbackTails DEF RemoveApiKey, Removed, Removals, Empty, PermissionsAway
  <2>6. CASE RemoveUser
    <3>1. chain = Tail(Tail(Rollback)) /\ users' = << >>
      BY <2>3, <2>6, RemovalHead DEF RemoveUser
    <3> QED
      <4>1. chain # Rollback /\ chain # Tail(Rollback) /\ chain' = RolesAway
        BY <2>2, <3>1, RollbackTails DEF Rollback
      <4>2. settings = {} /\ ~apikeys /\ UNCHANGED <<settings, apikeys>>
        BY <2>3, <2>6, <4>1 DEF RemoveUser, Removed
      <4>3. RolesAway # << >> /\ RolesAway # PermissionsAway /\ RolesAway \in Removals
        BY DEF RolesAway, PermissionsAway, Removals
      <4> QED
        BY <3>1, <4>1, <4>2, <4>3 DEF Removed
  <2>7. CASE RemoveRole
    <3>1. chain = RolesAway /\ roles' = << >>
      BY <2>3, <2>7, RemovalHead DEF RemoveRole
    <3> QED
      BY <2>2, <2>3, <2>7, <3>1, RollbackTails DEF RemoveRole, Removed, Removals, Empty, PermissionsAway
  <2>8. CASE RemovePermission
    <3>1. chain = PermissionsAway /\ permissions' = << >>
      BY <2>3, <2>8, RemovalHead DEF RemovePermission
    <3> QED
      BY <2>2, <2>3, <2>8, <3>1, RollbackTails DEF RemovePermission, Removed, Removals, Empty, PermissionsAway
  <2> QED
    BY <1>5, <2>4, <2>5, <2>6, <2>7, <2>8
<1> QED
  BY <1>1, <1>2, <1>3, <1>4, <1>5 DEF Next, Alone
-----------------------------------------------------------------------------
\* The rests of a seed, by the command that runs.
KeyOn == Tail(Seed)
PermissionOn == Tail(KeyOn)
RoleOn == Tail(PermissionOn)
UserOn == Tail(RoleOn)
Seeds == {Seed, KeyOn, PermissionOn, RoleOn, UserOn}

LEMMA SeedTails ==
    /\ Seed # << >> /\ KeyOn # << >> /\ PermissionOn # << >> /\ RoleOn # << >>
    /\ UserOn # << >> /\ Tail(UserOn) = << >>
    /\ Head(Seed) = "seed:setting" /\ Head(KeyOn) = "seed:apikey"
    /\ Head(PermissionOn) = "seed:permission" /\ Head(RoleOn) = "seed:role"
    /\ Head(UserOn) = "seed:user"
  BY DEF Seed, KeyOn, PermissionOn, RoleOn, UserOn

LEMMA SeedRests ==
    /\ KeyOn # Seed /\ PermissionOn \notin {Seed, KeyOn}
    /\ RoleOn \notin {Seed, KeyOn, PermissionOn}
    /\ UserOn \notin {Seed, KeyOn, PermissionOn, RoleOn}
  BY SeedTails

\* A seed that found nothing stored has stored exactly what its commands are past.
Fresh == last.of = Seed /\ last.empty

Stored ==
    /\ chain \in Seeds
    /\ chain = Seed => step \in 1..4 /\ settings = {SettingNames[n] : n \in 1..(step - 1)}
    /\ chain \in {Seed, KeyOn} => ~apikeys
    /\ chain \in {Seed, KeyOn, PermissionOn} => DOMAIN permissions = {} /\ DOMAIN roles = {}
    /\ chain = RoleOn =>
          /\ step \in 1..3
          /\ DOMAIN roles = IF step = 3 THEN {"superadmin"} ELSE {}
    /\ chain = UserOn =>
          /\ step \in 1..4
          /\ DOMAIN roles = {"superadmin", "admin", "user"}
          /\ step # 1 => DOMAIN found = {"superadmin", "admin", "user"}
    /\ DOMAIN users = IF chain = UserOn THEN {Names[n] : n \in 1..(step - 2)} ELSE {}

SeedInv ==
    /\ Going
    /\ Fresh => last.outcome # "refused" /\ (chain # << >> => Stored)

LEMMA SeedInit == Init => SeedInv
  BY DEF Init, SeedInv, Going, Fresh, Seed

\* None of its commands is refused.
LEMMA FreshSetting ==
    ASSUME Stored, SeedSetting
    PROVE  Done \/ (chain' = chain /\ last' = last /\ Stored')
<1>1. chain = Seed
  BY SeedTails DEF Stored, Seeds, SeedSetting, Running
<1>2. step \in 1..4 /\ settings = {SettingNames[n] : n \in 1..(step - 1)}
  BY <1>1 DEF Stored
<1>3. /\ SettingNames[1] = "maintenance" /\ SettingNames[2] = "maxPasswordAttempt"
      /\ SettingNames[3] = "passwordAttempt" /\ SettingNames[4] = "mobileNumberCountryCodeAllowed"
      /\ Len(SettingNames) = 4
  BY DEF SettingNames
<1>4. SettingNames[step] \notin settings
  <2> SUFFICES ASSUME NEW n \in 1..(step - 1), SettingNames[n] = SettingNames[step] PROVE FALSE
    BY <1>2
  <2>1. \/ n = 1 /\ step \in {2, 3, 4}
        \/ n = 2 /\ step \in {3, 4}
        \/ n = 3 /\ step = 4
    BY <1>2
  <2> QED
    BY <1>3, <2>1
<1>5. CASE step = 4
  BY <1>3, <1>4, <1>5 DEF SeedSetting
<1>6. CASE step # 4
  <2>1. GoOn(None) /\ settings' = settings \cup {SettingNames[step]}
    BY <1>3, <1>4, <1>6 DEF SeedSetting
  <2>2. step' = step + 1 /\ chain' = chain /\ last' = last
    BY <2>1 DEF GoOn
  <2>3. UNCHANGED <<apikeys, permissions, roles, users>>
    BY DEF SeedSetting
  <2>4. step' \in 1..4 /\ settings' = {SettingNames[n] : n \in 1..(step' - 1)}
    <3>1. step' \in 1..4 /\ 1..(step' - 1) = 1..(step - 1) \cup {step}
      BY <1>2, <1>6, <2>2
    <3> QED
      BY <1>2, <2>1, <3>1
  <2> QED
    BY <1>1, <2>2, <2>3, <2>4, SeedRests DEF Stored
<1> QED
  BY <1>5, <1>6

LEMMA FreshRole ==
    ASSUME Stored, SeedRole
    PROVE  Done \/ Ends("killed") \/ (chain' = chain /\ last' = last /\ Stored')
<1>1. chain = RoleOn
  BY SeedTails DEF Stored, Seeds, SeedRole, Running
<1>2. step \in 1..3 /\ DOMAIN roles = IF step = 3 THEN {"superadmin"} ELSE {}
  BY <1>1 DEF Stored
<1>3. UNCHANGED <<settings, apikeys, permissions, users>>
  BY DEF SeedRole
<1>4. CASE step = 1
  <2>1. GoOn(Permissions) /\ roles' = roles
    BY <1>4 DEF SeedRole
  <2>2. step' = 2 /\ chain' = chain /\ last' = last
    BY <1>4, <2>1 DEF GoOn
  <2> QED
    BY <1>1, <1>2, <1>3, <1>4, <2>1, <2>2, SeedRests DEF Stored
<1>5. CASE step = 2
  <2>1. "superadmin" \notin DOMAIN roles /\ DOMAIN roles = {}
    BY <1>2, <1>5
  <2>2. GoOn(found) /\ roles' = SuperAdmin
    BY <1>5, <2>1 DEF SeedRole
  <2>3. step' = 3 /\ chain' = chain /\ last' = last
    BY <1>5, <2>2 DEF GoOn
  <2>4. DOMAIN roles' = {"superadmin"}
    BY <2>1, <2>2 DEF SuperAdmin, Create
  <2> QED
    BY <1>1, <1>3, <2>3, <2>4, SeedRests DEF Stored
<1>6. CASE step = 3
  BY <1>6 DEF SeedRole
<1> QED
  BY <1>2, <1>4, <1>5, <1>6

LEMMA FreshUser ==
    ASSUME Stored, SeedUser
    PROVE  Done \/ (chain' = chain /\ last' = last /\ Stored')
<1>1. chain = UserOn
  BY SeedTails DEF Stored, Seeds, SeedUser, Running
<1>2. /\ step \in 1..4 /\ DOMAIN roles = {"superadmin", "admin", "user"}
      /\ step # 1 => DOMAIN found = {"superadmin", "admin", "user"}
      /\ DOMAIN users = {Names[n] : n \in 1..(step - 2)}
  BY <1>1 DEF Stored
<1>3. UNCHANGED <<settings, apikeys, permissions, roles>>
  BY DEF SeedUser
<1>4. Names[1] = "superadmin" /\ Names[2] = "admin" /\ Names[3] = "user"
  BY DEF Names
<1>5. CASE step = 1
  <2> DEFINE read == [n \in DOMAIN roles |-> [name |-> n, id |-> roles[n].id]]
  <2>1. GoOn(read) /\ users' = users
    BY <1>5 DEF SeedUser
  <2>2. step' = 2 /\ found' = read /\ chain' = chain /\ last' = last
    BY <1>5, <2>1 DEF GoOn
  <2>3. DOMAIN found' = {"superadmin", "admin", "user"}
    BY <1>2, <2>2
  <2>4. 1..(step' - 2) = 1..(step - 2)
    BY <1>5, <2>2
  <2> HIDE DEF read
  <2> QED
    BY <1>1, <1>2, <1>3, <2>1, <2>2, <2>3, <2>4, SeedRests DEF Stored
<1>6. CASE step # 1
  <2> DEFINE name == Names[step - 1]
  <2>1. name \notin DOMAIN users /\ name \in DOMAIN found
    BY <1>2, <1>4, <1>6
  <2>2. /\ users' = Create(users, name, found[name])
        /\ IF name = "user" THEN Done ELSE GoOn(found)
    BY <1>6, <2>1 DEF SeedUser
  <2>3. CASE name = "user"
    BY <2>2, <2>3
  <2>4. CASE name # "user"
    <3>1. GoOn(found) /\ step \in {2, 3}
      BY <1>2, <1>4, <1>6, <2>2, <2>4
    <3>2. step' = step + 1 /\ found' = found /\ chain' = chain /\ last' = last
      BY <3>1 DEF GoOn
    <3>3. DOMAIN users' = DOMAIN users \cup {name}
      BY <2>2 DEF Create
    <3>4. 1..(step' - 2) = 1..(step - 2) \cup {step - 1} /\ step' \in 1..4
      BY <3>1, <3>2
    <3>5. DOMAIN users' = {Names[n] : n \in 1..(step' - 2)}
      BY <1>2, <3>3, <3>4
    <3> HIDE DEF name
    <3> QED
      BY <1>1, <1>2, <1>3, <1>6, <3>2, <3>4, <3>5, SeedRests DEF Stored
  <2> QED
    BY <2>3, <2>4
<1> QED
  BY <1>5, <1>6

\* A command that ends well leaves what the next one expects.
LEMMA FreshDone ==
    ASSUME Stored, Done, Tail(chain) # << >>,
           SeedSetting \/ SeedApiKey \/ SeedPermission \/ SeedRole \/ SeedUser
    PROVE  Stored'
<1>1. chain' = Tail(chain) /\ step' = 1
  BY DEF Done
<1>2. CASE SeedSetting
  <2>1. chain = Seed /\ UNCHANGED <<apikeys, permissions, roles, users>>
    BY <1>2, SeedTails DEF Stored, Seeds, SeedSetting, Running
  <2>2. chain' = KeyOn /\ KeyOn \in Seeds
    BY <1>1, <2>1 DEF KeyOn, Seeds
  <2>3. ~apikeys /\ DOMAIN permissions = {} /\ DOMAIN roles = {} /\ DOMAIN users = {}
    BY <2>1, SeedRests DEF Stored
  <2>4. ~apikeys' /\ DOMAIN permissions' = {} /\ DOMAIN roles' = {} /\ DOMAIN users' = {}
    <3>1. ~apikeys'
      BY <2>1, <2>3, Zenon
    <3>2. DOMAIN permissions' = {} /\ DOMAIN roles' = {} /\ DOMAIN users' = {}
      BY <2>1, <2>3
    <3> QED
      BY <3>1, <3>2
  <2> QED
    BY <2>2, <2>4, SeedRests DEF Stored
<1>3. CASE SeedApiKey
  <2>1. chain = KeyOn /\ UNCHANGED <<permissions, roles, users>>
    BY <1>3, SeedTails DEF Stored, Seeds, SeedApiKey, Running
  <2>2. chain' = PermissionOn
    BY <1>1, <2>1 DEF PermissionOn
  <2> QED
    BY <1>1, <2>1, <2>2, SeedRests DEF Stored, Seeds
<1>4. CASE SeedPermission
  <2>1. chain = PermissionOn /\ UNCHANGED <<roles, users>>
    BY <1>4, SeedTails DEF Stored, Seeds, SeedPermission, Running
  <2>2. chain' = RoleOn /\ RoleOn \in Seeds
    BY <1>1, <2>1 DEF RoleOn, Seeds
  <2>3. DOMAIN roles = {} /\ DOMAIN users = {}
    BY <2>1, SeedRests DEF Stored
  <2>4. DOMAIN roles' = {} /\ DOMAIN users' = {} /\ step' \in 1..3 /\ step' # 3
    BY <1>1, <2>1, <2>3
  <2> QED
    BY <2>2, <2>4, SeedRests DEF Stored
<1>5. CASE SeedRole
  <2>1. chain = RoleOn /\ UNCHANGED users /\ step \in 1..3
    BY <1>5, SeedTails DEF Stored, Seeds, SeedRole, Running
  <2>2. step = 3
    <3>1. ASSUME NEW read, GoOn(read) PROVE FALSE
      BY <1>1, <2>1, <3>1, SeedTails, SeedRests DEF GoOn, UserOn
    <3>2. ASSUME NEW outcome, Ends(outcome) PROVE FALSE
      BY <1>1, <3>2 DEF Ends
    <3> QED
      BY <1>5, <2>1, <3>1, <3>2 DEF SeedRole
  <2>3. DOMAIN roles = {"superadmin"}
    BY <2>1, <2>2 DEF Stored
  <2>4. DOMAIN roles' = {"superadmin", "admin", "user"}
    <3> DEFINE admin == Create(roles, "admin", Role(found))
    <3>1. DOMAIN admin = {"superadmin", "admin"}
      BY <2>3 DEF Create
    <3>2. roles' = Create(admin, "user", Role({})) \/ Ends("killed")
      BY <1>5, <2>2 DEF SeedRole
    <3>3. ~Ends("killed")
      BY <1>1 DEF Ends
    <3> HIDE DEF admin
    <3> QED
      BY <3>1, <3>2, <3>3 DEF Create
  <2>5. chain' = UserOn
    BY <1>1, <2>1 DEF UserOn
  <2>6. DOMAIN users' = {} /\ 1..(step' - 2) = {}
    BY <1>1, <2>1, SeedRests DEF Stored
  <2>7. chain' \in Seeds /\ step' \in 1..4 /\ step' = 1
    BY <1>1, <2>5 DEF Seeds
  <2>8. DOMAIN users' = {Names[n] : n \in 1..(step' - 2)}
    BY <2>6
  <2> QED
    BY <2>4, <2>5, <2>7, <2>8, SeedRests DEF Stored
<1>6. ~SeedUser
  BY SeedTails DEF Stored, Seeds, SeedUser, Running
<1> QED
  BY <1>2, <1>3, <1>4, <1>5, <1>6

LEMMA FreshSteps ==
    ASSUME Stored, SeedSetting \/ SeedApiKey \/ SeedPermission \/ SeedRole \/ SeedUser
    PROVE  Done \/ Ends("killed") \/ (chain' = chain /\ last' = last /\ Stored')
<1>1. CASE SeedSetting
  BY <1>1, FreshSetting
<1>2. CASE SeedApiKey
  <2>1. chain = KeyOn
    BY <1>2, SeedTails DEF Stored, Seeds, SeedApiKey, Running
  <2>2. ~apikeys
    BY <2>1 DEF Stored
  <2> QED
    BY <1>2, <2>2 DEF SeedApiKey
<1>3. CASE SeedPermission
  <2>1. chain = PermissionOn
    BY <1>3, SeedTails DEF Stored, Seeds, SeedPermission, Running
  <2>2. {n \in DOMAIN Codes : Codes[n] \in DOMAIN permissions} = {}
    BY <2>1 DEF Stored
  <2> QED
    BY <1>3, <2>2 DEF SeedPermission
<1>4. CASE SeedRole
  BY <1>4, FreshRole
<1>5. CASE SeedUser
  BY <1>5, FreshUser
<1> QED
  BY <1>1, <1>2, <1>3, <1>4, <1>5

LEMMA SeedStep == SeedInv /\ [Next]_vars => SeedInv'
<1> SUFFICES ASSUME SeedInv, [Next]_vars PROVE SeedInv'
  OBVIOUS
<1> USE DEF SeedInv
<1>1. CASE UNCHANGED vars
  BY <1>1 DEF vars, collections, Going, Fresh, Stored
<1>2. ASSUME NEW c, Start(c) PROVE SeedInv'
  <2>1. Going' /\ last'.outcome = "running" /\ last'.of = c /\ chain' = c /\ step' = 1
    BY <1>2, LastOfStart
  <2>2. CASE Fresh'
    <3>1. Empty /\ c = Seed /\ UNCHANGED collections
      BY <1>2, <2>2, LastOfStart DEF Fresh
    <3>2. /\ settings' = {} /\ ~apikeys' /\ DOMAIN permissions' = {}
          /\ DOMAIN roles' = {} /\ DOMAIN users' = {}
      BY <3>1, NothingInEmpty DEF Empty, collections
    <3>3. 1..(step' - 1) = {} /\ step' \in 1..4
      BY <2>1
    <3> QED
      BY <2>1, <3>1, <3>2, <3>3, SeedRests DEF Stored, Seeds
  <2> QED
    BY <2>1, <2>2
<1>3. CASE Killed
  BY <1>3, LastOfEnds DEF Killed, Fresh
<1>4. CASE SeedSetting \/ SeedApiKey \/ SeedPermission \/ SeedRole \/ SeedUser
  <2>1. chain # << >>
    BY <1>4 DEF SeedSetting, SeedApiKey, SeedPermission, SeedRole, SeedUser, Running
  <2>2. (chain' = chain /\ last' = last) \/ Done \/ \E outcome : Ends(outcome)
    BY <1>4 DEF SeedSetting, SeedApiKey, SeedPermission, SeedRole, SeedUser, GoOn
  <2>3. Going' /\ Fresh' = Fresh
    BY <2>2, LastOfDone, LastOfEnds DEF Going, Fresh
  <2>4. CASE Fresh
    <3>1. Stored /\ last.outcome # "refused"
      BY <2>1, <2>4
    <3>2. Done \/ Ends("killed") \/ (chain' = chain /\ last' = last /\ Stored')
      BY <1>4, <3>1, FreshSteps
    <3>3. CASE Done
      BY <1>4, <2>3, <3>1, <3>3, FreshDone, LastOfDone
    <3>4. CASE Ends("killed")
      BY <2>3, <3>4, LastOfEnds
    <3> QED
      BY <2>3, <3>1, <3>2, <3>3, <3>4
  <2> QED
    BY <2>3, <2>4
<1>5. CASE RemoveSetting \/ RemoveApiKey \/ RemoveUser \/ RemoveRole \/ RemovePermission
  <2>1. Done /\ chain # << >> /\ chain \notin Seeds
    BY <1>5, SeedTails DEF RemoveSetting, RemoveApiKey, RemoveUser, RemoveRole, RemovePermission,
                           Running, Seeds
  <2>2. ~Fresh
    BY <2>1 DEF Stored
  <2> QED
    BY <2>1, <2>2, LastOfDone DEF Fresh
<1> QED
  BY <1>1, <1>2, <1>3, <1>4, <1>5 DEF Next, Alone

\* However often seeds and removals are killed: a removal is never refused and leaves nothing
\* when it ends, and a seed that starts from nothing is never refused.
THEOREM RecoveryCorrect == Spec => []Recoverable
<1>1. RemovalInv /\ SeedInv => Recoverable
  BY DEF RemovalInv, SeedInv, Recoverable, Fresh
<1> QED
  BY <1>1, RemovalInit, RemovalStep, SeedInit, SeedStep, PTL DEF Spec
-----------------------------------------------------------------------------
Ids == 1..MaxChains
AnyPermission == [code : Range(Codes), id : Ids]
AnyRole == [name : Range(Names), id : Ids]

\* A function from some of the names to values.
Some(f, names, values) ==
    f = [n \in DOMAIN f |-> f[n]] /\ DOMAIN f \subseteq names /\ \A n \in DOMAIN f : f[n] \in values

\* The collections hold what their schemas say because what a command has read does, and
\* because a document is only created while a chain runs, by its number.
Typed ==
    /\ settings \subseteq Range(SettingNames) /\ apikeys \in BOOLEAN
    /\ Some(permissions, Range(Codes), Ids)
    /\ roles = [r \in DOMAIN roles |-> roles[r]] /\ DOMAIN roles \subseteq Range(Names)
    /\ \A r \in DOMAIN roles : roles[r].id \in Ids /\ roles[r].permissions \subseteq AnyPermission
    /\ Some(users, Range(Names), AnyRole)
    /\ step \in 1..4 /\ chains \in 0..MaxChains /\ orderly \in BOOLEAN
    /\ chain # << >> => chains \in Ids
    /\ Running("seed:role") /\ step # 1 => found \subseteq AnyPermission
    /\ Running("seed:user") /\ step # 1 => Some(found, Range(Names), AnyRole)

\* What a seed is past: the commands that have ended well, up to those of the given rests.
Behind(rests) == chain \in rests \/ (chain = << >> /\ last.outcome = "done")

\* A seed has stored everything of the commands it is past, whatever earlier chains left:
\* every create that succeeds adds what was not there, and nothing else is left out.
SeedWhole ==
    last.of = Seed =>
        /\ chain # << >> => chain \in Seeds
        /\ chain = Seed => {SettingNames[n] : n \in 1..(step - 1)} \subseteq settings
        /\ chain = UserOn => {Names[n] : n \in 1..(step - 2)} \subseteq DOMAIN users
        /\ Behind({KeyOn, PermissionOn, RoleOn, UserOn}) => settings = Range(SettingNames)
        /\ Behind({PermissionOn, RoleOn, UserOn}) => apikeys
        /\ Behind({RoleOn, UserOn}) => DOMAIN permissions = Range(Codes)
        /\ Behind({UserOn}) => "admin" \in DOMAIN roles /\ roles["admin"].permissions = Permissions
        /\ Behind({}) => DOMAIN users = Range(Names)

\* Roles come and go together, and what a seed of roles or of users has read is what is stored.
ReadWhole ==
    /\ "superadmin" \notin DOMAIN roles => DOMAIN roles = {}
    /\ Running("seed:role") =>
          /\ step # 1 => found = Permissions
          /\ step \notin {1, 2} => DOMAIN roles = {"superadmin"}
    /\ Running("seed:user") /\ step # 1 => \A n \in DOMAIN found : found[n].name = n
    /\ \A u \in DOMAIN users : users[u].name = u

\* Something of an earlier seed that a command yet to run, or the running one, will meet.
Left ==
    \/ chain = Seed /\ \E n \in step..4 : SettingNames[n] \in settings
    \/ chain \in {Seed, KeyOn} /\ apikeys
    \/ chain \in {Seed, KeyOn, PermissionOn} /\ DOMAIN permissions # {}
    \/ chain \in {Seed, KeyOn, PermissionOn} /\ DOMAIN roles # {}
    \/ chain = RoleOn /\ step \in {1, 2} /\ DOMAIN roles # {}
    \/ chain \in {Seed, KeyOn, PermissionOn, RoleOn} /\ DOMAIN users # {}
    \/ chain = UserOn /\ \E n \in 1..3 : n >= step - 1 /\ Names[n] \in DOMAIN users

LeftInv ==
    last.of = Seed /\ ~last.empty =>
        last.outcome # "done" /\ (chain # << >> => Left)
-----------------------------------------------------------------------------
LEMMA SettingNamesAre ==
    /\ DOMAIN SettingNames = 1..4 /\ Len(SettingNames) = 4
    /\ SettingNames[1] = "maintenance" /\ SettingNames[2] = "maxPasswordAttempt"
    /\ SettingNames[3] = "passwordAttempt" /\ SettingNames[4] = "mobileNumberCountryCodeAllowed"
    /\ Range(SettingNames) = {SettingNames[n] : n \in 1..4}
  BY DEF SettingNames, Range

LEMMA NamesAre ==
    /\ DOMAIN Names = 1..3
    /\ Names[1] = "superadmin" /\ Names[2] = "admin" /\ Names[3] = "user"
    /\ Range(Names) = {"superadmin", "admin", "user"}
  BY DEF Names, Range

LEMMA SomeOfNothing ==
    ASSUME NEW names, NEW values
    PROVE  Some(<< >>, names, values)
<1>1. DOMAIN << >> = {} /\ << >> = [n \in {} |-> << >>[n]]
  OBVIOUS
<1> QED
  BY <1>1 DEF Some

LEMMA CreatedSome ==
    ASSUME NEW f, NEW names, NEW values, Some(f, names, values),
           NEW name \in names, NEW value \in values
    PROVE  Some(Create(f, name, value), names, values)
  BY DEF Some, Create

\* A sequence of documents that meets one that is taken has a first one that is.
LEMMA FirstTaken ==
    ASSUME NEW k \in Nat, NEW S \in SUBSET (1..k), S # {}
    PROVE  \E n \in 0..k : n + 1 \in S /\ \A m \in S : n < m
<1> DEFINE R == {ss \in Nat \X Nat : ss[1] < ss[2]}
<1>1. IsWellFoundedOn(R, Nat)
  BY NatLessThanWellFounded DEF OpToRel
<1>2. ASSUME NEW x \in Nat, NEW y \in Nat, y < x PROVE <<y, x>> \in R
  <2> PICK ss : ss = <<y, x>>
    OBVIOUS
  <2>1. ss \in Nat \X Nat /\ ss[1] < ss[2]
    BY <1>2
  <2>2. ss \in R
    BY <2>1, Zenon
  <2> QED
    BY <2>2
<1> HIDE DEF R
<1>3. S \subseteq Nat
  OBVIOUS
<1>4. PICK x \in S : \A y \in S : ~ (<<y, x>> \in R)
  BY <1>1, <1>3, WFMin
<1>5. ASSUME NEW m \in S PROVE x <= m
  <2>1. ~ (m < x)
    BY <1>2, <1>3, <1>4, Zenon
  <2> QED
    BY <1>3, <2>1
<1>6. x - 1 \in 0..k /\ (x - 1) + 1 \in S /\ \A m \in S : x - 1 < m
  BY <1>5
<1> QED
  BY <1>6

Taken == {n \in DOMAIN Codes : Codes[n] \in DOMAIN permissions}

\* What a bulk insert stores are codes, under the number of the chain.
LEMMA InsertedSome ==
    ASSUME Typed, chain # << >>, NEW n \in 0..Len(Codes)
    PROVE  /\ Some(Inserted(n), Range(Codes), Ids)
           /\ DOMAIN Inserted(n) = {Codes[m] : m \in 1..n} \cup DOMAIN permissions
<1>1. chains \in Ids /\ Some(permissions, Range(Codes), Ids)
  BY DEF Typed
<1>2. \A m \in 1..n : Codes[m] \in Range(Codes)
  BY MigrationAssumption DEF Range
<1> QED
  BY <1>1, <1>2 DEF Inserted, Some

\* All codes are stored, or some are and the insert is refused or killed.
LEMMA PermissionsInserted ==
    ASSUME SeedPermission
    PROVE  \E n \in 0..Len(Codes) :
              /\ permissions' = Inserted(n)
              /\ (Taken = {} /\ n = Len(Codes) /\ Done) \/ Ends("refused") \/ Ends("killed")
<1> DEFINE upto == IF Taken = {} THEN Len(Codes)
                   ELSE CHOOSE n \in 0..Len(Codes) : n + 1 \in Taken /\ \A m \in Taken : n < m
<1>1. Len(Codes) \in Nat /\ Taken \subseteq 1..Len(Codes)
  BY MigrationAssumption DEF Taken
<1>2. upto \in 0..Len(Codes)
  <2>1. CASE Taken # {}
    <3>1. \E n \in 0..Len(Codes) : n + 1 \in Taken /\ \A m \in Taken : n < m
      BY <1>1, <2>1, FirstTaken
    <3> QED
      BY <2>1, <3>1
  <2>2. CASE Taken = {}
    BY <1>1, <2>2
  <2> QED
    BY <2>1, <2>2
<1>3. \/ permissions' = Inserted(upto) /\ IF Taken = {} THEN Done ELSE Ends("refused")
      \/ \E n \in 0..upto : permissions' = Inserted(n) /\ Ends("killed")
  BY DEF SeedPermission, Taken
<1>4. Taken = {} => upto = Len(Codes)
  OBVIOUS
<1> HIDE DEF upto
<1> QED
  BY <1>1, <1>2, <1>3, <1>4

\* A command that is over leaves the number of the chain and starts the next at its first step.
LEMMA OverTyped ==
    ASSUME Typed, chain # << >>, Done \/ \E outcome : Ends(outcome),
           settings' \subseteq Range(SettingNames), apikeys' \in BOOLEAN,
           Some(permissions', Range(Codes), Ids),
           roles' = [r \in DOMAIN roles' |-> roles'[r]], DOMAIN roles' \subseteq Range(Names),
           \A r \in DOMAIN roles' :
              roles'[r].id \in Ids /\ roles'[r].permissions \subseteq AnyPermission,
           Some(users', Range(Names), AnyRole)
    PROVE  Typed'
<1>1. step' = 1 /\ UNCHANGED <<chains, orderly>>
  BY DEF Done, Ends
<1>2. ~(step' # 1) /\ step' \in 1..4 /\ chains' \in 0..MaxChains /\ orderly' \in BOOLEAN
  BY <1>1 DEF Typed
<1>3. chains' \in Ids'
  BY <1>1 DEF Typed, Ids
<1> QED
  BY <1>2, <1>3 DEF Typed, Ids, AnyPermission, AnyRole, Some

LEMMA TypedInit == Init => Typed
<1> SUFFICES ASSUME Init PROVE Typed
  OBVIOUS
<1>1. roles = << >> /\ << >> = [r \in DOMAIN << >> |-> << >>[r]] /\ DOMAIN << >> = {}
  BY NothingInEmpty DEF Init
<1>2. Some(permissions, Range(Codes), Ids) /\ Some(users, Range(Names), AnyRole)
  BY SomeOfNothing DEF Init
<1>3. apikeys \in BOOLEAN /\ orderly \in BOOLEAN
  BY Zenon DEF Init
<1> QED
  BY <1>1, <1>2, <1>3, MigrationAssumption DEF Init, Typed, Running

LEMMA TypedSetting == Typed /\ SeedSetting => Typed'
<1> SUFFICES ASSUME Typed, SeedSetting PROVE Typed'
  OBVIOUS
<1>1. chain # << >> /\ Head(chain) = "seed:setting" /\ UNCHANGED <<apikeys, permissions, roles, users>>
  BY DEF SeedSetting, Running
<1>2. SettingNames[step] \in Range(SettingNames)
  BY SettingNamesAre DEF Typed
<1>3. settings' \subseteq Range(SettingNames)
  BY <1>2 DEF SeedSetting, Typed
<1>4. CASE Done \/ \E outcome : Ends(outcome)
  BY <1>1, <1>3, <1>4, OverTyped DEF Typed
<1>5. CASE GoOn(None) /\ step # 4
  <2>1. step' \in 1..4 /\ UNCHANGED <<chain, chains, orderly>>
    BY <1>5 DEF GoOn, Typed
  <2>2. ~Running("seed:role")' /\ ~Running("seed:user")'
    BY <1>1, <2>1 DEF Running
  <2> QED
    BY <1>1, <1>3, <2>1, <2>2 DEF Typed, Ids, AnyPermission, AnyRole, Some
<1> QED
  BY <1>4, <1>5, SettingNamesAre DEF SeedSetting

LEMMA TypedRole == Typed /\ SeedRole => Typed'
<1> SUFFICES ASSUME Typed, SeedRole PROVE Typed'
  OBVIOUS
<1>1. chain # << >> /\ Head(chain) = "seed:role" /\ UNCHANGED <<settings, apikeys, permissions, users>>
  BY DEF SeedRole, Running
<1>2. chains \in Ids
  BY <1>1 DEF Typed
<1>3. step # 1 => found \subseteq AnyPermission
  BY <1>1 DEF Typed, Running
<1> DEFINE RolesOK(r) == /\ r = [n \in DOMAIN r |-> r[n]] /\ DOMAIN r \subseteq Range(Names)
                         /\ \A n \in DOMAIN r :
                               r[n].id \in Ids /\ r[n].permissions \subseteq AnyPermission
<1>4. ASSUME NEW r, RolesOK(r), NEW name \in Range(Names), NEW given, given \subseteq AnyPermission
      PROVE  RolesOK(Create(r, name, Role(given)))
  <2>1. Role(given).id \in Ids /\ Role(given).permissions \subseteq AnyPermission
    BY <1>2, <1>4 DEF Role
  <2> QED
    BY <1>4, <2>1 DEF Create
<1>5. RolesOK(roles)
  BY DEF Typed
<1>6. {} \subseteq AnyPermission /\ {"superadmin", "admin", "user"} \subseteq Range(Names)
  BY NamesAre
<1> HIDE DEF RolesOK
<1>7. RolesOK(roles')
  <2>1. CASE step = 1
    BY <1>5, <2>1 DEF SeedRole
  <2>2. CASE step = 2
    BY <1>4, <1>5, <1>6, <2>2 DEF SeedRole, SuperAdmin
  <2>3. CASE step = 3
    <3> DEFINE admin == Create(roles, "admin", Role(found))
    <3>1. RolesOK(admin)
      BY <1>3, <1>4, <1>5, <1>6, <2>3
    <3>2. roles' \in {admin, Create(admin, "user", Role({}))}
      BY <2>3 DEF SeedRole
    <3> HIDE DEF admin
    <3> QED
      BY <1>4, <1>6, <3>1, <3>2
  <2> QED
    BY <2>1, <2>2, <2>3 DEF SeedRole
<1>8. CASE Done \/ \E outcome : Ends(outcome)
  BY <1>1, <1>7, <1>8, OverTyped DEF Typed, RolesOK
<1>9. ASSUME NEW read, GoOn(read), read \subseteq AnyPermission, step \in {1, 2} PROVE Typed'
  <2>1. step' \in 1..4 /\ found' = read /\ UNCHANGED <<chain, chains, orderly>>
    BY <1>9 DEF GoOn
  <2>2. ~Running("seed:user")'
    BY <1>1, <2>1 DEF Running
  <2> QED
    BY <1>1, <1>7, <1>9, <2>1, <2>2 DEF Typed, Ids, AnyPermission, AnyRole, Some, RolesOK
<1>10. Permissions \subseteq AnyPermission
  BY DEF Permissions, AnyPermission, Typed, Some
<1> QED
  BY <1>3, <1>8, <1>9, <1>10 DEF SeedRole

LEMMA TypedUser == Typed /\ SeedUser => Typed'
<1> SUFFICES ASSUME Typed, SeedUser PROVE Typed'
  OBVIOUS
<1>1. chain # << >> /\ Head(chain) = "seed:user" /\ UNCHANGED <<settings, apikeys, permissions, roles>>
  BY DEF SeedUser, Running
<1>2. step # 1 => Some(found, Range(Names), AnyRole)
  BY <1>1 DEF Typed, Running
<1>3. Some(users', Range(Names), AnyRole)
  <2>1. CASE users' = users
    BY <2>1 DEF Typed
  <2>2. ASSUME step > 1, NEW name, name \in DOMAIN found, users' = Create(users, name, found[name])
        PROVE  Some(users', Range(Names), AnyRole)
    <3>1. Some(found, Range(Names), AnyRole) /\ Some(users, Range(Names), AnyRole)
      BY <1>2, <2>2 DEF Typed
    <3>2. name \in Range(Names) /\ found[name] \in AnyRole
      BY <2>2, <3>1 DEF Some
    <3> QED
      BY <2>2, <3>1, <3>2, CreatedSome
  <2> QED
    BY <2>1, <2>2 DEF SeedUser
<1>4. CASE Done \/ \E outcome : Ends(outcome)
  BY <1>1, <1>3, <1>4, OverTyped DEF Typed
<1>5. ASSUME NEW read, GoOn(read), Some(read, Range(Names), AnyRole), step \in 1..3 PROVE Typed'
  <2>1. step' \in 1..4 /\ found' = read /\ UNCHANGED <<chain, chains, orderly>>
    BY <1>5 DEF GoOn
  <2>2. ~Running("seed:role")'
    BY <1>1, <2>1 DEF Running
  <2> QED
    BY <1>1, <1>3, <1>5, <2>1, <2>2 DEF Typed, Ids, AnyPermission, AnyRole, Some
<1>6. CASE step = 1
  <2> DEFINE read == [n \in DOMAIN roles |-> [name |-> n, id |-> roles[n].id]]
  <2>1. \A n \in DOMAIN roles : n \in Range(Names) /\ roles[n].id \in Ids
    BY DEF Typed
  <2>2. \A n \in DOMAIN roles : [name |-> n, id |-> roles[n].id] \in AnyRole
    BY <2>1 DEF AnyRole
  <2>3. Some(read, Range(Names), AnyRole)
    BY <2>1, <2>2 DEF Some
  <2>4. GoOn(read)
    BY <1>6 DEF SeedUser
  <2> HIDE DEF read
  <2> QED
    BY <1>5, <1>6, <2>3, <2>4
<1>7. CASE step # 1 /\ GoOn(found) /\ Names[step - 1] # "user"
  <2>1. step \in 1..3
    BY <1>7, NamesAre DEF Typed
  <2> QED
    BY <1>2, <1>5, <1>7, <2>1
<1> QED
  BY <1>4, <1>6, <1>7 DEF SeedUser, Typed

LEMMA TypedStep == Typed /\ [Next]_vars => Typed'
<1> SUFFICES ASSUME Typed, [Next]_vars PROVE Typed'
  OBVIOUS
<1>1. CASE UNCHANGED vars
  BY <1>1 DEF vars, collections, Typed, Ids, AnyPermission, AnyRole, Some, Running
<1>2. ASSUME NEW c, Start(c) PROVE Typed'
  <2>1. /\ UNCHANGED <<settings, apikeys, permissions, roles, users>> /\ step' = 1
        /\ chains' \in Ids /\ chains' \in 0..MaxChains
    BY <1>2, MigrationAssumption DEF Start, collections, Typed, Ids
  <2>2. orderly' \in BOOLEAN
    BY <1>2, Zenon DEF Start
  <2> QED
    BY <2>1, <2>2 DEF Typed, Ids, AnyPermission, AnyRole, Some
<1>3. CASE Killed
  BY <1>3, OverTyped DEF Killed, collections, Typed
<1>4. CASE SeedSetting
  BY <1>4, TypedSetting
<1>5. CASE SeedApiKey
  <2>1. chain # << >> /\ apikeys' \in BOOLEAN /\ (Done \/ Ends("refused"))
    BY <1>5 DEF SeedApiKey, Running
  <2> QED
    BY <1>5, <2>1, OverTyped DEF SeedApiKey, Typed
<1>6. CASE SeedPermission
  <2>1. chain # << >> /\ UNCHANGED <<settings, apikeys, roles, users>>
    BY <1>6 DEF SeedPermission, Running
  <2>2. Some(permissions', Range(Codes), Ids) /\ (Done \/ \E outcome : Ends(outcome))
    BY <1>6, <2>1, PermissionsInserted, InsertedSome
  <2> QED
    BY <2>1, <2>2, OverTyped DEF Typed
<1>7. CASE SeedRole
  BY <1>7, TypedRole
<1>8. CASE SeedUser
  BY <1>8, TypedUser
<1>9. CASE RemoveSetting \/ RemoveApiKey \/ RemoveUser \/ RemoveRole \/ RemovePermission
  <2>1. Done /\ chain # << >>
    BY <1>9 DEF RemoveSetting, RemoveApiKey, RemoveUser, RemoveRole, RemovePermission, Running
  <2>2. settings' \subseteq Range(SettingNames) /\ apikeys' \in BOOLEAN
    BY <1>9 DEF RemoveSetting, RemoveApiKey, RemoveUser, RemoveRole, RemovePermission, Typed
  <2>3. Some(permissions', Range(Codes), Ids) /\ Some(users', Range(Names), AnyRole)
    BY <1>9, SomeOfNothing
       DEF RemoveSetting, RemoveApiKey, RemoveUser, RemoveRole, RemovePermission, Typed
  <2>4. roles' = roles \/ roles' = << >>
    BY <1>9 DEF RemoveSetting, RemoveApiKey, RemoveUser, RemoveRole, RemovePermission
  <2>5. << >> = [r \in DOMAIN << >> |-> << >>[r]]
    OBVIOUS
  <2> QED
    BY <2>1, <2>2, <2>3, <2>4, <2>5, NothingInEmpty, OverTyped DEF Typed
<1> QED
  BY <1>1, <1>2, <1>3, <1>4, <1>5, <1>6, <1>7, <1>8, <1>9 DEF Next, Alone

\* Wherever chains and commands are killed or refused, every collection holds what its schema
\* says, and the running command is within its steps.
THEOREM TypesCorrect == Spec => []MigrationTypeOK
<1>1. Typed => MigrationTypeOK
  <2> SUFFICES ASSUME Typed PROVE MigrationTypeOK
    OBVIOUS
  <2>1. permissions \in [DOMAIN permissions -> 1..MaxChains]
        /\ DOMAIN permissions \in SUBSET Range(Codes)
    BY DEF Typed, Some, Ids
  <2>2. users \in [DOMAIN users -> [name : Range(Names), id : 1..MaxChains]]
        /\ DOMAIN users \in SUBSET Range(Names)
    BY DEF Typed, Some, AnyRole, Ids
  <2>3. \A r \in Range(roles) :
           r.id \in 1..MaxChains /\ r.permissions \subseteq [code : Range(Codes), id : 1..MaxChains]
    BY DEF Typed, AnyPermission, Ids, Range
  <2> QED
    BY <2>1, <2>2, <2>3, SettingNamesAre DEF Typed, MigrationTypeOK
<1> QED
  BY <1>1, TypedInit, TypedStep, PTL DEF Spec
-----------------------------------------------------------------------------
LEMMA ReadInit == Init => ReadWhole
  BY NothingInEmpty DEF Init, ReadWhole, Running

LEMMA ReadOver ==
    ASSUME ReadWhole, Done \/ \E outcome : Ends(outcome),
           "superadmin" \notin DOMAIN roles' => DOMAIN roles' = {},
           \A u \in DOMAIN users' : users'[u].name = u
    PROVE  ReadWhole'
<1>1. step' = 1
  BY DEF Done, Ends
<1> QED
  BY <1>1 DEF ReadWhole

LEMMA ReadRole == Typed /\ ReadWhole /\ SeedRole => ReadWhole'
<1> SUFFICES ASSUME Typed, ReadWhole, SeedRole PROVE ReadWhole'
  OBVIOUS
<1>1. chain # << >> /\ Head(chain) = "seed:role" /\ UNCHANGED <<permissions, users>>
  BY DEF SeedRole, Running
<1>2. \A u \in DOMAIN users' : users'[u].name = u
  BY <1>1 DEF ReadWhole
<1>3. ASSUME NEW read, GoOn(read) PROVE chain' = chain /\ step' = step + 1 /\ found' = read
  BY <1>3 DEF GoOn
<1>4. CASE step = 1
  <2>1. GoOn(Permissions) /\ roles' = roles
    BY <1>4 DEF SeedRole
  <2>2. chain' = chain /\ step' = 2 /\ found' = Permissions'
    BY <1>1, <1>3, <1>4, <2>1 DEF Permissions
  <2> QED
    BY <1>1, <1>2, <2>1, <2>2 DEF ReadWhole, Running
<1>5. CASE step = 2
  <2>1. roles' = SuperAdmin /\ DOMAIN SuperAdmin = DOMAIN roles \cup {"superadmin"}
    BY <1>5 DEF SeedRole, SuperAdmin, Create
  <2>2. CASE Ends("refused")
    BY <1>2, <2>1, <2>2, ReadOver
  <2>3. CASE GoOn(found) /\ "superadmin" \notin DOMAIN roles
    <3>1. chain' = chain /\ step' = 3 /\ found' = found
      BY <1>3, <1>5, <2>3
    <3>2. DOMAIN roles' = {"superadmin"}
      BY <2>1, <2>3 DEF ReadWhole
    <3>3. found' = Permissions'
      BY <1>1, <1>5, <3>1 DEF ReadWhole, Running, Permissions
    <3> QED
      BY <1>1, <1>2, <3>1, <3>2, <3>3 DEF ReadWhole, Running
  <2> QED
    BY <1>5, <2>2, <2>3 DEF SeedRole
<1>6. CASE step = 3
  <2> DEFINE admin == Create(roles, "admin", Role(found))
  <2>1. DOMAIN roles = {"superadmin"}
    BY <1>1, <1>6 DEF ReadWhole, Running
  <2>2. DOMAIN admin = {"superadmin", "admin"}
    BY <2>1 DEF Create
  <2>3. roles' \in {admin, Create(admin, "user", Role({}))} /\ (Done \/ Ends("killed"))
    BY <1>6 DEF SeedRole
  <2> HIDE DEF admin
  <2>4. "superadmin" \in DOMAIN roles'
    BY <2>2, <2>3 DEF Create
  <2> QED
    BY <1>2, <2>3, <2>4, ReadOver
<1> QED
  BY <1>4, <1>5, <1>6 DEF SeedRole

LEMMA ReadUser == Typed /\ ReadWhole /\ SeedUser => ReadWhole'
<1> SUFFICES ASSUME Typed, ReadWhole, SeedUser PROVE ReadWhole'
  OBVIOUS
<1>1. chain # << >> /\ Head(chain) = "seed:user" /\ UNCHANGED <<permissions, roles>>
  BY DEF SeedUser, Running
<1>2. "superadmin" \notin DOMAIN roles' => DOMAIN roles' = {}
  BY <1>1 DEF ReadWhole
<1>3. step # 1 => \A n \in DOMAIN found : found[n].name = n
  BY <1>1 DEF ReadWhole, Running
<1>4. \A u \in DOMAIN users' : users'[u].name = u
  <2>1. CASE users' = users
    BY <2>1 DEF ReadWhole
  <2>2. ASSUME step > 1, NEW name, name \in DOMAIN found, users' = Create(users, name, found[name])
        PROVE  \A u \in DOMAIN users' : users'[u].name = u
    <3>1. \A u \in DOMAIN users : users[u].name = u
      BY DEF ReadWhole
    <3>2. found[name].name = name
      BY <1>3, <2>2
    <3> QED
      BY <2>2, <3>1, <3>2 DEF Create
  <2> QED
    BY <2>1, <2>2 DEF SeedUser
<1>5. CASE Done \/ \E outcome : Ends(outcome)
  BY <1>2, <1>4, <1>5, ReadOver
<1>6. ASSUME NEW read, GoOn(read), \A n \in DOMAIN read : read[n].name = n PROVE ReadWhole'
  <2>1. chain' = chain /\ found' = read
    BY <1>6 DEF GoOn
  <2>2. ~Running("seed:role")'
    BY <1>1, <2>1 DEF Running
  <2> QED
    BY <1>2, <1>4, <1>6, <2>1, <2>2 DEF ReadWhole
<1>7. CASE step = 1
  <2> DEFINE read == [n \in DOMAIN roles |-> [name |-> n, id |-> roles[n].id]]
  <2>1. \A n \in DOMAIN read : read[n].name = n
    OBVIOUS
  <2>2. GoOn(read)
    BY <1>7 DEF SeedUser
  <2> HIDE DEF read
  <2> QED
    BY <1>6, <2>1, <2>2
<1>8. CASE step > 1 /\ GoOn(found)
  BY <1>3, <1>6, <1>8
<1> QED
  BY <1>5, <1>7, <1>8 DEF SeedUser, Typed

LEMMA ReadStep == Typed /\ ReadWhole /\ [Next]_vars => ReadWhole'
<1> SUFFICES ASSUME Typed, ReadWhole, [Next]_vars PROVE ReadWhole'
  OBVIOUS
<1>1. CASE UNCHANGED vars
  BY <1>1 DEF vars, collections, ReadWhole, Running, Permissions
<1>2. ASSUME NEW c, Start(c) PROVE ReadWhole'
  <2>1. UNCHANGED <<roles, users>> /\ step' = 1
    BY <1>2 DEF Start, collections
  <2> QED
    BY <2>1 DEF ReadWhole
<1>3. CASE Killed
  BY <1>3, ReadOver DEF Killed, collections, ReadWhole
<1>4. CASE SeedSetting \/ SeedApiKey \/ SeedPermission \/ RemoveSetting \/ RemoveApiKey
           \/ RemovePermission
  <2>1. /\ UNCHANGED <<roles, users>> /\ chain # << >>
        /\ Head(chain) \notin {"seed:role", "seed:user"}
    BY <1>4 DEF SeedSetting, SeedApiKey, SeedPermission, RemoveSetting, RemoveApiKey,
                RemovePermission, Running
  <2>2. chain' = chain \/ Done \/ \E outcome : Ends(outcome)
    BY <1>4 DEF SeedSetting, SeedApiKey, SeedPermission, RemoveSetting, RemoveApiKey,
                RemovePermission, GoOn
  <2>3. CASE chain' = chain
    BY <2>1, <2>3 DEF ReadWhole, Running
  <2> QED
    BY <2>1, <2>2, <2>3, ReadOver DEF ReadWhole
<1>5. CASE SeedRole
  BY <1>5, ReadRole
<1>6. CASE SeedUser
  BY <1>6, ReadUser
<1>7. CASE RemoveUser \/ RemoveRole
  <2>1. Done /\ roles' \in {roles, << >>} /\ users' \in {users, << >>}
    BY <1>7 DEF RemoveUser, RemoveRole
  <2> QED
    BY <2>1, NothingInEmpty, ReadOver DEF ReadWhole
<1> QED
  BY <1>1, <1>2, <1>3, <1>4, <1>5, <1>6, <1>7 DEF Next, Alone

\* The command that runs tells how far the seed is.
LEMMA SeedHead ==
    ASSUME chain \in Seeds
    PROVE  /\ chain # << >>
           /\ Head(chain) = "seed:setting" => chain = Seed
           /\ Head(chain) = "seed:apikey" => chain = KeyOn
           /\ Head(chain) = "seed:permission" => chain = PermissionOn
           /\ Head(chain) = "seed:role" => chain = RoleOn
           /\ Head(chain) = "seed:user" => chain = UserOn
           /\ Head(chain) \in {"seed:setting", "seed:apikey", "seed:permission", "seed:role", "seed:user"}
  BY SeedTails DEF Seeds

\* A seed that is refused or killed claims nothing.
LEMMA WholeEnds ==
    ASSUME Going, NEW outcome, outcome # "done", Ends(outcome)
    PROVE  SeedWhole'
<1>1. chain' = << >> /\ last'.outcome # "done"
  BY LastOfEnds
<1> QED
  BY <1>1, SeedTails DEF SeedWhole, Behind

LEMMA WholeSetting == Typed /\ Going /\ SeedWhole /\ SeedSetting => SeedWhole'
<1> SUFFICES ASSUME Typed, Going, SeedWhole, SeedSetting, last'.of = Seed PROVE SeedWhole'
  BY DEF SeedWhole
<1>1. chain # << >> /\ Head(chain) = "seed:setting" /\ UNCHANGED <<apikeys, permissions, roles, users>>
  BY DEF SeedSetting, Running
<1>2. CASE Ends("refused")
  BY <1>2, WholeEnds
<1>3. CASE /\ settings' = settings \cup {SettingNames[step]}
           /\ (step = 4 /\ Done) \/ (step # 4 /\ GoOn(None))
  <2>1. last.of = Seed
    BY <1>3, LastOfDone DEF GoOn
  <2>2. chain = Seed
    BY <1>1, <2>1, SeedHead DEF SeedWhole
  <2>3. {SettingNames[n] : n \in 1..step} \subseteq settings'
    BY <1>3, <2>1, <2>2 DEF SeedWhole, Typed
  <2>4. CASE step = 4 /\ Done
    <3>1. chain' = KeyOn
      BY <2>2, <2>4, LastOfDone DEF KeyOn
    <3>2. settings' = Range(SettingNames)
      BY <1>3, <2>3, <2>4, SettingNamesAre DEF Typed
    <3> QED
      BY <3>1, <3>2, SeedRests, SeedTails DEF SeedWhole, Behind, Seeds
  <2>5. CASE step # 4 /\ GoOn(None)
    <3>1. chain' = Seed /\ step' - 1 = step
      BY <2>2, <2>5 DEF GoOn, Typed
    <3> QED
      BY <2>3, <3>1, SeedRests, SeedTails DEF SeedWhole, Behind, Seeds
  <2> QED
    BY <1>3, <2>4, <2>5
<1> QED
  BY <1>2, <1>3, SettingNamesAre DEF SeedSetting

LEMMA WholeKey == Going /\ SeedWhole /\ SeedApiKey => SeedWhole'
<1> SUFFICES ASSUME Going, SeedWhole, SeedApiKey, last'.of = Seed PROVE SeedWhole'
  BY DEF SeedWhole
<1>1. chain # << >> /\ Head(chain) = "seed:apikey" /\ UNCHANGED <<settings, permissions, roles, users>>
  BY DEF SeedApiKey, Running
<1>2. CASE Ends("refused")
  BY <1>2, WholeEnds
<1>3. CASE Done
  <2>1. last.of = Seed
    BY <1>3, LastOfDone
  <2>2. chain = KeyOn
    BY <1>1, <2>1, SeedHead DEF SeedWhole
  <2>3. chain' = PermissionOn /\ apikeys' = TRUE
    BY <1>3, <2>2, LastOfDone DEF PermissionOn, SeedApiKey
  <2>4. settings' = Range(SettingNames)
    BY <1>1, <2>1, <2>2 DEF SeedWhole, Behind
  <2> QED
    BY <2>3, <2>4, SeedRests, SeedTails DEF SeedWhole, Behind, Seeds
<1> QED
  BY <1>2, <1>3 DEF SeedApiKey

LEMMA WholePermission == Typed /\ Going /\ SeedWhole /\ SeedPermission => SeedWhole'
<1> SUFFICES ASSUME Typed, Going, SeedWhole, SeedPermission, last'.of = Seed PROVE SeedWhole'
  BY DEF SeedWhole
<1>1. chain # << >> /\ Head(chain) = "seed:permission" /\ UNCHANGED <<settings, apikeys, roles, users>>
  BY DEF SeedPermission, Running
<1>2. CASE Ends("refused") \/ Ends("killed")
  BY <1>2, WholeEnds
<1>3. CASE Done /\ permissions' = Inserted(Len(Codes))
  <2>1. last.of = Seed
    BY <1>3, LastOfDone
  <2>2. chain = PermissionOn
    BY <1>1, <2>1, SeedHead DEF SeedWhole
  <2>3. chain' = RoleOn
    BY <1>3, <2>2, LastOfDone DEF RoleOn
  <2>4. settings' = Range(SettingNames) /\ apikeys'
    <3>1. settings = Range(SettingNames) /\ apikeys
      BY <2>1, <2>2 DEF SeedWhole, Behind
    <3> QED
      BY <1>1, <3>1, Zenon
  <2>5. DOMAIN permissions' = Range(Codes)
    <3> DEFINE all == Len(Codes)
    <3>1. DOMAIN permissions' = {Codes[m] : m \in 1..all} \cup DOMAIN permissions
      <4>1. all \in 0..Len(Codes)
        BY MigrationAssumption
      <4>2. permissions' = Inserted(all)
        BY <1>3
      <4> HIDE DEF all
      <4> QED
        BY <1>1, <4>1, <4>2, InsertedSome
    <3>2. Range(Codes) = {Codes[m] : m \in 1..Len(Codes)}
      BY MigrationAssumption DEF Range
    <3> QED
      BY <3>1, <3>2 DEF Typed, Some
  <2> QED
    BY <2>3, <2>4, <2>5, SeedRests, SeedTails DEF SeedWhole, Behind, Seeds
<1> QED
  BY <1>2, <1>3, PermissionsInserted

LEMMA WholeRole == Typed /\ Going /\ ReadWhole /\ SeedWhole /\ SeedRole => SeedWhole'
<1> SUFFICES ASSUME Typed, Going, ReadWhole, SeedWhole, SeedRole, last'.of = Seed PROVE SeedWhole'
  BY DEF SeedWhole
<1>1. chain # << >> /\ Head(chain) = "seed:role" /\ UNCHANGED <<settings, apikeys, permissions, users>>
  BY DEF SeedRole, Running
<1>2. CASE Ends("refused") \/ Ends("killed")
  BY <1>2, WholeEnds
<1>3. CASE \E read : GoOn(read)
  <2>1. last.of = Seed /\ chain' = chain
    BY <1>3 DEF GoOn
  <2>2. chain = RoleOn
    BY <1>1, <2>1, SeedHead DEF SeedWhole
  <2>3. settings' = Range(SettingNames) /\ apikeys' /\ DOMAIN permissions' = Range(Codes)
    <3>1. settings = Range(SettingNames) /\ apikeys /\ DOMAIN permissions = Range(Codes)
      BY <2>1, <2>2 DEF SeedWhole, Behind
    <3> QED
      BY <1>1, <3>1, Zenon
  <2> QED
    BY <2>1, <2>2, <2>3, SeedRests, SeedTails DEF SeedWhole, Behind, Seeds
<1>4. CASE Done /\ step = 3 /\ roles' = Create(Create(roles, "admin", Role(found)), "user", Role({}))
  <2>1. last.of = Seed
    BY <1>4, LastOfDone
  <2>2. chain = RoleOn
    BY <1>1, <2>1, SeedHead DEF SeedWhole
  <2>3. chain' = UserOn /\ step' = 1
    BY <1>4, <2>2, LastOfDone DEF UserOn
  <2>4. settings' = Range(SettingNames) /\ apikeys' /\ DOMAIN permissions' = Range(Codes)
    <3>1. settings = Range(SettingNames) /\ apikeys /\ DOMAIN permissions = Range(Codes)
      BY <2>1, <2>2 DEF SeedWhole, Behind
    <3> QED
      BY <1>1, <3>1, Zenon
  <2>5. "admin" \in DOMAIN roles' /\ roles'["admin"].permissions = Permissions'
    <3> DEFINE admin == Create(roles, "admin", Role(found))
    <3>1. DOMAIN roles = {"superadmin"} /\ found = Permissions
      BY <1>1, <1>4 DEF ReadWhole, Running
    <3>2. "admin" \in DOMAIN admin /\ admin["admin"] = Role(found)
      BY <3>1 DEF Create
    <3>3. roles' = Create(admin, "user", Role({}))
      BY <1>4
    <3> HIDE DEF admin
    <3>4. "admin" \in DOMAIN roles' /\ roles'["admin"] = Role(found)
      BY <3>2, <3>3 DEF Create
    <3>5. Role(found).permissions = Permissions /\ Permissions' = Permissions
      BY <1>1, <3>1 DEF Role, Permissions
    <3> QED
      BY <3>4, <3>5
  <2>6. {Names[n] : n \in 1..(step' - 2)} = {}
    BY <2>3
  <2> QED
    BY <2>3, <2>4, <2>5, <2>6, SeedRests, SeedTails DEF SeedWhole, Behind, Seeds
<1> QED
  BY <1>2, <1>3, <1>4 DEF SeedRole

LEMMA WholeUser == Typed /\ Going /\ SeedWhole /\ SeedUser => SeedWhole'
<1> SUFFICES ASSUME Typed, Going, SeedWhole, SeedUser, last'.of = Seed PROVE SeedWhole'
  BY DEF SeedWhole
<1>1. chain # << >> /\ Head(chain) = "seed:user" /\ UNCHANGED <<settings, apikeys, permissions, roles>>
  BY DEF SeedUser, Running
<1>2. CASE Ends("refused")
  BY <1>2, WholeEnds
<1>3. ASSUME last.of = Seed
      PROVE  /\ chain = UserOn
             /\ settings' = Range(SettingNames) /\ apikeys' /\ DOMAIN permissions' = Range(Codes)
             /\ "admin" \in DOMAIN roles' /\ roles'["admin"].permissions = Permissions'
             /\ {Names[n] : n \in 1..(step - 2)} \subseteq DOMAIN users
  <2>1. chain = UserOn
    BY <1>1, <1>3, SeedHead DEF SeedWhole
  <2>2. /\ settings = Range(SettingNames) /\ apikeys /\ DOMAIN permissions = Range(Codes)
        /\ "admin" \in DOMAIN roles /\ roles["admin"].permissions = Permissions
        /\ {Names[n] : n \in 1..(step - 2)} \subseteq DOMAIN users
    BY <1>3, <2>1 DEF SeedWhole, Behind
  <2>3. apikeys'
    BY <1>1, <2>2, Zenon
  <2>4. Permissions' = Permissions
    BY <1>1 DEF Permissions
  <2> QED
    BY <1>1, <2>1, <2>2, <2>3, <2>4
<1>4. CASE step = 1 /\ UNCHANGED users /\ \E read : GoOn(read)
  <2>1. last.of = Seed /\ chain' = chain /\ step' = 2
    BY <1>4 DEF GoOn
  <2>2. {Names[n] : n \in 1..(step' - 2)} = {}
    BY <2>1
  <2> QED
    BY <1>3, <2>1, <2>2, SeedRests, SeedTails DEF SeedWhole, Behind, Seeds
<1>5. ASSUME step > 1, users' = Create(users, Names[step - 1], found[Names[step - 1]]),
             last.of = Seed
      PROVE  {Names[n] : n \in 1..(step - 1)} \subseteq DOMAIN users'
  <2>1. DOMAIN users' = DOMAIN users \cup {Names[step - 1]}
    BY <1>5 DEF Create
  <2>2. 1..(step - 1) = 1..(step - 2) \cup {step - 1}
    BY <1>5 DEF Typed
  <2> QED
    BY <1>3, <1>5, <2>1, <2>2
<1>6. CASE step > 1 /\ users' = Create(users, Names[step - 1], found[Names[step - 1]]) /\ GoOn(found)
  <2>1. last.of = Seed /\ chain' = chain /\ step' - 2 = step - 1
    BY <1>6 DEF GoOn, Typed
  <2> QED
    BY <1>3, <1>5, <1>6, <2>1, SeedRests, SeedTails DEF SeedWhole, Behind, Seeds
<1>7. CASE /\ step > 1 /\ users' = Create(users, Names[step - 1], found[Names[step - 1]])
           /\ Names[step - 1] = "user" /\ Done
  <2>1. last.of = Seed
    BY <1>7, LastOfDone
  <2>2. chain' = << >>
    BY <1>3, <1>7, <2>1, LastOfDone, SeedTails
  <2>3. step = 4
    BY <1>7, NamesAre DEF Typed
  <2>4. Range(Names) = {Names[n] : n \in 1..(step - 1)}
    BY <2>3, NamesAre
  <2>5. DOMAIN users' \subseteq Range(Names)
    BY <1>7, <2>3, NamesAre DEF Create, Typed, Some
  <2>6. DOMAIN users' = Range(Names)
    BY <1>5, <1>7, <2>1, <2>4, <2>5
  <2> QED
    BY <1>3, <2>1, <2>2, <2>6, SeedTails DEF SeedWhole, Behind, Seeds
<1> QED
  BY <1>2, <1>4, <1>6, <1>7 DEF SeedUser

LEMMA WholeInit == Init => SeedWhole
  BY SeedTails DEF Init, SeedWhole, Behind

LEMMA WholeStep ==
    RemovalInv /\ Typed /\ ReadWhole /\ SeedWhole /\ [Next]_vars => SeedWhole'
<1> SUFFICES ASSUME RemovalInv, Typed, ReadWhole, SeedWhole, [Next]_vars PROVE SeedWhole'
  OBVIOUS
<1>1. Going
  BY DEF RemovalInv
<1>2. CASE UNCHANGED vars
  BY <1>2 DEF vars, collections, SeedWhole, Behind, Permissions
<1>3. ASSUME NEW c, Start(c) PROVE SeedWhole'
  <2>1. chain' = c /\ step' = 1 /\ last'.of = c /\ last'.outcome = "running"
    BY <1>3, LastOfStart
  <2>2. 1..(step' - 1) = {}
    BY <2>1
  <2> QED
    BY <2>1, <2>2, SeedRests, SeedTails DEF SeedWhole, Behind, Seeds
<1>4. CASE Killed
  BY <1>1, <1>4, WholeEnds DEF Killed
<1>5. CASE SeedSetting
  BY <1>1, <1>5, WholeSetting
<1>6. CASE SeedApiKey
  BY <1>1, <1>6, WholeKey
<1>7. CASE SeedPermission
  BY <1>1, <1>7, WholePermission
<1>8. CASE SeedRole
  BY <1>1, <1>8, WholeRole
<1>9. CASE SeedUser
  BY <1>1, <1>9, WholeUser
<1>10. CASE RemoveSetting \/ RemoveApiKey \/ RemoveUser \/ RemoveRole \/ RemovePermission
  <2>1. Done /\ chain # << >> /\ chain \notin Seeds
    BY <1>10, SeedHead DEF RemoveSetting, RemoveApiKey, RemoveUser, RemoveRole, RemovePermission,
                           Running
  <2>2. last'.of # Seed
    BY <1>1, <2>1, LastOfDone DEF SeedWhole
  <2> QED
    BY <2>2 DEF SeedWhole
<1> QED
  BY <1>2, <1>3, <1>4, <1>5, <1>6, <1>7, <1>8, <1>9, <1>10 DEF Next, Alone

\* What n numbers name one by one are n things.
LEMMA Counted ==
    ASSUME NEW n \in Nat, NEW f, f = [m \in 1..n |-> f[m]],
           \A k, m \in 1..n : f[k] = f[m] => k = m
    PROVE  Cardinality({f[m] : m \in 1..n}) = n
<1> DEFINE T == {f[m] : m \in 1..n}
<1>1. IsFiniteSet(1..n) /\ Cardinality(1..n) = n
  <2>1. IsFiniteSet(1..n) /\ Cardinality(1..n) = IF 1 > n THEN 0 ELSE n - 1 + 1
    BY FS_Interval, 1 \in Int, n \in Int, Zenon
  <2> QED
    BY <2>1
<1>2. f \in [1..n -> T] /\ \A t \in T : \E m \in 1..n : f[m] = t
  OBVIOUS
<1>3. f \in Bijection(1..n, T)
  <2> HIDE DEF T
  <2> QED
    BY <1>2 DEF Bijection, Injection, Surjection, IsInjective
<1> HIDE DEF T
<1>4. ExistsBijection(1..n, T)
  BY <1>3 DEF ExistsBijection
<1>5. Cardinality(T) = Cardinality(1..n)
  BY <1>1, <1>4, FS_Bijection
<1> QED
  BY <1>1, <1>5 DEF T

LEMMA SettingsCounted == Cardinality(Range(SettingNames)) = Len(SettingNames)
<1> DEFINE f == SettingNames
           n == 4
<1>1. /\ n \in Nat
      /\ f = [m \in 1..n |-> f[m]] /\ \A k, m \in 1..n : f[k] = f[m] => k = m
  BY DEF SettingNames
<1>2. Cardinality({f[m] : m \in 1..n}) = n
  <2> HIDE DEF f, n
  <2> QED
    BY <1>1, Counted
<1> QED
  BY <1>2, SettingNamesAre

LEMMA PermissionsCounted ==
    ASSUME DOMAIN permissions = Range(Codes)
    PROVE  Cardinality(Permissions) = Len(Codes)
<1> DEFINE n == Len(Codes)
           f == [m \in 1..n |-> [code |-> Codes[m], id |-> permissions[Codes[m]]]]
<1>1. n \in Nat /\ DOMAIN Codes = 1..n
  BY MigrationAssumption
<1>2. \A k, m \in 1..n : f[k] = f[m] => k = m
  <2> SUFFICES ASSUME NEW k \in 1..n, NEW m \in 1..n, f[k] = f[m] PROVE k = m
    OBVIOUS
  <2>1. f[k].code = Codes[k] /\ f[m].code = Codes[m]
    OBVIOUS
  <2> QED
    BY <1>1, <2>1, MigrationAssumption DEF IsInjective
<1>3. Permissions = {f[m] : m \in 1..n}
  <2>1. DOMAIN permissions = {Codes[m] : m \in 1..n}
    BY <1>1 DEF Range
  <2>2. ASSUME NEW p \in Permissions PROVE p \in {f[m] : m \in 1..n}
    <3>1. PICK c \in DOMAIN permissions : p = [code |-> c, id |-> permissions[c]]
      BY DEF Permissions
    <3>2. PICK m \in 1..n : c = Codes[m]
      BY <2>1
    <3> QED
      BY <3>1, <3>2
  <2>3. ASSUME NEW m \in 1..n PROVE f[m] \in Permissions
    BY <2>1 DEF Permissions
  <2> QED
    BY <2>2, <2>3
<1> HIDE DEF n
<1>4. f = [m \in 1..n |-> f[m]]
  OBVIOUS
<1> HIDE DEF f
<1>5. Cardinality({f[m] : m \in 1..n}) = n
  BY <1>1, <1>2, <1>4, Counted
<1> QED
  BY <1>3, <1>5 DEF n

\* Whatever earlier chains left behind, seeds that end well leave an administrator with every
\* permission, all settings, and the three users with the roles of their names.
THEOREM SeedsComplete == Spec => []SeededWhole
<1>1. Typed /\ ReadWhole /\ SeedWhole /\ RemovalInv => SeededWhole
  <2> SUFFICES ASSUME Typed, ReadWhole, SeedWhole, RemovalInv,
                      last.of = Seed, last.outcome = "done"
               PROVE  /\ Cardinality(settings) = Len(SettingNames) /\ apikeys
                      /\ roles["admin"].permissions = Permissions
                      /\ Cardinality(Permissions) = Len(Codes)
                      /\ \A n \in DOMAIN Names : users[Names[n]].name = Names[n]
    BY DEF SeededWhole
  <2>1. chain = << >>
    BY DEF RemovalInv
  <2>2. /\ settings = Range(SettingNames) /\ apikeys /\ DOMAIN permissions = Range(Codes)
        /\ roles["admin"].permissions = Permissions /\ DOMAIN users = Range(Names)
    BY <2>1 DEF SeedWhole, Behind
  <2>3. \A n \in DOMAIN Names : users[Names[n]].name = Names[n]
    BY <2>2 DEF ReadWhole, Range
  <2> QED
    BY <2>2, <2>3, SettingsCounted, PermissionsCounted
<1> QED
  BY <1>1, TypedInit, TypedStep, ReadInit, ReadStep, WholeInit, WholeStep, RemovalInit,
     RemovalStep, PTL DEF Spec
-----------------------------------------------------------------------------
LEMMA LeftInit == Init => LeftInv
  BY DEF Init, LeftInv

\* What is not empty has something that a command of the seed meets.
LEMMA LeftStart ==
    ASSUME Typed, ~Empty, UNCHANGED collections, chain' = Seed, step' = 1
    PROVE  Left'
<1>1. UNCHANGED <<settings, apikeys, permissions, roles, users>>
  BY DEF collections
<1>2. settings # {} => \E n \in 1..4 : SettingNames[n] \in settings
  BY SettingNamesAre DEF Typed
<1>3. ASSUME NEW f, f = [n \in DOMAIN f |-> f[n]], DOMAIN f = {} PROVE f = << >>
  BY <1>3
<1>4. /\ permissions # << >> => DOMAIN permissions # {}
      /\ roles # << >> => DOMAIN roles # {}
      /\ users # << >> => DOMAIN users # {}
  BY <1>3 DEF Typed, Some
<1>5. \/ \E n \in 1..4 : SettingNames[n] \in settings
      \/ apikeys \/ DOMAIN permissions # {} \/ DOMAIN roles # {} \/ DOMAIN users # {}
  BY <1>2, <1>4, Zenon DEF Empty
<1>6. CASE \E n \in 1..4 : SettingNames[n] \in settings
  BY <1>1, <1>6 DEF Left
<1>7. CASE apikeys
  <2>1. apikeys'
    BY <1>1, <1>7, Zenon
  <2> QED
    BY <2>1 DEF Left
<1>8. CASE DOMAIN permissions # {} \/ DOMAIN roles # {} \/ DOMAIN users # {}
  BY <1>1, <1>8 DEF Left
<1> QED
  BY <1>5, <1>6, <1>7, <1>8

\* A command either meets what is left, or leaves it to the next ones.
LEMMA LeftSetting ==
    ASSUME Typed, chain = Seed, Left, SeedSetting
    PROVE  Ends("refused") \/ (chain' = chain /\ Left') \/ (chain' = KeyOn /\ Left')
<1>1. UNCHANGED <<apikeys, permissions, roles, users>>
  BY DEF SeedSetting
<1>2. CASE SettingNames[step] \notin settings
  <2>1. /\ settings' = settings \cup {SettingNames[step]}
        /\ (step = 4 /\ Done) \/ (step # 4 /\ GoOn(None))
    BY <1>2, SettingNamesAre DEF SeedSetting
  <2>2. \/ \E n \in step..4 : n # step /\ SettingNames[n] \in settings
        \/ apikeys \/ DOMAIN permissions # {} \/ DOMAIN roles # {} \/ DOMAIN users # {}
    BY <1>2, SeedRests DEF Left
  <2>3. \/ \E n \in step..4 : n # step /\ SettingNames[n] \in settings
        \/ apikeys' \/ DOMAIN permissions' # {} \/ DOMAIN roles' # {} \/ DOMAIN users' # {}
    BY <1>1, <2>2, Zenon
  <2>4. CASE step = 4 /\ Done
    <3>1. chain' = KeyOn
      BY <2>4 DEF Done, KeyOn
    <3>2. ~ \E n \in step..4 : n # step /\ SettingNames[n] \in settings
      BY <2>4
    <3> QED
      BY <2>3, <3>1, <3>2 DEF Left
  <2>5. CASE step # 4 /\ GoOn(None)
    <3>1. chain' = chain /\ step' = step + 1
      BY <2>5 DEF GoOn
    <3>2. (\E n \in step..4 : n # step /\ SettingNames[n] \in settings) =>
             \E n \in step'..4 : SettingNames[n] \in settings'
      BY <2>1, <3>1 DEF Typed
    <3> QED
      BY <2>3, <3>1, <3>2 DEF Left
  <2> QED
    BY <2>1, <2>4, <2>5
<1> QED
  BY <1>2 DEF SeedSetting

LEMMA LeftKey ==
    ASSUME chain = KeyOn, Left, SeedApiKey
    PROVE  Ends("refused") \/ (chain' = PermissionOn /\ Left')
<1>1. UNCHANGED <<permissions, roles, users>>
  BY DEF SeedApiKey
<1>2. CASE Done /\ ~apikeys
  <2>1. DOMAIN permissions # {} \/ DOMAIN roles # {} \/ DOMAIN users # {}
    BY <1>2, SeedRests DEF Left
  <2>2. chain' = PermissionOn
    BY <1>2 DEF Done, PermissionOn
  <2> QED
    BY <1>1, <2>1, <2>2 DEF Left
<1> QED
  BY <1>2 DEF SeedApiKey

LEMMA LeftPermission ==
    ASSUME Typed, chain = PermissionOn, Left, SeedPermission
    PROVE  Ends("refused") \/ Ends("killed") \/ (chain' = RoleOn /\ Left')
<1>1. UNCHANGED <<roles, users>>
  BY DEF SeedPermission
<1>2. CASE Done /\ Taken = {}
  <2>1. DOMAIN permissions = {}
    <3> SUFFICES ASSUME NEW c \in DOMAIN permissions PROVE FALSE
      OBVIOUS
    <3>1. PICK n \in DOMAIN Codes : c = Codes[n]
      BY DEF Typed, Some, Range
    <3> QED
      BY <1>2, <3>1 DEF Taken
  <2>2. DOMAIN roles # {} \/ DOMAIN users # {}
    BY <2>1, SeedRests DEF Left
  <2>3. chain' = RoleOn /\ step' = 1
    BY <1>2 DEF Done, RoleOn
  <2> QED
    BY <1>1, <2>2, <2>3 DEF Left
<1> QED
  BY <1>2, PermissionsInserted

LEMMA LeftRole ==
    ASSUME Typed, ReadWhole, chain = RoleOn, Left, SeedRole
    PROVE  \/ Ends("refused") \/ Ends("killed")
           \/ (chain' = chain /\ Left') \/ (chain' = UserOn /\ Left')
<1>1. UNCHANGED users
  BY DEF SeedRole
<1>2. (step \in {1, 2} /\ DOMAIN roles # {}) \/ DOMAIN users # {}
  BY SeedRests DEF Left
<1>3. CASE step = 1
  <2>1. GoOn(Permissions) /\ roles' = roles
    BY <1>3 DEF SeedRole
  <2>2. chain' = chain /\ step' = 2
    BY <1>3, <2>1 DEF GoOn
  <2> QED
    BY <1>1, <1>2, <2>1, <2>2 DEF Left
<1>4. CASE step = 2 /\ "superadmin" \notin DOMAIN roles
  <2>1. DOMAIN users # {}
    BY <1>2, <1>4 DEF ReadWhole
  <2>2. chain' = chain
    BY <1>4 DEF SeedRole, GoOn
  <2> QED
    BY <1>1, <2>1, <2>2 DEF Left
<1>5. CASE step = 3
  <2>1. DOMAIN users # {}
    BY <1>2, <1>5
  <2>2. CASE Done
    <3>1. chain' = UserOn /\ step' = 1
      BY <2>2 DEF Done, UserOn
    <3>2. \A u \in DOMAIN users : \E n \in 1..3 : u = Names[n]
      BY NamesAre DEF Typed, Some
    <3> QED
      BY <1>1, <2>1, <3>1, <3>2 DEF Left
  <2> QED
    BY <1>5, <2>2 DEF SeedRole
<1> QED
  BY <1>3, <1>4, <1>5 DEF SeedRole

LEMMA LeftUser ==
    ASSUME Typed, chain = UserOn, Left, SeedUser
    PROVE  Ends("refused") \/ (chain' = chain /\ Left')
<1>1. PICK n \in 1..3 : n >= step - 1 /\ Names[n] \in DOMAIN users
  BY SeedRests DEF Left
<1>2. CASE step = 1
  <2>1. chain' = chain /\ step' = 2 /\ UNCHANGED users
    BY <1>2 DEF SeedUser, GoOn
  <2> QED
    BY <1>1, <2>1 DEF Left
<1>3. CASE /\ step > 1 /\ Names[step - 1] \notin DOMAIN users
           /\ users' = Create(users, Names[step - 1], found[Names[step - 1]])
           /\ IF Names[step - 1] = "user" THEN Done ELSE GoOn(found)
  <2>1. step \in 2..4 /\ n > step - 1
    BY <1>1, <1>3 DEF Typed
  <2>2. step - 1 \in {1, 2}
    BY <2>1
  <2>3. GoOn(found)
    BY <1>3, <2>2, NamesAre
  <2>4. chain' = chain /\ step' = step + 1
    BY <2>3 DEF GoOn
  <2>5. Names[n] \in DOMAIN users'
    BY <1>1, <1>3 DEF Create
  <2> QED
    BY <2>1, <2>4, <2>5 DEF Left
<1> QED
  BY <1>2, <1>3 DEF SeedUser, Typed

LEMMA LeftStep ==
    RemovalInv /\ Typed /\ ReadWhole /\ SeedWhole /\ LeftInv /\ [Next]_vars => LeftInv'
<1> SUFFICES ASSUME RemovalInv, Typed, ReadWhole, SeedWhole, LeftInv, [Next]_vars PROVE LeftInv'
  OBVIOUS
<1>1. Going
  BY DEF RemovalInv
<1>2. CASE UNCHANGED vars
  BY <1>2 DEF vars, collections, LeftInv, Left
<1>3. ASSUME NEW c, Start(c) PROVE LeftInv'
  <2>1. /\ chain' = c /\ step' = 1 /\ UNCHANGED collections
        /\ last'.of = c /\ last'.empty = Empty /\ last'.outcome = "running"
    BY <1>3, LastOfStart
  <2>2. CASE c = Seed /\ ~Empty
    <3>1. Left'
      BY <2>1, <2>2, LeftStart
    <3> QED
      BY <2>1, <3>1 DEF LeftInv
  <2>3. CASE c # Seed \/ Empty
    <3>1. last'.of # Seed \/ last'.empty
      BY <2>1, <2>3, Zenon
    <3> QED
      BY <3>1 DEF LeftInv
  <2> QED
    BY <2>2, <2>3
<1>4. CASE Killed
  BY <1>1, <1>4, LastOfEnds DEF Killed, LeftInv
<1>5. CASE SeedSetting \/ SeedApiKey \/ SeedPermission \/ SeedRole \/ SeedUser
  <2>1. chain # << >> /\ last.outcome = "running"
    BY <1>5 DEF SeedSetting, SeedApiKey, SeedPermission, SeedRole, SeedUser, Running, RemovalInv
  <2>2. last'.of = last.of /\ last'.empty = last.empty
    BY <1>1, <1>5, LastOfDone, LastOfEnds
       DEF SeedSetting, SeedApiKey, SeedPermission, SeedRole, SeedUser, GoOn
  <2> SUFFICES ASSUME last.of = Seed, ~last.empty
               PROVE  last'.outcome # "done" /\ (chain' # << >> => Left')
    BY <2>2 DEF LeftInv
  <2>3. chain \in Seeds /\ Left
    BY <2>1 DEF SeedWhole, LeftInv
  <2>4. ASSUME Ends("refused") \/ Ends("killed") PROVE chain' = << >> /\ last'.outcome # "done"
    BY <1>1, <2>4, LastOfEnds
  <2>5. chain' # << >> => last'.outcome = "running"
    BY <1>1, <1>5, <2>1, LastOfDone, LastOfEnds
       DEF SeedSetting, SeedApiKey, SeedPermission, SeedRole, SeedUser, GoOn
  <2>6. CASE SeedSetting
    BY <2>3, <2>4, <2>5, <2>6, LeftSetting, SeedHead, SeedTails DEF SeedSetting, Running
  <2>7. CASE SeedApiKey
    BY <2>3, <2>4, <2>5, <2>7, LeftKey, SeedHead, SeedTails DEF SeedApiKey, Running
  <2>8. CASE SeedPermission
    BY <2>3, <2>4, <2>5, <2>8, LeftPermission, SeedHead, SeedTails DEF SeedPermission, Running
  <2>9. CASE SeedRole
    BY <2>3, <2>4, <2>5, <2>9, LeftRole, SeedHead, SeedTails DEF SeedRole, Running
  <2>10. CASE SeedUser
    BY <2>3, <2>4, <2>5, <2>10, LeftUser, SeedHead, SeedTails DEF SeedUser, Running
  <2> QED
    BY <1>5, <2>6, <2>7, <2>8, <2>9, <2>10
<1>6. CASE RemoveSetting \/ RemoveApiKey \/ RemoveUser \/ RemoveRole \/ RemovePermission
  <2>1. Done /\ chain # << >> /\ chain \notin Seeds
    BY <1>6, SeedHead DEF RemoveSetting, RemoveApiKey, RemoveUser, RemoveRole, RemovePermission,
                          Running
  <2>2. last'.of # Seed
    BY <1>1, <2>1, LastOfDone DEF SeedWhole
  <2> QED
    BY <2>2 DEF LeftInv
<1> QED
  BY <1>2, <1>3, <1>4, <1>5, <1>6 DEF Next, Alone

\* However a seed was interrupted, it cannot be resumed: seeds that find anything at all of an
\* earlier one never end well.
THEOREM NeverResumed == Spec => []SeedsNeverResume
<1>1. LeftInv => SeedsNeverResume
  BY DEF LeftInv, SeedsNeverResume
<1> QED
  BY <1>1, TypedInit, TypedStep, ReadInit, ReadStep, WholeInit, WholeStep, RemovalInit,
     RemovalStep, LeftInit, LeftStep, PTL DEF Spec
=============================================================================
