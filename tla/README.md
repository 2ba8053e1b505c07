# Verification of the ACK NestJS boilerplate

TLA+ models of the server in `src/` (NestJS, Mongoose, MongoDB), checked with TLC on
small instances, and theorems about them proved with TLAPS for every value of the
constants.  Paths below are relative to the repository's root.

## 1. The system

One Node process serves HTTP.  Every handler is an `async` function: between two
`await`s it runs alone, at every `await` any other handler may run.  All state that
outlives a request is in MongoDB and in one S3 bucket, and no handler opens a transaction,
so the unit of atomicity is *one call of the database or the bucket*.  That is the
granularity of every model here: one action per call, with whatever the handler computes
before the next.

| part | state it keeps | operations | what makes it correct |
|---|---|---|---|
| Login and lock (`modules/user`) | `passwordAttempt`, `isActive` of a user | `POST /user/login`, `increasePasswordAttempt`, administrator's inactive / active / delete | the limit on wrong passwords holds; nobody is locked for more than was done; only an administrator ends a lock; every login is answered |
| Settings (`common/setting`) | rows of text with a declared type | `checkValue`, `getValue`, find by name, `PUT admin/setting/update` | a stored text becomes the value its readers expect |
| Users, roles (`modules/user`, `modules/role`) | two collections, a reference from user to role, unique indexes | sign-up, create, delete, photo; role create, update, delete, inactive, active | unique keys stay unique; no user is left without a role; conflicts are found by the checks |
| Permissions (`modules/permission`) | collection, copy of their codes in each access token | update / inactive / active, two guards on the token | a guard that trusts a copy lets nobody do what his role does not allow |
| Sessions (`common/auth`) | nothing on the server but the account; tokens at the clients | login, refresh, guards | lifetimes of tokens; a dead account's session ends; a client can keep a live one |
| Requests (`common/middleware`, `common/response`, `common/error`) | running handlers, timers | middlewares, guards, interceptors, filter | one answer each; what a handler does after its timeout harms nobody |
| Maintenance (`common/middleware/maintenance`) | one setting | middleware on all routes but the excluded ones | a maintenance can be ended |
| API keys (`common/api-key`) | collection of hashed keys | create, reset, switch, delete; strategy and guard | a stored key works for somebody; a request is let in only with what was valid |
| Repository (`common/database`) | soft-delete marks | two classes of 24 queries each | the classes agree; pages of a list hold together |
| Lists (`common/pagination`, four `list` handlers) | none | page, skip, total, links | a walk through the pages ends, and misses nothing it should see |
| Uploads (`common/file`, `common/aws`, `modules/user`) | objects of a bucket, the photo of a user | pipes, put, record | a recorded photo exists; orphans only through faults |
| Seeds (`migration`) | the initial rows | seed and remove commands, chains of `package.json` | references hold when a chain stops anywhere; it can be repaired |

How they interact: guards put a copy of a document on the request and later guards and
the handler decide on that copy; `login` reads two settings between reading the user
and deciding; roles are joined into users by a second query (`populate`); tokens carry
a snapshot of the role's permissions; the maintenance middleware reads a setting for every
request; the timeout answers for a handler that goes on.

What is hard to test here: check-then-write across awaits (the counter, the used-role
guard, unique keys), decisions on stale copies (of users, tokens, API keys), updates of
documents that are gone (`updateOneById` returns `null` and no caller looks), pages read
from a collection that changes, two stores written one after the other, settings whose
text does not fit their type, handlers that outlive their answer, seeds that stop half
way, and time (three lifetimes and a "not before" that must fit together).
`PROJECT.json` lists each hazard at its line.

## 2. The modules

| module | what it is |
|---|---|
| `SettingValue` | pure: stored text and type, `checkValue`, `getValue`, and what `if (v)` and `n >= v` make of the value |
| `LoginAttempt` | the login handler, its counter and its lock, with administrators at work |
| `PasswordLockout` | abstract: wrong passwords are looked at only while fewer than one of `Limits` were, and so are right ones |
| `RoleUsers` | users and roles: all handlers that write them, with their guards and queries |
| `RoleReferences` | abstract: a role is changed or removed only while nobody holds it |
| `Claims` | `RoleUsers` composed with login and refresh: the copy of a role that a token carries |
| `Authorization` | `Claims` with the guards that read the token, and the requests on permissions |
| `Session` | the tokens of an account's clients against time |
| `Absent` | the two values that stand for no document and for an exception |
| `Repository`, `ObjectIdRepository` | pure: the queries of the two repository classes, as functions of a collection |
| `Pagination` | pure: what the DTO makes of a query, skip, pages, links |
| `Listing` | both composed: a client walks through the pages of a list while others write |
| `Request` | the way of a request: middlewares, guards, interceptors, handler, answer, timeout, the death of the process |
| `ApiKeys` | `ApiKeyService`, the api-key strategy and its guard |
| `Maintenance` | the maintenance setting, the middleware and an administrator who wants to end it |
| `Files` | pure: the pipes of uploaded files |
| `Upload` | a photo between bucket and database |
| `Gateway` | `Request`, `ApiKeys`, `Maintenance` and `Upload` composed |
| `Migration` | seeds, removals and their chains |
| `MC*` | instances for TLC; `*.cfg` gives one run each |
| `*_proofs` | theorems; each EXTENDS its module and `TLAPS` (`Authorization_proofs` holds those of `Claims`, `Upload_proofs` those of `Request`, `Maintenance`, `Files` and of the types of `Gateway`, `Listing_proofs` those of the two repositories and of `Pagination`) |

Each action is one call of the handler it is named after, together with what the handler
does up to the next call; `PROJECT.json` "map" gives the lines.

### LoginAttempt

| action | code (`modules/user/controllers/user.controller.ts` unless said) |
|---|---|
| `FindUser`, `PopulateRole` | `findOneByUsername(…, {join})`: two queries, the document and its role |
| `ReadMode`, `ReadLimit` | the two settings; the limit is compared with the counter of the copy |
| `Validate` | the comparison of the password and the answers that follow from the copy |
| `IncRead`, `IncWrite` | `userService.increasePasswordAttempt`: read, then `$set` of the number read plus one |
| `AdminGuards`, `AdminWrite` | inactive, active, delete of the user, inactive, active of the role: guards on a copy, then the write |
| `UpdateMode`, `UpdateLimit` | `PUT admin/setting/update` |

`seen` and `roleSeen` are the handler's local copies.  The password is right or wrong by
choice.  Bounds: `Requests` handlers in total, each administrator's operation pending at
most once.  A role that is deleted is not met here: `RoleUsers` says when that happens
(the populated role is then `null` and the login fails with 500).  A login with an expired
password hands out tokens all the same and only says so in its message.

### RoleUsers

A request picks one of `Calls` (`Start`) and goes through the steps of its handler; a
check that fails is the answer.  `roles` and `users` map identifiers to documents or
`None`; a created document has the identifier of its request.  `role[r]` is the `_id` of
the copy a guard put on the request.  The unique indexes of the entities are what
`InsertUser`, `InsertRole` and `UpdateRole` meet in the database.  E-mails are compared
as regular expressions; which text matches which is the constant `Matching`.  `accessFor`
of a role may be `ADMIN` or `USER` in a body (`RoleCreateDto` takes no other); only the seed
makes a super administrator.  The names, password and salt of a user are left out: nothing
here depends on them.  A body carries the fields of its DTO, and an update both of them;
`RoleUpdateDto` lets either be missing (a missing name is then looked for as no name,
missing permissions end in a `TypeError`).  Bound: `Requests`.

### Claims and Authorization

`FindOne` and `Populate` are the two queries of login and refresh for the user and his
role, `Issue` makes the token from that copy, `Expire` ends it.  Tokens are not tied to a
client, and refusals that have nothing to do with the role (password, lock, age) end a
handler without a trace: `LoginAttempt` and `Session` are about them.  `ClaimsCurrent` is
why the guards may trust a token: nothing revokes a claim, but no role that a user holds
changes.  With overlapping requests it falls with `NoDanglingRole` (run `role_dangling`).

`Authorization` adds the guards: a request on users, roles or permissions starts with a
token (`Admit`, `AskPermission`), and `HasFor` and `HasPermission` decide on the copy in it.
A request keeps its token to its end, although the guards look once: by then the token may
be expired, or its user and his role gone.  `GrantedByRole` says that the role the sender
*then* holds gives him the right.  `active` is the switch of a permission.  No guard and no
other handler reads it: deactivating a permission takes nothing away from anybody, neither
from tokens nor from roles nor from what a role may be given.

### Session

One account and `Logins` clients.  Ages are counted from the moment a token is signed, in
the unit of the configuration, up to `Horizon`, beyond which nothing changes any more.
`Tick` is time; it waits for running handlers (a handler takes seconds, lives are half an
hour and more).  Requests that are refused change nothing and are no action.  `accountDown`
and `roleDown` are history: for how long the account, or its role, has not been active.
`Scale` is the factor between the unit of the configuration and the one the JWT library
counts in.  Assumption: the delay of the refresh token is no longer than the life of the
access token (`NotBefore <= AccessLife`; both are 30 minutes by default).  A deployment
that shortens only the access token breaks it, and `NoGap` with it.

### Repository, Pagination, Listing

A collection is a function from ids to documents.  Ids are numbered in the order of their
creation, and a document carries one tag, which is all that filters and sorts distinguish.
A query that may take any of several documents returns the set of its outcomes.  What two
classes of 700 lines say differently is small: the twin converts ids first and throws for
one that is no ObjectId.  Two queries do not do what they are named for, and nothing calls
them: `restore…` sets `deletedAt` to `undefined`, which mongoose drops from the `$set`, so
the document stays deleted, and `restoreOne` passes a filter where an id belongs.

`Listing` has one client that asks for a page (`Ask`, one of `Queries`: absent, zero,
negative and too large values, unknown and missing sorts among them), reads its rows
(`ReadRows`) and the total (`ReadTotal`), and follows `nextPage` as long as there is one,
while the other callers of the repository write (`Insert` … `Restore`).  `seen`, `start`,
`added`, `gone` and `capped` are history.  The list of roles counts all roles, whatever was
searched for (`TotalFind`; role.admin.controller.ts:102): its walks have empty pages at the
end.  Rows may be hidden by removals and shown twice by inserts; the two invariants say
that the opposite never happens.  They are about walks from the first row, sorted by
`createdAt`, with a positive `perPage` (nothing refuses a negative one), and within the cap
of pages.  A walk starts at the first row if the DTO makes page 1 of what was asked for: an
absent or zero page does so only while the default page of its DTO is 1, as all four are
(`Ordinary`).  `LinksCanBeFollowed` names the one link that leads elsewhere: after page -1 with
a negative `perPage`, `nextPage` is 0, and the DTO reads 0 as its default page
(pagination.service.ts:10, pagination.decorator.ts).

### Request, ApiKeys, Maintenance, Files, Upload, Gateway

`Request` owns the slots in which handlers run.  `Enter` is the middlewares before the
route, `Expire` the timeout: the client has its 408, the slot works on for nobody, and the
client may send again.  The clock starts with the interceptors, after the guards.  `Die` is
the end of the process; docker-compose.yml restarts it (`restart: unless-stopped`), the
database and the bucket are as they were.  `OneAnswerEach` says that whatever of this happens, a
request is answered once: who waits has no answer yet and one handler that owes it, and a
handler that has timed out owes nobody one.  Statuses are values that differ from `None`.

`ApiKeys`: secret, passphrase and encryption key that were made together are one *issue*.
A reset reads the row (`ResetRead`), writes a new issue (`ResetWrite`) and returns the only
copy of its secret (`HandOut`); switching, deleting and the seed come in between.
A client may send its credentials in any form: as they should be, without the hash, as the
payload of another key, as something nobody can make out (`"garbled"`: nothing behind the
colon, rubbish, what other keys have encrypted, or no object), or no header at all.

`FindKey` and `Verify` are the strategy, which works on the row it has read, in an async
verify callback that nobody awaits.  Three things make that callback reject: the query for the key
fails (`FindKey`, last two disjuncts), the payload is garbled, or the row holds other
keys by now than those it was encrypted under (`Verify`, `~Readable`).  Each time the request
hangs until its client gives up, or the unhandled rejection ends the process; which of the two
depends on Node's configuration, and both are steps of the model.  `HangsExplained` says that
nothing else does it: whatever is done to the key, by however many callers, a
request with credentials that stay the key's own, readable and with a query that succeeds, is
answered.  (A reset that renewed the keys in two writes, or not all of them, would break this.)

CryptoJS takes a key that is a string for a password and ignores the iv it is given, so that the
passphrase has no part in `Decrypts`; `LastIssueWorks` says of it that it comes from the same issue.
`ResetWrite` finds its row by the key, the code by its `_id`: the model also lets a reset
reach the seed's row when that was deleted and stored anew, which the code does not, and so has
more behaviours than the program.  A query that fails in any other handler ends as a
500 that `ErrorHttpFilter` sends; only where it changes what comes after (the photo's two writes) is
it a step of the model.

`Maintenance`: `CheckMaintenance` is the middleware, `Administer` an administrator who
sends whatever leads to the end of a maintenance, given what he knows: log in, refresh,
find the setting, update it.  Tokens and the password expire, another administrator stores
what he likes, the row is removed and seeded anew.  Without the row the middleware throws a
`TypeError`, and every route it guards answers 500.

`Upload`: `Pipe`, `Put`, `Record`.  A put or a record may fail, the process may die, the user
may be deleted (`Record` then changes nothing), and a timed-out client may upload again; the
first handler may record its photo after the second.  `Files` is the pipes; a file may also be
one that `FileExtractPipe` cannot read as a workbook, which ends as a 500.

`Gateway` composes them: all requests share slots, timeout and process.

`RateLimitMiddleware` makes a new limiter, with a memory of its own, for each request
(`Hits`): it never counts past one and never answers 429, whatever middleware.config.ts:50
says (`maxRequestPerId: 1, // max request per reset time`).

### Migration

A chain is the list of commands that `&&` joins; each action is one database call of a
command.  `createMany` may be killed in its middle.  An operator may start any chain, or
single commands, after any end of the last one; the application does not run meanwhile.  Commands
that are run alone may leave references to nothing (`remove:role` before `remove:user`),
which is why `SeedReferencesHold` is about orderly histories.

## 3. The runs

| run | question | bounds, and why they do |
|---|---|---|
| `login` | with all interleavings: does the counter ever exceed what was done, and is every login answered? | 2 logins: enough for a lost update; settings on and off, numeric and not; every administrator's step |
| `login_serial` | when logins do not overlap: do the limit and the exact count hold, what ends a lock, and do the handlers implement `PasswordLockout`? | 3 logins against limits 1 and 2: past either limit; every administrator's step |
| `login_overshoot` | *violation*: overlapping logins pass the limit | 3 logins, limit 1 or 2 |
| `role_race` | do the indexes and checks keep keys unique? | 4 requests, bodies that collide on every key |
| `role_dangling` | *violation*: a user keeps the id of a deleted role | 3 requests |
| `claims` | one request on users and roles at a time, log-ins and requests on permissions between any two steps: are tokens true, does the sender hold the right, is nobody left without a role, are the checks complete, do the requests implement `RoleReferences`? | 2 requests (free a role, then change or use it), 1 log-in and 1 request on permissions at a time: they touch nothing of each other; three kinds of senders: a super administrator without permissions, an administrator who lacks one, users |
| `session` | do sessions end, do revocations take effect, is a client ever stuck? | 2 clients, lives 1, 2 and 3 doubled by `Scale`, so that whole lives, gaps and several refreshes fit below `Horizon` |
| `session_units` | *violation*: tokens outlive the configuration | `Scale` 1000 as in the program |
| `listing` | what may a walk through the pages miss or see twice, do its links lead anywhere, does it end, are the two repository classes twins? | up to 4 documents on 3 pages of 2, 2 writes: a page boundary before, at and after each write |
| `list_sort` | *violation*: a list asked for in ascending order is descending | the same |
| `gateway` | is each request answered once, and do API keys, photos and a maintenance survive races, timeouts, crashes and retries? | two clients at a time of one kind, 3 slots (one for a handler that has timed out), 2 issues besides the seed's, 2 uploads, 1 timeout, 1 fault, 1 expiry: each race needs two of its kind and one disturbance |
| `migration` | do references hold while chains of seeds are interrupted and repeated? | 5 chains: a seed killed, a removal killed, a removal, a seed, and one more; 3 permission codes, so that a bulk insert has a middle |

Serial specifications use the same actions while at most one request is under way.  They
say what the handlers do when their checks are not raced, and the violation runs next to
them show what a race does to the same property.  `LockLasts` is such a serial property: a
late write of a counter by an overlapping login (user.service.ts:256) may lower the counter and
end a lock early.  With overlaps only `AttemptsNotOverstated` holds, which bounds the counter from
above.

Deadlock is checked in the runs of `LoginAttempt` and `Session`.  In the others clients,
requests and chains are used up at their bounds, and the system stops.

Symmetry is used for requests and clients that are interchangeable, never together with a
liveness property.

Fairness.  `login` (`FairSpec`): weak fairness of each login that was started.  `listing`
(`FairSpec`): weak fairness of the handlers of the walk.  `gateway`: weak fairness of each
slot's handler, a client that hangs gives up, and the administrator keeps trying while
maintenance is on.  Node runs the continuation of every answered call, so a handler
that can take its next step takes it.  Nothing is assumed about other clients and
administrators: they may stop at any time.

## 4. What is proved

All theorems hold for every value of the constants that satisfies the named assumptions
of the modules.

* `LoginAttempt_proofs`: `TypeCorrect`; `AttemptsCorrect` (the counter never exceeds the
  wrong passwords answered, in all interleavings); `LimitCorrect` (the limit holds when
  logins do not overlap); `ExactCorrect` and `LockStays` (serial: the counter is exact, and
  a lock lasts); `LockoutImplemented` (refinement of `PasswordLockout`).  The counter alone is not inductive: a handler between `IncRead` and `IncWrite` holds a
  number that it is going to store.  The invariant bounds that copy as well by the number
  of requests counted, and for serial logins makes counter, copies and answers agree.
* `RoleUsers_proofs`: `TypeCorrect`, `KeysUnique` (all interleavings), `RolesExist`
  (serial), `ChecksAreComplete` (serial) and `ReferencesImplemented` (serial refinement).
  Type correctness is not inductive alone: that a body's permissions exist is known only to a
  request past `CheckPermissions`, so the invariant relates `pc`, `call` and `role`.
  `RolesExist` and `ChecksAreComplete` add what each guard and check has established for
  the request under way: the role found is there, the role to be deleted is unused, the
  keys of the body are free.
* `Authorization_proofs`: of `Claims`, `ClaimsStayCurrent` and `ClaimsTypeCorrect`.  They rest
  on the refinement of `RoleReferences`: a step either leaves a user and what his role grants
  as they are or removes him, and no id is given a second time.  The invariant says so of every
  token and of every log-in under way.  Of requests with tokens, `AuthImplementsClaims` (admission by tokens only removes behaviours,
  so what was proved of `Claims` holds), and `RightsHold`.  Its invariant: the token of a
  request under way is one that was issued, its copy of the role is true as long as its user
  exists, and it passed the guards; what the guards saw is then what the role still says.
* `Session_proofs`: `TypeCorrect`, `SessionsEnd`, `NeverAGap`, `RevocationCorrect`.  The
  invariant keeps the refresh token as old as its login, every access token younger than
  its login by less than a refresh life, the first access token in place while it lives,
  and tokens no younger than the account and the role have been down.
* `Migration_proofs`: `TypesCorrect`; `ReferencesHold` (roles before users, permissions before roles: a
  chain removes in the opposite order of the references, and what a seed has read stays
  stored until it is written; the invariant says at which rest of a chain which collection is
  already empty); `RecoveryCorrect` (a removal under way has emptied the collections of
  the commands it is past; a seed on empty collections meets none of its own names);
  `SeedsComplete` (`SeedWhole`: at each rest of a chain of seeds the collections of the
  commands behind it are whole; `ReadWhole`: what a seed has read is what is stored, and roles
  come and go together, so that one that is missing means that none is there); and
  `NeverResumed` (`LeftInv`: as long as a chain of seeds runs that did not start on empty
  collections, something is left that a command of its rest will meet and be refused for).
* `Gateway_proofs`: `LastIssueCorrect` (every row is of one issue, hash and keys alike, and
  somebody has that issue or lost it with his process), `AcceptedCorrect` and `HangsCorrect`
  (a request remembers what its key's row has said since it was sent, and the row the
  strategy works on is one of those: if the credentials were current throughout, that row
  decrypts them, so that only a garbled payload or the failed query is left to hang it).
* `Upload_proofs`: `SettingCorrect`; `PhotoCorrect` (the file of an upload that is past the
  pipes is fit, and the object is in the bucket once its handler is about to record it);
  `OrphansCorrect` (before any fault, an object is recorded or some handler still holds its
  name: a handler is never dropped by a timeout); `GatewayTypesCorrect`, whose invariant says
  which data a slot on each route carries at each step, and that an upload's name is one
  of those already given out; and `PipesCorrect`, by lemmas that say what each pipe and a row of
  pipes let pass, for files of any number, size, type and rows.  The first pipe that
  throws is found by well-founded induction on the place, in the form of a least element.
  `OneAnswer`: the property is inductive once it is known that a free slot works for nobody, that a
  request is given a free slot (the least one), and that whatever a handler throws ends as a status.
  `SlotsAreEnough` shows that the bound `Slots` leaves out no behaviour: handlers that work for
  nobody are no more than the timeouts (`OrphansFew`), the others are as many as the clients that
  wait (an injection, by `OneAnswerEach`), so that a client that does not wait finds a
  free slot as long as `GatewayAssumption` leaves one for each client and timeout.
* `Listing_proofs`:
  - `ListTypesCorrect` and `LinksCorrect`, by lemmas about what the DTO makes of any integer, the
    skip it leads to and the pages it is counted into.
  - `InsertsSafe` and `RemovalsSafe`.  Where a client stands among rows that move is said by the
    *rank* of a row, the number of matching rows from it to the newest (`Rank`); a page is the set of
    rows with ranks of an interval, whatever the collection (`OnPage`).  An insert
    only raises ranks, a removal only lowers them (nobody is inserted behind the newest).  So
    as long as nothing is removed, the rows that were there from the start and whose rank is
    up to the end of the last page have been seen (`NeverHidden`); as long as nothing is
    added, the rows seen that are still there have ranks up to that end (`NeverTwice`), and the
    next page, which starts behind it, has none of them.  The invariants of the run alone are
    not inductive: they speak of what was seen, not of where it stands now.
  - `TwinsCorrect`: each query of one class equals its twin on any collection with ids both can
    store (`SameReads` … `SameByIds`), and the reachable ones are such (`ListTyped`).

The assumptions used: `LoginAssumption` and the like, one per module.  They ask of the
constants only what the code gives them: sets of requests, clients and slots that are finite,
statuses that differ from no answer, seeds
that respect the types and the indexes, `NotBefore <= AccessLife` (`Session`), a form field
that is an empty array or has a first file (`Upload`), limits of files that are numbers
(`Files`), codes of permissions that are an enum's values, each once (`Migration`), caps and
defaults of pages that are positive, with the defaults within the caps (`Pagination`), and
queries that are numbers or absent (`Listing`).  Bounds such as `MaxDocs`, `MaxWrites`,
`MaxChains` and `MaxUploads` are any natural numbers.

What the proofs changed in the models: `Ordinary` and `LinksCanBeFollowed` were said too widely
(their exceptions are above, under Listing; the values TLC was given did not meet them), and
`FileValidationPipe` is now given what the pipe before it extracted.  `Set` and the
creates of the repositories are written with `Over` in place of `@@`, which the provers
do not know.

Only model-checked: the liveness properties `EveryLoginAnswered`, `WalkEnds` and
`MaintenanceEnds`, since liveness under fairness is out of the prover's reach.  The properties of
the four violation runs are false and have no theorem; where a weaker one
holds it is proved (`LimitCorrect`, `RolesExist`: requests one after the other; `SessionsEnd`:
lifetimes in the unit of the library).  Every other property of a run is a theorem.

## 5. Where the program and its words part

Each is a violation run, quoted in `PROJECT.json` "findings": the limit on wrong
passwords under overlapping logins; roles deleted under a new user; lifetimes a thousand
times too long; lists that are always descending.

Seen on the way and not given a run: an e-mail is searched as an unanchored regular
expression, so that one nobody has may be refused as used (user.service.ts:144); an update
of a role that was deleted after the guards is answered "Update Succeed"
(role.admin.controller.ts:226); with `payloadEncryption` the guard unwraps the payload twice
and refuses every token (auth.jwt-access.strategy.ts:34; `Readable` in `Session`); the rate
limiter never limits; restores restore nothing; the total of the list of roles ignores the
search; `PaginationFilterString` turns the option for lower case into upper
case (pagination.decorator.ts:226, used by no DTO); a request for /hello-api-key with superseded
credentials, with a payload nobody can read, or whose query fails, hangs or ends the process
(api-key.strategy.ts:37-63), though the guard has a 401 for the first two; `ApiKeyService.create` and `updateHashById` return the secret but no `key`
(api-key.service.ts:130, 205): whoever is to use it must learn the key otherwise.

## 6. Not modelled

* Messages and languages, documentation decorators, serialization classes: wording and layout.
* Health probes, log files, HTTP debugger, and the rows of the request log: written, and
  read by nothing in the program.
* Users: `updateName` (two fields nothing depends on), the export (reads all rows), and
  the import beyond its pipes (it stores nothing).
* S3 beyond `putItemInBucket`: no caller.
* Helpers that wrap libraries: dates, hashing, random text, AES, bcrypt.
* The other middlewares (CORS, body parser, helmet, version, language): they decorate the
  request and answer, and decide on nothing that is modelled.

Next, in this order: abstract specifications, with refinements proved, for the sessions (a lease
that ends) and the photos (a store that never names what it does not have); restores with
`$unset` and multipart uploads, once something calls them.
