------------------------------- MODULE Listing -------------------------------
(***************************************************************************)
(* The list handlers of users, roles, permissions and settings: a query is *)
(* turned into a filter, an order and a page, the rows of the page are     *)
(* read, then their total in a second query, and the answer carries links  *)
(* to other pages.  A client walks: it asks for a first page and follows   *)
(* nextPage while there is one.  Between any two queries other callers of  *)
(* the repository write.                                                   *)
(***************************************************************************)
EXTENDS Repository, Pagination

CONSTANTS Queries,    \* what clients ask for, and of which list
          ActiveTags, \* the tags of the documents whose isActive is true
          Seeds,      \* the collections to start from
          MaxDocs,    \* bound: documents ever created
          MaxWrites   \* bound: calls that write

Oid == INSTANCE ObjectIdRepository WITH Castable <- 1..MaxDocs

VARIABLES docs,    \* the collection: id -> document
          created, \* the number of ids given
          writes,  \* the number of writing calls
          walk     \* the client, its request in progress and what it has seen

vars == <<docs, created, writes, walk>>

ASSUME ListingAssumption ==
    /\ Tags \subseteq Nat /\ ActiveTags \subseteq Tags
    /\ MaxDocs \in Nat /\ MaxWrites \in Nat
    /\ \A c \in Seeds : \E n \in 0..MaxDocs : c \in [1..n -> Doc]
    /\ \A q \in Queries :
          /\ q.list \in {"user", "role", "permission", "setting"}
          /\ {q.page, q.perPage} \subseteq Int \cup {None}
          /\ q.search = None \/ q.search \subseteq Tags

Idle == [pc |-> "idle", query |-> None, page |-> 0, perPage |-> 0,
         rows |-> << >>, seen |-> << >>, start |-> {}, added |-> FALSE, gone |-> FALSE,
         capped |-> FALSE]

Init ==
    /\ docs \in Seeds
    /\ created = Cardinality(DOMAIN docs)
    /\ writes = 0
    /\ walk = Idle
-----------------------------------------------------------------------------
(* The handlers: what each list looks for, and what it counts *)

UserFind(q) == DtoSearch(q.search, Tags)

SettingFind(q) == DtoSearch(q.search, Tags)

RoleFind(q) == DtoSearch(q.search, Tags)

PermissionFind(q) ==
    LET isActive == DtoFilterBoolean(q.isActive, BOOLEAN)
    IN {t \in DtoSearch(q.search, Tags) : (t \in ActiveTags) \in isActive}

Find(q) ==
    CASE q.list = "user" -> UserFind(q)
      [] q.list = "role" -> RoleFind(q)
      [] q.list = "permission" -> PermissionFind(q)
      [] q.list = "setting" -> SettingFind(q)

\* The list of roles counts all roles, whatever was searched for.
TotalFind(q) == IF q.list = "role" THEN Tags ELSE Find(q)

\* A client asks for a first page; the DTO is built before the handler runs.
Ask(q) ==
    /\ walk.pc = "idle"
    /\ walk' = [Idle EXCEPT !.pc = IF DtoSort(q.sort) = None THEN "failed" ELSE "rows",
                            !.query = q,
                            !.page = DtoPage(q.page), !.perPage = DtoPerPage(q.perPage),
                            !.start = Matching(docs, Find(q), FALSE)]
    /\ UNCHANGED <<docs, created, writes>>

Options(w) == [withDeleted |-> FALSE, limit |-> w.perPage, skip |-> Skip(w.page, w.perPage),
               sort |-> DtoSort(w.query.sort)]

ReadRows ==
    /\ walk.pc = "rows"
    /\ \E rows \in FindAll(docs, Find(walk.query), Options(walk)) :
          walk' = IF rows = Error THEN [walk EXCEPT !.pc = "failed"]
                                  ELSE [walk EXCEPT !.pc = "total", !.rows = rows]
    /\ UNCHANGED <<docs, created, writes>>

\* The total, the answer, and the client that follows its nextPage.
ReadTotal ==
    LET total == GetTotal(docs, TotalFind(walk.query), FALSE)
        next == Links(walk.page, TotalPage(total, walk.perPage)).nextPage
    IN /\ walk.pc = "total"
       /\ walk' = [walk EXCEPT !.pc = IF next = None THEN "done" ELSE "rows",
                               !.page = IF next = None THEN @ ELSE DtoPage(next),
                               !.perPage = DtoPerPage(@),
                               !.rows = << >>,
                               !.seen = @ \o walk.rows,
                               !.capped = @ \/ total > MaxPage * walk.perPage]
       /\ UNCHANGED <<docs, created, writes>>

-----------------------------------------------------------------------------
(* The other callers of the repository *)

Writes(c, new, added, gone) ==
    /\ writes < MaxWrites /\ walk.pc \in {"idle", "rows", "total"}
    /\ docs' = c
    /\ created' = created + new
    /\ writes' = writes + 1
    /\ walk' = IF walk.pc # "idle"
                 THEN [walk EXCEPT !.added = @ \/ added, !.gone = @ \/ gone] ELSE walk

Insert == \E t \in Tags :
    /\ created < MaxDocs
    /\ Writes(Create(docs, created + 1, t), 1, TRUE, FALSE)

\* A bulk insert of a new document and of one that may be there already, in any order.
InsertMany == \E t \in Tags, known \in 1..(created + 1), first \in BOOLEAN :
    LET new == [id |-> created + 1, tag |-> t]
        other == [id |-> known, tag |-> t]
    IN /\ created < MaxDocs
       /\ Writes(CreateMany(docs, IF first THEN <<new, other>> ELSE <<other, new>>), 1, TRUE, FALSE)

Update == \E t \in Tags :
    \E c \in {UpdateOneById(docs, i, [tag |-> t]) : i \in 1..MaxDocs}
             \cup (UNION {UpdateOne(docs, f, [tag |-> t]) : f \in SUBSET Tags})
             \cup {UpdateMany(docs, f, [tag |-> t]) : f \in SUBSET Tags} :
        c # docs /\ Writes(c, 0, TRUE, TRUE)

SoftDelete ==
    \E c \in {SoftDeleteOneById(docs, i) : i \in 1..MaxDocs}
             \cup (UNION {SoftDeleteOne(docs, f) : f \in SUBSET Tags})
             \cup {SoftDeleteManyByIds(docs, S) : S \in SUBSET (1..MaxDocs)}
             \cup {SoftDeleteMany(docs, f) : f \in SUBSET Tags} :
        c # docs /\ Writes(c, 0, FALSE, TRUE)

Delete ==
    \E c \in {DeleteOneById(docs, i) : i \in 1..MaxDocs}
             \cup (UNION {DeleteOne(docs, f) : f \in SUBSET Tags})
             \cup {DeleteManyByIds(docs, S) : S \in SUBSET (1..MaxDocs)}
             \cup {DeleteMany(docs, f) : f \in SUBSET Tags} :
        c # docs /\ Writes(c, 0, FALSE, TRUE)

\* A restore finds the deleted documents and leaves them deleted.
Restore ==
    \E c \in {RestoreOneById(docs, i) : i \in DOMAIN docs}
             \cup {RestoreManyByIds(docs, S) : S \in SUBSET (DOMAIN docs)}
             \cup {RestoreMany(docs, f) : f \in SUBSET Tags} :
        Writes(c, 0, FALSE, FALSE)

Handlers == ReadRows \/ ReadTotal

Next ==
    \/ \E q \in Queries : Ask(q)
    \/ Handlers
    \/ Insert \/ InsertMany \/ Update \/ SoftDelete \/ Delete \/ Restore

Spec == Init /\ [][Next]_vars

\* A request that was accepted is carried on by the server, and a client that
\* walks asks for the next page.
FairSpec == Spec /\ WF_vars(Handlers)
-----------------------------------------------------------------------------
(* Properties *)

\* Types: the answers list documents that were created, on pages the query may name.
ListTypeOK ==
    /\ DOMAIN docs \subseteq 1..created
    /\ docs \in [DOMAIN docs -> Doc]
    /\ created \in 0..MaxDocs /\ writes \in 0..MaxWrites
    /\ walk.pc \in {"idle", "rows", "total", "done", "failed"}
    /\ ToSet(walk.seen \o walk.rows) \subseteq 1..created
    /\ walk.page <= MaxPage /\ walk.perPage <= MaxPerPage

\* The walk started at the first row, with pages of a positive size, and by a key
\* no two rows share.
Ordinary(w) ==
    /\ DtoPage(w.query.page) = 1
    /\ w.perPage > 0
    /\ DtoSort(w.query.sort).field = "createdAt"

\* Documents created while a client walks through a list never hide another from it:
\* if nothing was changed or removed, every row that was there from the start has been
\* listed, though skip, limit and total are computed from three different moments
\* (UserAdminController.list and its twins).
InsertsNeverHide ==
    walk.pc = "done" /\ Ordinary(walk) /\ ~walk.gone /\ ~walk.capped =>
        walk.start \subseteq ToSet(walk.seen)

\* Documents removed while a client walks never make another appear twice: if nothing
\* was created or changed, no row is listed on two pages.
RemovalsNeverRepeat ==
    walk.pc \in {"rows", "total", "done"} /\ ~walk.added =>
        (Ordinary(walk) => IsInjective(walk.seen \o walk.rows))

\* Every link of an answer can be followed: its page is one the DTO takes as it is,
\* and its skip is one the database accepts, whatever page and perPage were asked for,
\* with one exception: after page -1 with a negative perPage comes page 0, for which the DTO
\* takes its default (ResponsePagingInterceptor against PaginationPage and
\* PaginationService.skip).
LinksCanBeFollowed ==
    walk.pc = "total" =>
        LET total == GetTotal(docs, TotalFind(walk.query), FALSE)
            links == Links(walk.page, TotalPage(total, walk.perPage))
        IN \A page \in Range(links) \ {None} :
              /\ DtoPage(page) = page \/ (page = 0 /\ walk.page = -1 /\ walk.perPage < 0)
              /\ Skip(page, DtoPerPage(walk.perPage)) >= 0

\* A walk ends, also while documents are created faster than pages are read: the caps of
\* PaginationService.totalPage and of the DTO agree.
WalkEnds == walk.pc = "rows" ~> walk.pc \in {"done", "failed"}

\* The rows of a page come in the order the client asked for.
SortHonoured ==
    walk.pc = "total" /\ Ordinary(walk) /\ DtoSort(walk.query.sort).type = "1" =>
        \A m, n \in DOMAIN walk.rows : m < n => walk.rows[m] <= walk.rows[n]

\* The two repository classes answer every query alike, and leave the same documents,
\* on ids both of them can store.
TwinsAgree ==
    walk.pc = "idle" =>
    /\ \A find \in SUBSET Tags, deleted \in BOOLEAN :
          /\ \A type \in {"ASC", "DESC"}, field \in {"createdAt", "tag"}, skip \in {-1, 0, 1} :
                LET o == [withDeleted |-> deleted, limit |-> 2, skip |-> skip,
                          sort |-> [field |-> field, type |-> type]]
                IN FindAll(docs, find, o) = Oid!FindAll(docs, find, o)
          /\ FindOne(docs, find, deleted) = Oid!FindOne(docs, find, deleted)
          /\ GetTotal(docs, find, deleted) = Oid!GetTotal(docs, find, deleted)
          /\ \A S \in SUBSET DOMAIN docs :
                Exists(docs, find, S, deleted) = Oid!Exists(docs, find, S, deleted)
    /\ \A id \in 1..MaxDocs, t \in Tags :
          /\ \A deleted \in BOOLEAN :
                FindOneById(docs, id, deleted) = Oid!FindOneById(docs, id, deleted)
          /\ Create(docs, id, t) = Oid!Create(docs, id, t)
          /\ UpdateOneById(docs, id, [tag |-> t]) = Oid!UpdateOneById(docs, id, [tag |-> t])
          /\ DeleteOneById(docs, id) = Oid!DeleteOneById(docs, id)
          /\ SoftDeleteOneById(docs, id) = Oid!SoftDeleteOneById(docs, id)
          /\ RestoreOneById(docs, id) = Oid!RestoreOneById(docs, id)
          /\ LET rows == <<[id |-> id, tag |-> t], [id |-> 1, tag |-> t]>>
             IN CreateMany(docs, rows) = Oid!CreateMany(docs, rows)
    /\ \A find \in SUBSET Tags, t \in Tags :
          /\ UpdateOne(docs, find, [tag |-> t]) = Oid!UpdateOne(docs, find, [tag |-> t])
          /\ UpdateMany(docs, find, [tag |-> t]) = Oid!UpdateMany(docs, find, [tag |-> t])
          /\ DeleteOne(docs, find) = Oid!DeleteOne(docs, find)
          /\ DeleteMany(docs, find) = Oid!DeleteMany(docs, find)
          /\ SoftDeleteOne(docs, find) = Oid!SoftDeleteOne(docs, find)
          /\ SoftDeleteMany(docs, find) = Oid!SoftDeleteMany(docs, find)
          /\ RestoreOne(docs, find) = Oid!RestoreOne(docs, find)
          /\ RestoreMany(docs, find) = Oid!RestoreMany(docs, find)
    /\ \A ids \in SUBSET (1..created) :
          /\ DeleteManyByIds(docs, ids) = Oid!DeleteManyByIds(docs, ids)
          /\ SoftDeleteManyByIds(docs, ids) = Oid!SoftDeleteManyByIds(docs, ids)
          /\ RestoreManyByIds(docs, ids) = Oid!RestoreManyByIds(docs, ids)
    /\ \A isArray \in BOOLEAN : Raw(docs, isArray) = Oid!Raw(docs, isArray)
=============================================================================
