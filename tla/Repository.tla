------------------------------ MODULE Repository ------------------------------
(***************************************************************************)
(* The queries of DatabaseMongoUUIDRepositoryAbstract, the class every     *)
(* repository of the program extends, as functions of a collection: a      *)
(* function from the ids that are stored to their documents.               *)
(*                                                                         *)
(* Ids are numbered in the order of creation, so an id also stands for     *)
(* createdAt and for the other unique keys of its document.  A filter is   *)
(* the set of the tags it accepts; a document carries one tag.  Where a    *)
(* query may take any of several documents the result is the set of what   *)
(* it may do.  select, join and session choose fields, copies and a        *)
(* transaction no caller opens, and are left out.                          *)
(***************************************************************************)
EXTENDS Absent, Integers, SequencesExt

CONSTANT Tags \* what filters and sorts tell documents apart by

\* A document of a collection; `deleted` stands for the presence of deletedAt.
Doc == [tag: Tags, deleted: BOOLEAN]

NewDoc(tag) == [tag |-> tag, deleted |-> FALSE]

\* where(deletedAt).exists(withDeleted): with the option, the deleted ones only.
Visible(c, withDeleted) == {i \in DOMAIN c : c[i].deleted = withDeleted}

Matching(c, find, withDeleted) == {i \in Visible(c, withDeleted) : c[i].tag \in find}

\* What f says, and what g says where f says nothing.
Over(f, g) == [x \in DOMAIN f \cup DOMAIN g |-> IF x \in DOMAIN f THEN f[x] ELSE g[x]]

\* { $set: data } on the documents of S.
Set(c, S, data) == [i \in DOMAIN c |-> IF i \in S THEN Over(data, c[i]) ELSE c[i]]

Drop(c, S) == Restrict(c, DOMAIN c \ S)

\* The documents one of which a findOne... call takes.
AnyOf(S) == IF S = {} THEN {{}} ELSE {{i} : i \in S}

\* What mongoose leaves of { deletedAt: undefined } in a $set: nothing.
Undefined == [f \in {} |-> f]
-----------------------------------------------------------------------------
(* Reads *)

ConvertSort(type) == IF type = "ASC" THEN 1 ELSE -1

Ascending(c, field, i, j) == IF field = "createdAt" THEN i <= j ELSE c[i].tag <= c[j].tag

\* The orders in which the database may return the documents of S: ties are free.
Sorted(c, S, sort) ==
    {q \in SetToSeqs(S) : \A m, n \in DOMAIN q :
        m < n => IF ConvertSort(sort.type) = 1 THEN Ascending(c, sort.field, q[m], q[n])
                                               ELSE Ascending(c, sort.field, q[n], q[m])}

\* The database refuses a negative skip, and takes a negative limit for its size.
FindAll(c, find, o) ==
    LET size == IF o.limit < 0 THEN -o.limit ELSE o.limit
        upto(q) == IF o.skip + size > Len(q) THEN Len(q) ELSE o.skip + size
    IN IF o.skip < 0 THEN {Error}
       ELSE {SubSeq(q, o.skip + 1, upto(q)) :
               q \in Sorted(c, Matching(c, find, o.withDeleted), o.sort)}

FindOne(c, find, withDeleted) ==
    LET S == Matching(c, find, withDeleted) IN IF S = {} THEN {None} ELSE S

FindOneById(c, id, withDeleted) == IF id \in Visible(c, withDeleted) THEN id ELSE None

GetTotal(c, find, withDeleted) == Cardinality(Matching(c, find, withDeleted))

Exists(c, find, excludeId, withDeleted) == Matching(c, find, withDeleted) \ excludeId # {}

\* Nothing but an array is a pipeline; what is one goes to the database.
Raw(c, isArray) == IF isArray THEN c ELSE Error
-----------------------------------------------------------------------------
(* Writes *)

\* A unique index refuses a key that is taken, by a deleted document too.
Create(c, id, tag) == IF id \in DOMAIN c THEN c ELSE Over(c, [i \in {id} |-> NewDoc(tag)])

\* insertMany goes in order and stops at the first document that is refused.
CreateMany(c, rows) ==
    LET taken(n) == rows[n].id \in DOMAIN c \/ \E m \in 1..(n - 1) : rows[m].id = rows[n].id
        stored == {n \in DOMAIN rows : \A m \in 1..n : ~taken(m)}
        row(i) == rows[CHOOSE n \in stored : rows[n].id = i]
    IN Over(c, [i \in {rows[n].id : n \in stored} |-> NewDoc(row(i).tag)])

UpdateOneById(c, id, data) == Set(c, {id} \cap Visible(c, FALSE), data)

UpdateOne(c, find, data) == {Set(c, S, data) : S \in AnyOf(Matching(c, find, FALSE))}

UpdateMany(c, find, data) == Set(c, Matching(c, find, FALSE), data)

\* The two deletes of one document do not ask for deletedAt.
DeleteOne(c, find) == {Drop(c, S) : S \in AnyOf({i \in DOMAIN c : c[i].tag \in find})}

DeleteOneById(c, id) == Drop(c, {id})

DeleteManyByIds(c, ids) == Drop(c, ids \cap Visible(c, FALSE))

DeleteMany(c, find) == Drop(c, Matching(c, find, FALSE))

SoftDeleteOneById(c, id) == Set(c, {id} \cap Visible(c, FALSE), [deleted |-> TRUE])

SoftDeleteOne(c, find) ==
    {Set(c, S, [deleted |-> TRUE]) : S \in AnyOf(Matching(c, find, FALSE))}

SoftDeleteManyByIds(c, ids) == Set(c, ids \cap Visible(c, FALSE), [deleted |-> TRUE])

SoftDeleteMany(c, find) == Set(c, Matching(c, find, FALSE), [deleted |-> TRUE])

RestoreOneById(c, id) == Set(c, {id} \cap Visible(c, TRUE), Undefined)

\* findByIdAndUpdate is given the filter for an id, which no filter can be cast to.
RestoreOne(c, find) == Error

RestoreManyByIds(c, ids) == Set(c, ids \cap Visible(c, TRUE), Undefined)

RestoreMany(c, find) == Set(c, Matching(c, find, TRUE), Undefined)
=============================================================================
