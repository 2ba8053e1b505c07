-------------------------- MODULE ObjectIdRepository --------------------------
(***************************************************************************)
(* The queries of DatabaseMongoObjectIdRepositoryAbstract, the twin of the *)
(* class modelled by Repository for collections whose _id is an ObjectId.  *)
(* Where the twin takes a list of ids it converts each of them first, and  *)
(* a text that is no ObjectId throws before anything is asked.             *)
(***************************************************************************)
EXTENDS Absent, Integers, SequencesExt

CONSTANTS Tags,
          Castable \* the texts new Types.ObjectId takes

R == INSTANCE Repository

Live(c) == R!Visible(c, FALSE)
Gone(c) == R!Visible(c, TRUE)

\* ids.map((val) => new Types.ObjectId(val)): the ids, or nothing if one throws.
Converts(ids) == ids \subseteq Castable

Order(c, field, type, i, j) ==
    IF type = "ASC" THEN R!Ascending(c, field, i, j) ELSE R!Ascending(c, field, j, i)

FindAll(c, find, o) ==
    LET S == R!Matching(c, find, o.withDeleted)
        size == IF o.limit < 0 THEN -o.limit ELSE o.limit
        ordered == {q \in SetToSeqs(S) : \A m, n \in DOMAIN q :
                       m < n => Order(c, o.sort.field, o.sort.type, q[m], q[n])}
    IN IF o.skip < 0 THEN {Error}
       ELSE {SubSeq(q, o.skip + 1, IF o.skip + size > Len(q) THEN Len(q) ELSE o.skip + size) :
               q \in ordered}

FindOne(c, find, withDeleted) ==
    LET S == R!Matching(c, find, withDeleted) IN IF S = {} THEN {None} ELSE S

FindOneById(c, id, withDeleted) ==
    IF id \in DOMAIN c /\ c[id].deleted = withDeleted THEN id ELSE None

GetTotal(c, find, withDeleted) == Cardinality(R!Matching(c, find, withDeleted))

Exists(c, find, excludeId, withDeleted) ==
    IF Converts(excludeId) THEN \E i \in R!Matching(c, find, withDeleted) : i \notin excludeId
                           ELSE Error

Raw(c, isArray) == IF isArray THEN c ELSE Error

\* An _id is always set: the one of the options converted, or a new one.
Create(c, id, tag) ==
    CASE id \notin Castable -> Error
      [] id \in DOMAIN c -> c
      [] OTHER -> R!Over(c, [i \in {id} |-> R!NewDoc(tag)])

CreateMany(c, rows) ==
    IF Converts({rows[n].id : n \in DOMAIN rows}) THEN R!CreateMany(c, rows) ELSE Error

UpdateOneById(c, id, data) ==
    IF id \in Live(c) THEN [c EXCEPT ![id] = R!Over(data, @)] ELSE c

UpdateOne(c, find, data) ==
    LET S == R!Matching(c, find, FALSE)
    IN IF S = {} THEN {c} ELSE {[c EXCEPT ![i] = R!Over(data, @)] : i \in S}

UpdateMany(c, find, data) == R!Set(c, R!Matching(c, find, FALSE), data)

DeleteOne(c, find) == {R!Drop(c, S) : S \in R!AnyOf({i \in DOMAIN c : c[i].tag \in find})}

DeleteOneById(c, id) == R!Drop(c, {id})

DeleteManyByIds(c, ids) == IF Converts(ids) THEN R!Drop(c, ids \cap Live(c)) ELSE Error

\* Mutant: the bulk delete of the twin forgets that deleted documents are kept.
DeleteManyAll(c, find) == R!Drop(c, {i \in DOMAIN c : c[i].tag \in find})

DeleteMany(c, find) == R!Drop(c, R!Matching(c, find, FALSE))

SoftDeleteOneById(c, id) ==
    IF id \in Live(c) THEN [c EXCEPT ![id].deleted = TRUE] ELSE c

SoftDeleteOne(c, find) ==
    LET S == R!Matching(c, find, FALSE)
    IN IF S = {} THEN {c} ELSE {[c EXCEPT ![i].deleted = TRUE] : i \in S}

SoftDeleteManyByIds(c, ids) ==
    IF Converts(ids) THEN R!Set(c, ids \cap Live(c), [deleted |-> TRUE]) ELSE Error

SoftDeleteMany(c, find) == R!Set(c, R!Matching(c, find, FALSE), [deleted |-> TRUE])

RestoreOneById(c, id) == R!Set(c, {id} \cap Gone(c), R!Undefined)

RestoreOne(c, find) == Error

RestoreManyByIds(c, ids) ==
    IF Converts(ids) THEN R!Set(c, ids \cap Gone(c), R!Undefined) ELSE Error

RestoreMany(c, find) == R!Set(c, R!Matching(c, find, TRUE), R!Undefined)
=============================================================================
