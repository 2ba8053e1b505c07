---------------------------- MODULE Listing_proofs ----------------------------
(***************************************************************************)
(* Theorems about Listing: what a client that follows nextPage sees, while *)
(* others write, for every query, collection and cap of pages.             *)
(***************************************************************************)
EXTENDS Listing, SequenceTheorems, FiniteSetTheorems, TLAPS

\* The place of x in a list of M that starts at the newest row.
Rank(M, x) == Cardinality({y \in M : x <= y})

LEMMA IntervalFinite == ASSUME NEW n \in Nat PROVE IsFiniteSet(1..n) /\ Cardinality(1..n) = n
<1>1. 1 \in Int /\ n \in Int
  OBVIOUS
<1>2. IsFiniteSet(1..n) /\ Cardinality(1..n) = IF 1 > n THEN 0 ELSE n - 1 + 1
  BY <1>1, FS_Interval, Zenon
<1> QED
  BY <1>2

LEMMA IdsFinite ==
    ASSUME NEW n \in Nat, NEW M, M \subseteq 1..n
    PROVE  IsFiniteSet(M) /\ M \in SUBSET Nat
<1>1. IsFiniteSet(1..n) /\ M \in SUBSET (1..n)
  BY IntervalFinite
<1>2. IsFiniteSet(M)
  BY <1>1, FS_Subset
<1> QED
  BY <1>1, <1>2

LEMMA RankType ==
    ASSUME NEW M, IsFiniteSet(M), NEW x
    PROVE  Rank(M, x) \in Nat /\ Cardinality(M) \in Nat /\ Rank(M, x) <= Cardinality(M)
<1>1. {y \in M : x <= y} \subseteq M
  OBVIOUS
<1> QED
  BY <1>1, FS_CardinalityType, FS_Subset DEF Rank

LEMMA RankPositive ==
    ASSUME NEW M \in SUBSET Nat, IsFiniteSet(M), NEW x \in M
    PROVE  Rank(M, x) \in Nat /\ Rank(M, x) # 0
<1>1. {y \in M : x <= y} \subseteq M /\ x \in {y \in M : x <= y}
  OBVIOUS
<1> QED
  BY <1>1, FS_CardinalityType, FS_Subset, FS_EmptySet DEF Rank

\* A row moves towards the end of a list that grows, and towards its start as the list shrinks.
LEMMA RankMonotone ==
    ASSUME NEW M, NEW N, M \subseteq N, IsFiniteSet(N), NEW x
    PROVE  Rank(M, x) <= Rank(N, x)
<1>1. /\ {y \in M : x <= y} \subseteq {y \in N : x <= y}
      /\ {y \in N : x <= y} \subseteq N
  OBVIOUS
<1> QED
  BY <1>1, FS_Subset DEF Rank

\* The newest-first order of M.
Newest(q) == \A a, b \in DOMAIN q : a < b => q[b] <= q[a]

\* A list of M holds every row of M, each at its rank.
LEMMA Ranked ==
    ASSUME NEW M \in SUBSET Nat, IsFiniteSet(M), NEW q \in SetToSeqs(M)
    PROVE  /\ q \in [1..Cardinality(M) -> M]
           /\ \A x \in M : \E j \in 1..Cardinality(M) : q[j] = x
           /\ \A a, b \in 1..Cardinality(M) : q[a] = q[b] => a = b
           /\ Newest(q) => \A j \in 1..Cardinality(M) : Rank(M, q[j]) = j
<1> DEFINE c == Cardinality(M)
<1>1. c \in Nat
  BY FS_CardinalityType
<1>2. q \in [1..c -> M] /\ \A a, b \in 1..c : q[a] = q[b] => a = b
  BY DEF SetToSeqs
<1>3. q \in Injection(1..c, M)
  BY <1>2 DEF Injection, IsInjective
<1>4. IsFiniteSet(1..c) /\ Cardinality(1..c) = c
  BY <1>1, IntervalFinite
<1>5. q \in Surjection(1..c, M)
  BY <1>1, <1>3, <1>4, FS_Injection
<1>6. \A x \in M : \E j \in 1..c : q[j] = x
  BY <1>5 DEF Surjection
<1> HIDE DEF c
<1>7. ASSUME Newest(q), NEW j \in 1..c PROVE Rank(M, q[j]) = j
  <2> DEFINE T == {y \in M : q[j] <= y}
             f == [k \in 1..j |-> q[k]]
  <2>1. j \in Nat /\ 1..j \subseteq 1..c
    BY <1>1, <1>7
  <2>2. \A k \in 1..c : q[k] \in M /\ q[k] \in Int
    <3>1. \A y \in M : y \in Int
      OBVIOUS
    <3> HIDE DEF T, f
    <3> QED
      BY <1>2, <3>1
  <2>3. \A k \in 1..j : q[k] \in T
    BY <1>2, <1>7, <2>1, <2>2 DEF Newest
  <2>4. ASSUME NEW y \in T PROVE \E k \in 1..j : q[k] = y
    <3>1. PICK k \in 1..c : q[k] = y
      BY <1>6
    <3>2. k <= j
      BY <1>1, <1>2, <1>7, <2>2, <3>1 DEF Newest
    <3> QED
      BY <1>1, <3>1, <3>2
  <2>5. f \in [1..j -> T]
    BY <2>3
  <2>6. \A a, b \in 1..j : f[a] = f[b] => a = b
    BY <1>2, <2>1
  <2>7. \A y \in T : \E k \in 1..j : f[k] = y
    BY <2>4
  <2>8. f \in Bijection(1..j, T)
    BY <2>5, <2>6, <2>7, Zenon DEF Bijection, Injection, Surjection, IsInjective
  <2> HIDE DEF f, T
  <2>9. Cardinality(T) = j
    BY <2>1, <2>8, FS_CountingElements DEF ExistsBijection
  <2> QED
    BY <2>9 DEF T, Rank
<1> QED
  BY <1>2, <1>6, <1>7 DEF c
-----------------------------------------------------------------------------
(* The rows of a page *)

LEMMA ListLength ==
    ASSUME NEW M \in SUBSET Nat, IsFiniteSet(M), NEW q \in SetToSeqs(M)
    PROVE  q \in Seq(M) /\ Len(q) = Cardinality(M)
<1> DEFINE c == Cardinality(M)
<1>1. c \in Nat /\ q \in [1..c -> M]
  BY FS_CardinalityType, Ranked
<1> HIDE DEF c
<1>2. q \in Seq(M)
  BY <1>1
<1>3. Len(q) \in Nat /\ 1..Len(q) = 1..c
  BY <1>1, <1>2, LenProperties
<1>4. Len(q) = c
  BY <1>1, <1>3
<1> QED
  BY <1>2, <1>4 DEF c

PageOf(q, skip, size) ==
    SubSeq(q, skip + 1, IF skip + size > Len(q) THEN Len(q) ELSE skip + size)

\* The rows are those of the list after the skipped ones, as many as there are up to the size.
IsPage(rows, q, skip, size, card) ==
    /\ \A k \in 1..Len(rows) : skip + k \in 1..card /\ k <= size /\ rows[k] = q[skip + k]
    /\ \A j \in 1..card : skip < j /\ j <= skip + size => j - skip \in 1..Len(rows)

LEMMA PageOfList ==
    ASSUME NEW M \in SUBSET Nat, IsFiniteSet(M), NEW q \in SetToSeqs(M),
           NEW skip \in Nat, NEW size \in Nat, NEW rows, rows = PageOf(q, skip, size)
    PROVE  rows \in Seq(M) /\ IsPage(rows, q, skip, size, Cardinality(M))
<1> DEFINE c == Cardinality(M)
           last == IF skip + size > c THEN c ELSE skip + size
<1>1. c \in Nat /\ Len(q) = c /\ q \in [1..c -> M]
  BY FS_CardinalityType, ListLength, Ranked
<1>2. rows = SubSeq(q, skip + 1, last)
  BY <1>1 DEF PageOf
<1>3. skip + 1 \in Int /\ last \in Int /\ last <= c /\ last <= skip + size
      /\ (last = c \/ last = skip + size)
  BY <1>1
<1>4. \A i \in (skip + 1)..last : q[i] \in M
  <2>1. \A i \in (skip + 1)..last : i \in 1..c
    BY <1>1, <1>3
  <2> HIDE DEF c, last
  <2> QED
    BY <1>1, <2>1
<1> HIDE DEF c, last
<1>5. /\ rows \in Seq(M)
      /\ Len(rows) = IF skip + 1 <= last THEN last - (skip + 1) + 1 ELSE 0
      /\ \A i \in 1..(last - (skip + 1) + 1) : rows[i] = q[(skip + 1) + i - 1]
  <2> DEFINE first == skip + 1
  <2>1. first \in Int /\ last \in Int /\ \A i \in first..last : q[i] \in M
    BY <1>3, <1>4
  <2> HIDE DEF first
  <2>2. /\ SubSeq(q, first, last) \in Seq(M)
        /\ Len(SubSeq(q, first, last)) = IF first <= last THEN last - first + 1 ELSE 0
        /\ \A i \in 1..(last - first + 1) : SubSeq(q, first, last)[i] = q[first + i - 1]
    BY <2>1, SubSeqProperties
  <2> QED
    BY <1>2, <2>2 DEF first
<1>6. ASSUME NEW k \in 1..Len(rows)
      PROVE  skip + k \in 1..c /\ k <= size /\ rows[k] = q[skip + k]
  <2>1. k \in 1..(last - (skip + 1) + 1) /\ (skip + 1) + k - 1 = skip + k
    BY <1>1, <1>3, <1>5
  <2> QED
    BY <1>1, <1>3, <1>5, <2>1
<1>7. ASSUME NEW j \in 1..c, skip < j, j <= skip + size PROVE j - skip \in 1..Len(rows)
  BY <1>1, <1>3, <1>5, <1>7
<1> QED
  BY <1>5, <1>6, <1>7 DEF c, IsPage

LEMMA MatchingFinite ==
    ASSUME NEW c, IsFiniteSet(DOMAIN c), DOMAIN c \in SUBSET Nat, NEW find, NEW deleted
    PROVE  Matching(c, find, deleted) \in SUBSET Nat /\ IsFiniteSet(Matching(c, find, deleted))
<1>1. Matching(c, find, deleted) \subseteq DOMAIN c
  BY DEF Matching, Visible
<1> QED
  BY <1>1, FS_Subset

\* What a list returns, whatever its order: a page of an order of what matches, or an error.
LEMMA FindAllRows ==
    ASSUME NEW c, IsFiniteSet(DOMAIN c), DOMAIN c \in SUBSET Nat, NEW find, NEW o, o.limit \in Int,
           o.skip \in Int, NEW rows \in FindAll(c, find, o), rows # Error
    PROVE  /\ o.skip >= 0 /\ rows \in Seq(Matching(c, find, o.withDeleted))
           /\ \E q \in Sorted(c, Matching(c, find, o.withDeleted), o.sort) :
                 rows = PageOf(q, o.skip, IF o.limit < 0 THEN -o.limit ELSE o.limit)
<1> DEFINE M == Matching(c, find, o.withDeleted)
           size == IF o.limit < 0 THEN -o.limit ELSE o.limit
<1>1. M \in SUBSET Nat /\ IsFiniteSet(M)
  BY MatchingFinite
<1>2. o.skip >= 0
  BY DEF FindAll
<1>3. ~(o.skip < 0)
  BY <1>2
<1>4. PICK q \in Sorted(c, M, o.sort) :
         rows = PageOf(q, o.skip, size)
  BY <1>3, Zenon DEF FindAll, PageOf
<1>5. q \in SetToSeqs(M)
  BY Zenon DEF Sorted
<1>6. o.skip \in Nat /\ size \in Nat
  BY <1>2
<1> HIDE DEF M, size
<1>7. rows \in Seq(M)
  BY <1>1, <1>4, <1>5, <1>6, PageOfList
<1> QED
  BY <1>2, <1>4, <1>7 DEF M, size

\* The rows of a page of a list that is newest first: each once, and just those whose ranks are
\* on the page.
OnPage(rows, M, skip, size) ==
    /\ \A a, b \in 1..Len(rows) : rows[a] = rows[b] => a = b
    /\ \A a \in 1..Len(rows) :
          rows[a] \in M /\ skip < Rank(M, rows[a]) /\ Rank(M, rows[a]) <= skip + size
    /\ \A x \in M : skip < Rank(M, x) /\ Rank(M, x) <= skip + size
          => \E a \in 1..Len(rows) : rows[a] = x

LEMMA NewestPage ==
    ASSUME NEW M \in SUBSET Nat, IsFiniteSet(M), NEW q \in SetToSeqs(M), Newest(q),
           NEW skip \in Nat, NEW size \in Nat, NEW rows,
           rows = PageOf(q, skip, size)
    PROVE  OnPage(rows, M, skip, size)
<1> DEFINE card == Cardinality(M)
<1>1. card \in Nat
  BY FS_CardinalityType
<1>2. /\ q \in [1..card -> M]
      /\ \A x \in M : \E j \in 1..card : q[j] = x
      /\ \A a, b \in 1..card : q[a] = q[b] => a = b
      /\ \A j \in 1..card : Rank(M, q[j]) = j
  BY Ranked
<1>3. /\ rows \in Seq(M)
      /\ \A k \in 1..Len(rows) : skip + k \in 1..card /\ k <= size /\ rows[k] = q[skip + k]
      /\ \A j \in 1..card : skip < j /\ j <= skip + size => j - skip \in 1..Len(rows)
  <2>1. rows \in Seq(M) /\ IsPage(rows, q, skip, size, Cardinality(M))
    BY PageOfList
  <2> QED
    BY <2>1 DEF IsPage
<1> HIDE DEF card
<1>4. ASSUME NEW a \in 1..Len(rows), NEW b \in 1..Len(rows), rows[a] = rows[b] PROVE a = b
  <2>1. a \in Int /\ b \in Int
    BY <1>3, LenProperties
  <2>2. /\ skip + a \in 1..card /\ q[skip + a] = rows[a]
        /\ skip + b \in 1..card /\ q[skip + b] = rows[b]
    BY <1>3
  <2>3. skip + a = skip + b
    BY <1>2, <1>4, <2>2, Zenon
  <2> QED
    BY <2>1, <2>3
<1>5. ASSUME NEW a \in 1..Len(rows)
      PROVE  rows[a] \in M /\ skip < Rank(M, rows[a]) /\ Rank(M, rows[a]) <= skip + size
  <2>1. a \in Int /\ a >= 1
    BY <1>3, LenProperties
  <2>2. skip + a \in 1..card /\ a <= size /\ rows[a] = q[skip + a]
    BY <1>3
  <2>3. Rank(M, rows[a]) = skip + a /\ rows[a] \in M
    BY <1>2, <2>2
  <2> QED
    BY <2>1, <2>2, <2>3
<1>6. ASSUME NEW x \in M, skip < Rank(M, x), Rank(M, x) <= skip + size
      PROVE  \E a \in 1..Len(rows) : rows[a] = x
  <2>1. PICK j \in 1..card : q[j] = x
    BY <1>2
  <2>2. Rank(M, x) = j
    BY <1>2, <2>1
  <2>3. j - skip \in 1..Len(rows)
    BY <1>3, <1>6, <2>2
  <2>4. rows[j - skip] = q[skip + (j - skip)]
    BY <1>3, <2>3
  <2>5. skip + (j - skip) = j
    BY <1>1
  <2> QED
    BY <2>1, <2>3, <2>4, <2>5
<1> QED
  BY <1>4, <1>5, <1>6 DEF OnPage

LEMMA FindAllNewest ==
    ASSUME NEW c, IsFiniteSet(DOMAIN c), DOMAIN c \in SUBSET Nat, NEW find, NEW o, o.limit \in Nat,
           o.skip \in Int, o.sort.field = "createdAt", o.sort.type # "ASC",
           o.withDeleted = FALSE, NEW rows \in FindAll(c, find, o), rows # Error
    PROVE  OnPage(rows, Matching(c, find, FALSE), o.skip, o.limit)
<1> PICK M : M = Matching(c, find, FALSE)
  OBVIOUS
<1>1. M \in SUBSET Nat /\ IsFiniteSet(M)
  BY MatchingFinite
<1>2. o.skip \in Nat
  BY FindAllRows
<1>3. PICK q \in Sorted(c, M, o.sort) :
         rows = PageOf(q, o.skip, IF o.limit < 0 THEN -o.limit ELSE o.limit)
  <2> DEFINE P(W) == \E q \in Sorted(c, Matching(c, find, W), o.sort) :
         rows = PageOf(q, o.skip, IF o.limit < 0 THEN -o.limit ELSE o.limit)
  <2>1. P(o.withDeleted)
    BY FindAllRows
  <2> HIDE DEF P
  <2>2. P(FALSE)
    BY <2>1, Zenon
  <2> QED
    BY <2>2 DEF P
<1>4. rows = PageOf(q, o.skip, o.limit)
  <2>1. (IF o.limit < 0 THEN -o.limit ELSE o.limit) = o.limit
    OBVIOUS
  <2> QED
    BY <1>3, <2>1, Zenon
<1>5. q \in SetToSeqs(M)
  BY Zenon DEF Sorted
<1>6. Newest(q)
  <2>1. ConvertSort(o.sort.type) # 1
    BY DEF ConvertSort
  <2> QED
    BY <2>1 DEF Sorted, Ascending, Newest
<1>7. OnPage(rows, M, o.skip, o.limit)
  BY <1>1, <1>2, <1>4, <1>5, <1>6, NewestPage, Zenon
<1> QED
  BY <1>7
-----------------------------------------------------------------------------
(* The steps, one field of the walk at a time *)

Walk(pc, query, page, perPage, rows, seen, start, added, gone, capped) ==
    [pc |-> pc, query |-> query, page |-> page, perPage |-> perPage,
     rows |-> rows, seen |-> seen, start |-> start, added |-> added, gone |-> gone,
     capped |-> capped]

IsWalk(w) == w = Walk(w.pc, w.query, w.page, w.perPage, w.rows, w.seen, w.start, w.added,
                      w.gone, w.capped)

LEMMA WalkFields ==
    ASSUME NEW pc, NEW query, NEW page, NEW perPage, NEW rows, NEW seen, NEW start, NEW added,
           NEW gone, NEW capped, NEW w,
           w = Walk(pc, query, page, perPage, rows, seen, start, added, gone, capped)
    PROVE  /\ IsWalk(w)
           /\ w.pc = pc /\ w.query = query /\ w.page = page /\ w.perPage = perPage
           /\ w.rows = rows /\ w.seen = seen /\ w.start = start
           /\ w.added = added /\ w.gone = gone /\ w.capped = capped
BY DEF Walk, IsWalk

LEMMA AskFields ==
    ASSUME NEW q, Ask(q)
    PROVE  /\ IsWalk(walk')
           /\ walk.pc = "idle"
           /\ walk'.pc = IF DtoSort(q.sort) = None THEN "failed" ELSE "rows"
           /\ walk'.query = q
           /\ walk'.page = DtoPage(q.page) /\ walk'.perPage = DtoPerPage(q.perPage)
           /\ walk'.rows = << >> /\ walk'.seen = << >>
           /\ walk'.start = Matching(docs, Find(q), FALSE)
           /\ UNCHANGED <<docs, created, writes>>
<1> DEFINE a == IF DtoSort(q.sort) = None THEN "failed" ELSE "rows"
           b == DtoPage(q.page)
           c == DtoPerPage(q.perPage)
           d == Matching(docs, Find(q), FALSE)
<1>1. walk' = [Idle EXCEPT !.pc = a, !.query = q, !.page = b, !.perPage = c, !.start = d]
  BY DEF Ask
<1> HIDE DEF a, b, c, d
<1> PICK no : no = FALSE
  OBVIOUS
<1>2. Idle = Walk("idle", None, 0, 0, << >>, << >>, {}, no, no, no)
  BY DEF Idle, Walk
<1>3. walk' = Walk(a, q, b, c, << >>, << >>, d, no, no, no)
  BY <1>1, <1>2 DEF Walk
<1>4. IsWalk(walk') /\ walk'.pc = a /\ walk'.query = q /\ walk'.page = b /\ walk'.perPage = c
      /\ walk'.rows = << >> /\ walk'.seen = << >> /\ walk'.start = d
  BY <1>3, WalkFields
<1> QED
  BY <1>4 DEF Ask, a, b, c, d

LEMMA RowsFields ==
    ASSUME IsWalk(walk), ReadRows
    PROVE  /\ walk.pc = "rows"
           /\ IsWalk(walk')
           /\ walk'.query = walk.query /\ walk'.page = walk.page /\ walk'.perPage = walk.perPage
           /\ walk'.seen = walk.seen /\ walk'.start = walk.start
           /\ walk'.added = walk.added /\ walk'.gone = walk.gone
           /\ walk'.capped = walk.capped
           /\ \E rows \in FindAll(docs, Find(walk.query), Options(walk)) :
                 \/ rows = Error /\ walk'.pc = "failed" /\ walk'.rows = walk.rows
                 \/ rows # Error /\ walk'.pc = "total" /\ walk'.rows = rows
           /\ UNCHANGED <<docs, created, writes>>
<1> DEFINE F == FindAll(docs, Find(walk.query), Options(walk))
<1>1. PICK rows \in F :
         walk' = IF rows = Error THEN [walk EXCEPT !.pc = "failed"]
                                 ELSE [walk EXCEPT !.pc = "total", !.rows = rows]
  BY DEF ReadRows
<1> HIDE DEF F
<1>2. CASE rows = Error
  <2>1. walk' = Walk("failed", walk.query, walk.page, walk.perPage, walk.rows, walk.seen,
                     walk.start, walk.added, walk.gone, walk.capped)
    BY <1>1, <1>2 DEF IsWalk, Walk
  <2>2. IsWalk(walk')
    BY <2>1, WalkFields
  <2> QED
    BY <1>2, <2>1, <2>2, WalkFields DEF ReadRows, F
<1>3. CASE rows # Error
  <2>1. walk' = Walk("total", walk.query, walk.page, walk.perPage, rows, walk.seen,
                     walk.start, walk.added, walk.gone, walk.capped)
    BY <1>1, <1>3 DEF IsWalk, Walk
  <2>2. IsWalk(walk')
    BY <2>1, WalkFields
  <2> QED
    BY <1>3, <2>1, <2>2, WalkFields DEF ReadRows, F
<1> QED
  BY <1>2, <1>3

Total == GetTotal(docs, TotalFind(walk.query), FALSE)

NextPage == Links(walk.page, TotalPage(Total, walk.perPage)).nextPage

LEMMA TotalFields ==
    ASSUME IsWalk(walk), ReadTotal
    PROVE  /\ walk.pc = "total"
           /\ IsWalk(walk')
           /\ walk'.pc = IF NextPage = None THEN "done" ELSE "rows"
           /\ walk'.page = IF NextPage = None THEN walk.page ELSE DtoPage(NextPage)
           /\ walk'.perPage = DtoPerPage(walk.perPage)
           /\ walk'.query = walk.query
           /\ walk'.rows = << >> /\ walk'.seen = walk.seen \o walk.rows
           /\ walk'.start = walk.start
           /\ walk'.added = walk.added /\ walk'.gone = walk.gone
           /\ ~walk'.capped => ~(Total > MaxPage * walk.perPage)
           /\ UNCHANGED <<docs, created, writes>>
<1> DEFINE a == IF NextPage = None THEN "done" ELSE "rows"
           b == IF NextPage = None THEN walk.page ELSE DtoPage(NextPage)
           c == DtoPerPage(walk.perPage)
           d == walk.seen \o walk.rows
           over == Total > MaxPage * walk.perPage
<1> PICK e : e = (walk.capped \/ over)
  OBVIOUS
<1>1. walk' = [walk EXCEPT !.pc = a, !.page = b, !.perPage = c, !.rows = << >>, !.seen = d,
                           !.capped = e]
  BY Zenon DEF ReadTotal, NextPage, Total
<1>2. walk.pc = "total" /\ UNCHANGED <<docs, created, writes>>
  BY Zenon DEF ReadTotal
<1> HIDE DEF a, b, c, d
<1>3. walk' = Walk(a, walk.query, b, c, << >>, d, walk.start, walk.added, walk.gone, e)
  BY <1>1 DEF IsWalk, Walk
<1>4. IsWalk(walk')
  BY <1>3, WalkFields
<1>5. walk'.pc = a /\ walk'.page = b /\ walk'.perPage = c /\ walk'.query = walk.query
      /\ walk'.rows = << >> /\ walk'.seen = d /\ walk'.start = walk.start
      /\ walk'.added = walk.added /\ walk'.gone = walk.gone /\ walk'.capped = e
  BY <1>3, WalkFields
<1>6. ~walk'.capped => ~over
  BY <1>5, Zenon
<1> QED
  BY <1>2, <1>4, <1>5, <1>6, Zenon DEF a, b, c, d

\* A writing call marks the walk in progress, and changes nothing else of it.
LEMMA WritesFields ==
    ASSUME IsWalk(walk), NEW c, NEW new, NEW adds, NEW drops, Writes(c, new, adds, drops)
    PROVE  /\ IsWalk(walk')
           /\ walk'.pc = walk.pc /\ walk'.query = walk.query
           /\ walk'.page = walk.page /\ walk'.perPage = walk.perPage
           /\ walk'.rows = walk.rows /\ walk'.seen = walk.seen /\ walk'.start = walk.start
           /\ walk'.capped = walk.capped
           /\ walk.pc # "idle" /\ ~walk'.added => ~walk.added /\ ~adds
           /\ walk.pc # "idle" /\ ~walk'.gone => ~walk.gone /\ ~drops
           /\ walk.pc \in {"idle", "rows", "total"}
           /\ docs' = c /\ created' = created + new
           /\ writes' = writes + 1 /\ writes < MaxWrites
<1>1. /\ walk.pc \in {"idle", "rows", "total"} /\ docs' = c /\ created' = created + new
      /\ writes' = writes + 1 /\ writes < MaxWrites
  BY Zenon DEF Writes
<1>2. CASE walk.pc = "idle"
  <2>1. walk' = walk
    BY <1>2, Zenon DEF Writes
  <2> QED
    BY <1>1, <1>2, <2>1, Zenon
<1>3. CASE walk.pc # "idle"
  <2> PICK a : a = (walk.added \/ adds)
    OBVIOUS
  <2> PICK g : g = (walk.gone \/ drops)
    OBVIOUS
  <2>1. walk' = [walk EXCEPT !.added = a, !.gone = g]
    BY <1>3, Zenon DEF Writes
  <2>2. walk' = Walk(walk.pc, walk.query, walk.page, walk.perPage, walk.rows, walk.seen,
                     walk.start, a, g, walk.capped)
    BY <2>1 DEF IsWalk, Walk
  <2>3. IsWalk(walk')
    BY <2>2, WalkFields
  <2>4. /\ walk'.pc = walk.pc /\ walk'.query = walk.query
        /\ walk'.page = walk.page /\ walk'.perPage = walk.perPage
        /\ walk'.rows = walk.rows /\ walk'.seen = walk.seen /\ walk'.start = walk.start
        /\ walk'.capped = walk.capped /\ walk'.added = a /\ walk'.gone = g
    BY <2>2, WalkFields
  <2>5. (~walk'.added => ~walk.added /\ ~adds) /\ (~walk'.gone => ~walk.gone /\ ~drops)
    BY <2>4, Zenon
  <2> QED
    BY <1>1, <1>3, <2>3, <2>4, <2>5, Zenon
<1> QED
  BY <1>2, <1>3, Zenon
-----------------------------------------------------------------------------
(* What the queries that write leave *)

DocsOK(c, n) == DOMAIN c \subseteq 1..n /\ c \in [DOMAIN c -> Doc]

\* No row of any list comes, and none goes.
Shrinks(c, d) == \A find : Matching(d, find, FALSE) \subseteq Matching(c, find, FALSE)

Grows(c, d) == \A find : Matching(c, find, FALSE) \subseteq Matching(d, find, FALSE)

LEMMA DocFields ==
    ASSUME NEW d \in Doc
    PROVE  /\ d = [tag |-> d.tag, deleted |-> d.deleted]
           /\ d.tag \in Tags /\ d.deleted \in BOOLEAN /\ DOMAIN d = {"tag", "deleted"}
BY DEF Doc

LEMMA OverTag ==
    ASSUME NEW d \in Doc, NEW t \in Tags
    PROVE  Over([tag |-> t], d) \in Doc
BY DocFields DEF Over, Doc

LEMMA OverDeleted ==
    ASSUME NEW d \in Doc
    PROVE  /\ Over([deleted |-> TRUE], d) \in Doc
           /\ Over([deleted |-> TRUE], d).deleted = TRUE
BY DocFields DEF Over, Doc

LEMMA OverUndefined ==
    ASSUME NEW d \in Doc
    PROVE  Over(Undefined, d) = d
BY DocFields DEF Over, Undefined, Doc

LEMMA SetDocs ==
    ASSUME NEW n, NEW c, DocsOK(c, n), NEW S, NEW data,
           \A d \in Doc : Over(data, d) \in Doc
    PROVE  /\ DocsOK(Set(c, S, data), n) /\ DOMAIN Set(c, S, data) = DOMAIN c
           /\ \A i \in DOMAIN c : Set(c, S, data)[i] = IF i \in S THEN Over(data, c[i]) ELSE c[i]
<1>1. \A i \in DOMAIN c : (IF i \in S THEN Over(data, c[i]) ELSE c[i]) \in Doc
  BY DEF DocsOK
<1> QED
  BY <1>1 DEF DocsOK, Set

LEMMA DropDocs ==
    ASSUME NEW n, NEW c, DocsOK(c, n), NEW S
    PROVE  DocsOK(Drop(c, S), n) /\ Shrinks(c, Drop(c, S))
<1>1. DOMAIN Drop(c, S) = DOMAIN c \ S /\ \A i \in DOMAIN c \ S : Drop(c, S)[i] = c[i]
  BY DEF Drop, Restrict
<1>2. Drop(c, S) = [i \in DOMAIN c \ S |-> c[i]]
  BY DEF Drop, Restrict
<1>3. DocsOK(Drop(c, S), n)
  BY <1>1, <1>2 DEF DocsOK
<1>4. Shrinks(c, Drop(c, S))
  BY <1>1 DEF Shrinks, Matching, Visible
<1> QED
  BY <1>3, <1>4

LEMMA SoftDocs ==
    ASSUME NEW n, NEW c, DocsOK(c, n), NEW S
    PROVE  DocsOK(Set(c, S, [deleted |-> TRUE]), n) /\ Shrinks(c, Set(c, S, [deleted |-> TRUE]))
<1> PICK data : data = [deleted |-> TRUE]
  OBVIOUS
<1>1. \A d \in Doc : Over(data, d) \in Doc /\ Over(data, d).deleted = TRUE
  BY OverDeleted
<1>2. /\ DocsOK(Set(c, S, data), n) /\ DOMAIN Set(c, S, data) = DOMAIN c
      /\ \A i \in DOMAIN c : Set(c, S, data)[i] = IF i \in S THEN Over(data, c[i]) ELSE c[i]
  BY <1>1, SetDocs
<1>3. ASSUME NEW i \in DOMAIN c, Set(c, S, data)[i].deleted = FALSE
      PROVE  Set(c, S, data)[i] = c[i]
  <2>1. i \notin S
    BY <1>1, <1>2, <1>3 DEF DocsOK
  <2> QED
    BY <1>2, <2>1
<1>4. Shrinks(c, Set(c, S, data))
  BY <1>2, <1>3 DEF Shrinks, Matching, Visible
<1> QED
  BY <1>2, <1>4

LEMMA RestoredDocs ==
    ASSUME NEW n, NEW c, DocsOK(c, n), NEW S
    PROVE  Set(c, S, Undefined) = c
<1>1. \A i \in DOMAIN c : Over(Undefined, c[i]) = c[i]
  BY OverUndefined DEF DocsOK
<1>2. Set(c, S, Undefined) = [i \in DOMAIN c |-> c[i]]
  BY <1>1 DEF Set
<1> QED
  BY <1>2 DEF DocsOK

\* New documents, of ids nobody has, and of tags there are.
LEMMA NewDocs ==
    ASSUME NEW n \in Nat, NEW c, DocsOK(c, n), NEW f, DOMAIN f \subseteq 1..(n + 1),
           f \in [DOMAIN f -> Doc], DOMAIN f \cap DOMAIN c = {}
    PROVE  DocsOK(Over(c, f), n + 1) /\ Grows(c, Over(c, f))
<1>1. DOMAIN Over(c, f) = DOMAIN c \cup DOMAIN f
  BY DEF Over
<1>2. \A i \in DOMAIN c : Over(c, f)[i] = c[i]
  BY DEF Over
<1>3. \A i \in DOMAIN f \ DOMAIN c : Over(c, f)[i] = f[i]
  BY DEF Over
<1>4. \A i \in DOMAIN c \cup DOMAIN f : Over(c, f)[i] \in Doc
  BY <1>2, <1>3 DEF DocsOK
<1>5. DOMAIN c \cup DOMAIN f \subseteq 1..(n + 1)
  BY DEF DocsOK
<1>6. DocsOK(Over(c, f), n + 1)
  BY <1>1, <1>4, <1>5 DEF DocsOK, Over
<1>7. Grows(c, Over(c, f))
  BY <1>1, <1>2 DEF Grows, Matching, Visible
<1> QED
  BY <1>6, <1>7

LEMMA CreateDocs ==
    ASSUME NEW n \in Nat, NEW c, DocsOK(c, n), NEW t \in Tags
    PROVE  DocsOK(Create(c, n + 1, t), n + 1) /\ Grows(c, Create(c, n + 1, t))
<1> DEFINE f == [i \in {n + 1} |-> NewDoc(t)]
<1>1. n + 1 \notin DOMAIN c
  BY DEF DocsOK
<1>2. Create(c, n + 1, t) = Over(c, f)
  BY <1>1 DEF Create
<1>3. NewDoc(t) \in Doc
  BY DEF NewDoc, Doc
<1>4. DOMAIN f \subseteq 1..(n + 1) /\ f \in [DOMAIN f -> Doc] /\ DOMAIN f \cap DOMAIN c = {}
  BY <1>1, <1>3
<1> HIDE DEF f
<1> QED
  BY <1>2, <1>4, NewDocs

LEMMA CreateManyDocs ==
    ASSUME NEW n \in Nat, NEW c, DocsOK(c, n), NEW rows, NEW known \in 1..(n + 1), NEW t \in Tags,
           DOMAIN rows \subseteq Nat \ {0},
           \A m \in DOMAIN rows : rows[m].id \in {known, n + 1} /\ rows[m].tag = t
    PROVE  DocsOK(CreateMany(c, rows), n + 1) /\ Grows(c, CreateMany(c, rows))
<1> DEFINE taken(m) == rows[m].id \in DOMAIN c \/ \E k \in 1..(m - 1) : rows[k].id = rows[m].id
           stored == {m \in DOMAIN rows : \A k \in 1..m : ~taken(k)}
           row(i) == rows[CHOOSE m \in stored : rows[m].id = i]
           f == [i \in {rows[m].id : m \in stored} |-> NewDoc(row(i).tag)]
<1>1. CreateMany(c, rows) = Over(c, f)
  BY DEF CreateMany
<1>2. \A m \in stored : m \in DOMAIN rows /\ rows[m].id \notin DOMAIN c
  <2>1. ASSUME NEW m \in stored PROVE m \in DOMAIN rows /\ ~taken(m)
    <3>1. m \in DOMAIN rows /\ m \in 1..m
      OBVIOUS
    <3> QED
      BY <3>1
  <2> QED
    BY <2>1
<1>3. ASSUME NEW i \in {rows[m].id : m \in stored} PROVE NewDoc(row(i).tag) \in Doc
  <2>1. \E m \in stored : rows[m].id = i
    BY <1>3
  <2>2. (CHOOSE m \in stored : rows[m].id = i) \in stored
    BY <2>1
  <2> HIDE DEF stored
  <2>3. row(i).tag = t
    BY <1>2, <2>2
  <2> QED
    BY <2>3 DEF NewDoc, Doc
<1> HIDE DEF stored, row
<1>4. /\ DOMAIN f \subseteq 1..(n + 1)
      /\ DOMAIN f \cap DOMAIN c = {}
  BY <1>2
<1>5. f \in [DOMAIN f -> Doc]
  BY <1>3
<1> HIDE DEF f
<1> QED
  BY <1>1, <1>4, <1>5, NewDocs
-----------------------------------------------------------------------------
\* The fields a write leaves alone, and the bounds it keeps.
Untouched ==
    /\ IsWalk(walk')
    /\ walk'.pc = walk.pc /\ walk'.query = walk.query
    /\ walk'.page = walk.page /\ walk'.perPage = walk.perPage
    /\ walk'.rows = walk.rows /\ walk'.seen = walk.seen /\ walk'.start = walk.start
    /\ walk'.capped = walk.capped
    /\ walk.pc \in {"idle", "rows", "total"}
    /\ created' \in {created, created + 1} /\ created' <= MaxDocs
    /\ writes' = writes + 1 /\ writes < MaxWrites
    /\ DocsOK(docs', created')

\* What the marks of the walk say of a write.
Marked ==
    walk.pc # "idle" =>
        /\ ~walk'.added => ~walk.added /\ Shrinks(docs, docs')
        /\ ~walk'.gone => ~walk.gone /\ Grows(docs, docs')

LEMMA WriteEffect ==
    ASSUME IsWalk(walk), created \in Nat, NEW c, NEW new \in {0, 1}, NEW adds, NEW drops,
           Writes(c, new, adds, drops), created + new <= MaxDocs, DocsOK(c, created + new),
           adds \/ Shrinks(docs, c), drops \/ Grows(docs, c)
    PROVE  Untouched /\ Marked
<1>1. /\ IsWalk(walk')
      /\ walk'.pc = walk.pc /\ walk'.query = walk.query
      /\ walk'.page = walk.page /\ walk'.perPage = walk.perPage
      /\ walk'.rows = walk.rows /\ walk'.seen = walk.seen /\ walk'.start = walk.start
      /\ walk'.capped = walk.capped
      /\ walk.pc \in {"idle", "rows", "total"}
      /\ docs' = c /\ created' = created + new
      /\ writes' = writes + 1 /\ writes < MaxWrites
  BY WritesFields
<1>2. /\ walk.pc # "idle" /\ ~walk'.added => ~walk.added /\ ~adds
      /\ walk.pc # "idle" /\ ~walk'.gone => ~walk.gone /\ ~drops
  BY WritesFields, Zenon
<1>3. Marked
  BY <1>1, <1>2, Zenon DEF Marked
<1>4. created' \in {created, created + 1} /\ created' <= MaxDocs /\ DocsOK(docs', created')
  BY <1>1
<1> QED
  BY <1>1, <1>3, <1>4, Zenon DEF Untouched

LEMMA InsertStep ==
    ASSUME IsWalk(walk), created \in Nat, DocsOK(docs, created), Insert
    PROVE  Untouched /\ Marked
<1> PICK t \in Tags : created < MaxDocs /\ Writes(Create(docs, created + 1, t), 1, TRUE, FALSE)
  BY Zenon DEF Insert
<1> PICK c : c = Create(docs, created + 1, t)
  OBVIOUS
<1>1. DocsOK(c, created + 1) /\ Grows(docs, c)
  BY CreateDocs
<1> PICK adds : adds = TRUE
  OBVIOUS
<1> PICK drops : drops = FALSE
  OBVIOUS
<1>2. Writes(c, 1, adds, drops)
  BY Zenon
<1>3. created + 1 <= MaxDocs
  BY ListingAssumption
<1> QED
  BY <1>1, <1>2, <1>3, WriteEffect

LEMMA InsertManyStep ==
    ASSUME IsWalk(walk), created \in Nat, DocsOK(docs, created), InsertMany
    PROVE  Untouched /\ Marked
<1> PICK adds : adds = TRUE
  OBVIOUS
<1> PICK drops : drops = FALSE
  OBVIOUS
<1> PICK t \in Tags, known \in 1..(created + 1), first \in BOOLEAN :
      LET new == [id |-> created + 1, tag |-> t]
          other == [id |-> known, tag |-> t]
      IN /\ created < MaxDocs
         /\ Writes(CreateMany(docs, IF first THEN <<new, other>> ELSE <<other, new>>), 1, TRUE,
                   FALSE)
  BY Zenon DEF InsertMany
<1> DEFINE new == [id |-> created + 1, tag |-> t]
           other == [id |-> known, tag |-> t]
<1> PICK rows : rows = IF first THEN <<new, other>> ELSE <<other, new>>
  OBVIOUS
<1>1. created < MaxDocs /\ Writes(CreateMany(docs, rows), 1, adds, drops)
  BY Zenon
<1>2. \/ rows = <<new, other>>
      \/ rows = <<other, new>>
  OBVIOUS
<1>3. /\ new.id = created + 1 /\ new.tag = t
      /\ other.id = known /\ other.tag = t
  OBVIOUS
<1> HIDE DEF new, other
<1>4. DOMAIN rows = 1..2 /\ \A m \in DOMAIN rows : rows[m] \in {new, other}
  BY <1>2
<1>5. /\ DOMAIN rows \subseteq Nat \ {0}
      /\ \A m \in DOMAIN rows : rows[m].id \in {known, created + 1} /\ rows[m].tag = t
  BY <1>3, <1>4
<1>6. DocsOK(CreateMany(docs, rows), created + 1) /\ Grows(docs, CreateMany(docs, rows))
  BY <1>5, CreateManyDocs
<1>7. created + 1 <= MaxDocs
  BY <1>1, ListingAssumption
<1> QED
  BY <1>1, <1>6, <1>7, WriteEffect

LEMMA UpdateStep ==
    ASSUME IsWalk(walk), created \in Nat, created <= MaxDocs, DocsOK(docs, created), Update
    PROVE  Untouched /\ Marked
<1> PICK yes : yes = TRUE
  OBVIOUS
<1> PICK t \in Tags :
      \E c \in {UpdateOneById(docs, i, [tag |-> t]) : i \in 1..MaxDocs}
               \cup (UNION {UpdateOne(docs, f, [tag |-> t]) : f \in SUBSET Tags})
               \cup {UpdateMany(docs, f, [tag |-> t]) : f \in SUBSET Tags} :
          c # docs /\ Writes(c, 0, TRUE, TRUE)
  BY Zenon DEF Update
<1> PICK data : data = [tag |-> t]
  OBVIOUS
<1>1. PICK c \in {UpdateOneById(docs, i, data) : i \in 1..MaxDocs}
               \cup (UNION {UpdateOne(docs, f, data) : f \in SUBSET Tags})
               \cup {UpdateMany(docs, f, data) : f \in SUBSET Tags} : Writes(c, 0, yes, yes)
  BY Zenon
<1>2. \E S : c = Set(docs, S, data)
  <2>1. /\ \A i : UpdateOneById(docs, i, data) = Set(docs, {i} \cap Visible(docs, FALSE), data)
        /\ \A f : UpdateMany(docs, f, data) = Set(docs, Matching(docs, f, FALSE), data)
    BY Zenon DEF UpdateOneById, UpdateMany
  <2>2. \/ \E i : c = UpdateOneById(docs, i, data)
        \/ \E f : c \in UpdateOne(docs, f, data)
        \/ \E f : c = UpdateMany(docs, f, data)
    BY <1>1, Zenon
  <2>3. ASSUME NEW f, c \in UpdateOne(docs, f, data) PROVE \E S : c = Set(docs, S, data)
    BY <2>3 DEF UpdateOne
  <2> QED
    BY <2>1, <2>2, <2>3, Zenon
<1>3. \A d \in Doc : Over(data, d) \in Doc
  BY OverTag
<1>4. DocsOK(c, created + 0)
  BY <1>2, <1>3, SetDocs
<1>5. created + 0 <= MaxDocs
  OBVIOUS
<1> QED
  BY <1>1, <1>4, <1>5, WriteEffect

LEMMA SoftDeleteStep ==
    ASSUME IsWalk(walk), created \in Nat, created <= MaxDocs, DocsOK(docs, created), SoftDelete
    PROVE  Untouched /\ Marked
<1> PICK adds : adds = FALSE
  OBVIOUS
<1> PICK drops : drops = TRUE
  OBVIOUS
<1>1. PICK c \in {SoftDeleteOneById(docs, i) : i \in 1..MaxDocs}
               \cup (UNION {SoftDeleteOne(docs, f) : f \in SUBSET Tags})
               \cup {SoftDeleteManyByIds(docs, S) : S \in SUBSET (1..MaxDocs)}
               \cup {SoftDeleteMany(docs, f) : f \in SUBSET Tags} : Writes(c, 0, adds, drops)
  BY Zenon DEF SoftDelete
<1> PICK data : data = [deleted |-> TRUE]
  OBVIOUS
<1>2. /\ \A i : SoftDeleteOneById(docs, i) = Set(docs, {i} \cap Visible(docs, FALSE), data)
      /\ \A S : SoftDeleteManyByIds(docs, S) = Set(docs, S \cap Visible(docs, FALSE), data)
      /\ \A f : SoftDeleteMany(docs, f) = Set(docs, Matching(docs, f, FALSE), data)
  BY Zenon DEF SoftDeleteOneById, SoftDeleteManyByIds, SoftDeleteMany
<1>3. \E S : c = Set(docs, S, data)
  <2>1. \/ \E i : c = SoftDeleteOneById(docs, i)
        \/ \E f : c \in SoftDeleteOne(docs, f)
        \/ \E S : c = SoftDeleteManyByIds(docs, S)
        \/ \E f : c = SoftDeleteMany(docs, f)
    BY <1>1, Zenon
  <2>2. ASSUME NEW f, c \in SoftDeleteOne(docs, f) PROVE \E S : c = Set(docs, S, data)
    BY <2>2 DEF SoftDeleteOne
  <2>3. ASSUME NEW i, c = SoftDeleteOneById(docs, i) PROVE \E S : c = Set(docs, S, data)
    BY <1>2, <2>3
  <2>4. ASSUME NEW T, c = SoftDeleteManyByIds(docs, T) PROVE \E S : c = Set(docs, S, data)
    BY <1>2, <2>4
  <2>5. ASSUME NEW f, c = SoftDeleteMany(docs, f) PROVE \E S : c = Set(docs, S, data)
    BY <1>2, <2>5
  <2> QED
    BY <2>1, <2>2, <2>3, <2>4, <2>5, Zenon
<1>4. \A S : DocsOK(Set(docs, S, data), created) /\ Shrinks(docs, Set(docs, S, data))
  BY SoftDocs
<1>5. DocsOK(c, created + 0) /\ Shrinks(docs, c) /\ created + 0 <= MaxDocs
  BY <1>3, <1>4
<1> QED
  BY <1>1, <1>5, WriteEffect

LEMMA DeleteStep ==
    ASSUME IsWalk(walk), created \in Nat, created <= MaxDocs, DocsOK(docs, created), Delete
    PROVE  Untouched /\ Marked
<1> PICK adds : adds = FALSE
  OBVIOUS
<1> PICK drops : drops = TRUE
  OBVIOUS
<1>1. PICK c \in {DeleteOneById(docs, i) : i \in 1..MaxDocs}
               \cup (UNION {DeleteOne(docs, f) : f \in SUBSET Tags})
               \cup {DeleteManyByIds(docs, S) : S \in SUBSET (1..MaxDocs)}
               \cup {DeleteMany(docs, f) : f \in SUBSET Tags} : Writes(c, 0, adds, drops)
  BY Zenon DEF Delete
<1>2. \E S : c = Drop(docs, S)
  <2>1. /\ \A i : DeleteOneById(docs, i) = Drop(docs, {i})
        /\ \A S : DeleteManyByIds(docs, S) = Drop(docs, S \cap Visible(docs, FALSE))
        /\ \A f : DeleteMany(docs, f) = Drop(docs, Matching(docs, f, FALSE))
    BY Zenon DEF DeleteOneById, DeleteManyByIds, DeleteMany
  <2>2. \/ \E i : c = DeleteOneById(docs, i)
        \/ \E f : c \in DeleteOne(docs, f)
        \/ \E S : c = DeleteManyByIds(docs, S)
        \/ \E f : c = DeleteMany(docs, f)
    BY <1>1, Zenon
  <2>3. ASSUME NEW f, c \in DeleteOne(docs, f) PROVE \E S : c = Drop(docs, S)
    BY <2>3 DEF DeleteOne
  <2> QED
    BY <2>1, <2>2, <2>3, Zenon
<1>3. DocsOK(c, created + 0) /\ Shrinks(docs, c) /\ created + 0 <= MaxDocs
  BY <1>2, DropDocs
<1> QED
  BY <1>1, <1>3, WriteEffect

LEMMA RestoreStep ==
    ASSUME IsWalk(walk), created \in Nat, created <= MaxDocs, DocsOK(docs, created), Restore
    PROVE  Untouched /\ Marked
<1> PICK no : no = FALSE
  OBVIOUS
<1>1. PICK c \in {RestoreOneById(docs, i) : i \in DOMAIN docs}
             \cup {RestoreManyByIds(docs, S) : S \in SUBSET (DOMAIN docs)}
             \cup {RestoreMany(docs, f) : f \in SUBSET Tags} : Writes(c, 0, no, no)
  BY Zenon DEF Restore
<1>2. \E S : c = Set(docs, S, Undefined)
  <2>1. /\ \A i : RestoreOneById(docs, i) = Set(docs, {i} \cap Visible(docs, TRUE), Undefined)
        /\ \A S : RestoreManyByIds(docs, S) = Set(docs, S \cap Visible(docs, TRUE), Undefined)
        /\ \A f : RestoreMany(docs, f) = Set(docs, Matching(docs, f, TRUE), Undefined)
    BY Zenon DEF RestoreOneById, RestoreManyByIds, RestoreMany
  <2> QED
    BY <1>1, <2>1
<1>3. c = docs
  BY <1>2, RestoredDocs
<1>4. DocsOK(c, created + 0) /\ Shrinks(docs, c) /\ Grows(docs, c) /\ created + 0 <= MaxDocs
  BY <1>3 DEF Shrinks, Grows
<1> QED
  BY <1>1, <1>4, WriteEffect

Write == Insert \/ InsertMany \/ Update \/ SoftDelete \/ Delete \/ Restore

LEMMA WriteStep ==
    ASSUME IsWalk(walk), created \in Nat, created <= MaxDocs, DocsOK(docs, created), Write
    PROVE  Untouched /\ Marked
BY InsertStep, InsertManyStep, UpdateStep, SoftDeleteStep, DeleteStep, RestoreStep DEF Write
-----------------------------------------------------------------------------
(* The arithmetic of pages *)

LEMMA DtoPageOK ==
    ASSUME NEW v \in Int \cup {None}
    PROVE  /\ DtoPage(v) \in Int /\ DtoPage(v) <= MaxPage /\ DtoPage(v) # 0
           /\ v \in Int /\ v # 0 /\ v <= MaxPage => DtoPage(v) = v
BY PaginationAssumption DEF DtoPage, AtMost

LEMMA DtoPerPageOK ==
    ASSUME NEW v \in Int \cup {None}
    PROVE  /\ DtoPerPage(v) \in Int /\ DtoPerPage(v) <= MaxPerPage /\ DtoPerPage(v) # 0
           /\ v \in Int /\ v # 0 /\ v <= MaxPerPage => DtoPerPage(v) = v
BY PaginationAssumption DEF DtoPerPage, AtMost

LEMMA SkipOK ==
    ASSUME NEW page \in Int, NEW perPage \in Int
    PROVE  /\ Skip(page, perPage) \in Int
           /\ page <= MaxPage /\ perPage <= MaxPerPage => Skip(page, perPage) = (page - 1) * perPage
<1>1. /\ AtMost(page, MaxPage) \in Int /\ AtMost(perPage, MaxPerPage) \in Int
      /\ page <= MaxPage => AtMost(page, MaxPage) = page
      /\ perPage <= MaxPerPage => AtMost(perPage, MaxPerPage) = perPage
  BY PaginationAssumption DEF AtMost
<1> QED
  BY <1>1 DEF Skip

LEMMA Quotient ==
    ASSUME NEW a \in Int, NEW b \in Nat \ {0}
    PROVE  a \div b \in Int /\ (a \div b) * b <= a /\ a < (a \div b) * b + b
OBVIOUS

\* Products of integers, as the provers take them: one sign at a time.
LEMMA ProductSigns ==
    ASSUME NEW a \in Int, NEW b \in Int
    PROVE  /\ a * b \in Int
           /\ a >= 0 /\ b >= 0 => a * b >= 0
           /\ a <= 0 /\ b <= 0 => a * b >= 0
           /\ a > 0 /\ b < 0 => a * b < 0
           /\ a < 0 /\ b > 0 => a * b < 0
OBVIOUS

LEMMA ProductOrder ==
    ASSUME NEW a \in Int, NEW b \in Int, NEW c \in Nat, a <= b
    PROVE  a * c <= b * c
OBVIOUS

LEMMA CeilOK ==
    ASSUME NEW total \in Nat, NEW limit \in Nat \ {0}
    PROVE  /\ Ceil(total, limit) \in Nat /\ total <= Ceil(total, limit) * limit
           /\ \A k \in Nat : total <= k * limit => Ceil(total, limit) <= k
<1> PICK d \in Int : d = (total + limit - 1) \div limit /\ d * limit <= total + limit - 1
                     /\ total + limit - 1 < d * limit + limit
  <2>1. total + limit - 1 \in Int
    OBVIOUS
  <2> QED
    BY <2>1, Quotient
<1>1. Ceil(total, limit) = d
  BY DEF Ceil
<1>2. d * limit \in Int /\ total <= d * limit
  BY ProductSigns
<1>3. ASSUME d < 0 PROVE FALSE
  <2>1. d * limit <= (-1) * limit
    BY <1>3, ProductOrder
  <2> QED
    BY <1>2, <2>1
<1>4. ASSUME NEW k \in Nat, total <= k * limit, d > k PROVE FALSE
  <2>1. (k + 1) * limit <= d * limit
    BY <1>4, ProductOrder
  <2>2. (k + 1) * limit = k * limit + limit /\ k * limit \in Int
    OBVIOUS
  <2> QED
    BY <1>2, <1>4, <2>1, <2>2
<1> QED
  BY <1>1, <1>2, <1>3, <1>4

LEMMA CeilNegative ==
    ASSUME NEW total \in Nat, NEW limit \in Int, limit < 0
    PROVE  Ceil(total, limit) \in Int /\ Ceil(total, limit) <= 0
<1> PICK b \in Nat \ {0} : b = -limit
  OBVIOUS
<1> PICK d \in Int : d = total \div b /\ d * b <= total /\ total < d * b + b
  BY Quotient
<1>1. Ceil(total, limit) = -d
  BY DEF Ceil
<1>2. ASSUME d < 0 PROVE FALSE
  <2>1. d * b <= (-1) * b
    BY <1>2, ProductOrder
  <2>2. d * b \in Int /\ (-1) * b = -b
    OBVIOUS
  <2> QED
    BY <2>1, <2>2
<1> QED
  BY <1>1, <1>2

\* The number of pages: what Math.ceil says, but one page at least, and as many as may be asked for.
LEMMA TotalPageOK ==
    ASSUME NEW total \in Nat, NEW limit \in Int, limit # 0
    PROVE  /\ TotalPage(total, limit) \in Int /\ TotalPage(total, limit) <= MaxPage
           /\ limit < 0 => TotalPage(total, limit) <= 1
           /\ limit > 0 => /\ TotalPage(total, limit) >= 1
                           /\ total <= MaxPage * limit
                                => \A page \in Nat : page >= TotalPage(total, limit)
                                                       => total <= page * limit
<1> PICK c : c = Ceil(total, limit)
  OBVIOUS
<1>1. TotalPage(total, limit) = AtMost(IF c = 0 THEN 1 ELSE c, MaxPage)
  BY DEF TotalPage
<1>2. CASE limit < 0
  BY <1>1, <1>2, CeilNegative, PaginationAssumption DEF AtMost
<1>3. CASE limit > 0
  <2>1. c \in Nat /\ total <= c * limit /\ \A k \in Nat : total <= k * limit => c <= k
    BY <1>3, CeilOK
  <2>2. /\ TotalPage(total, limit) \in Int /\ TotalPage(total, limit) <= MaxPage
        /\ TotalPage(total, limit) >= 1
    BY <1>1, <2>1, PaginationAssumption DEF AtMost
  <2>3. ASSUME total <= MaxPage * limit, NEW page \in Nat, page >= TotalPage(total, limit)
        PROVE  total <= page * limit
    <3>1. c <= MaxPage
      BY <2>1, <2>3, PaginationAssumption
    <3>2. c <= page
      BY <1>1, <2>1, <2>3, <3>1, PaginationAssumption DEF AtMost
    <3>3. c * limit <= page * limit /\ c * limit \in Int /\ page * limit \in Int
      BY <1>3, <2>1, <3>2, ProductOrder
    <3> QED
      BY <2>1, <3>3
  <2> QED
    BY <1>3, <2>2, <2>3
<1> QED
  BY <1>2, <1>3
-----------------------------------------------------------------------------
(* Types, and what a request in progress was let in with *)

ListTyped ==
    /\ IsWalk(walk)
    /\ created \in Nat /\ created <= MaxDocs /\ writes \in Nat /\ writes <= MaxWrites
    /\ DocsOK(docs, created)
    /\ walk.pc \in {"idle", "rows", "total", "done", "failed"}
    /\ walk.seen \in Seq(1..created) /\ walk.rows \in Seq(1..created)
    /\ walk.page \in Int /\ walk.page <= MaxPage
    /\ walk.perPage \in Int /\ walk.perPage <= MaxPerPage
    /\ walk.pc \in {"rows", "total"} =>
          /\ walk.query \in Queries /\ DtoSort(walk.query.sort) # None
          /\ walk.perPage # 0
    /\ walk.pc = "total" => Skip(walk.page, walk.perPage) >= 0

LEMMA ToSetOK ==
    ASSUME NEW S, NEW s \in Seq(S)
    PROVE  ToSet(s) \subseteq S /\ \A x : x \in ToSet(s) <=> \E k \in 1..Len(s) : s[k] = x
<1>1. DOMAIN s = 1..Len(s) /\ \A k \in 1..Len(s) : s[k] \in S
  BY LenProperties, ElementOfSeq
<1>2. ToSet(s) = {s[k] : k \in 1..Len(s)}
  BY <1>1, Zenon DEF ToSet
<1> QED
  BY <1>1, <1>2

LEMMA DocsFinite ==
    ASSUME NEW n \in Nat, NEW c, DocsOK(c, n)
    PROVE  /\ IsFiniteSet(DOMAIN c) /\ DOMAIN c \in SUBSET Nat
           /\ \A find, deleted : /\ Matching(c, find, deleted) \in SUBSET Nat
                                 /\ Matching(c, find, deleted) \subseteq 1..n
                                 /\ IsFiniteSet(Matching(c, find, deleted))
                                 /\ GetTotal(c, find, deleted) \in Nat
<1>1. IsFiniteSet(DOMAIN c) /\ DOMAIN c \in SUBSET Nat
  BY IdsFinite DEF DocsOK
<1>2. ASSUME NEW find, NEW deleted
      PROVE  /\ Matching(c, find, deleted) \in SUBSET Nat
             /\ Matching(c, find, deleted) \subseteq 1..n
             /\ IsFiniteSet(Matching(c, find, deleted))
             /\ GetTotal(c, find, deleted) \in Nat
  <2>1. Matching(c, find, deleted) \in SUBSET Nat /\ IsFiniteSet(Matching(c, find, deleted))
    BY <1>1, MatchingFinite
  <2>2. Matching(c, find, deleted) \subseteq 1..n
    BY DEF Matching, Visible, DocsOK
  <2> QED
    BY <2>1, <2>2, FS_CardinalityType DEF GetTotal
<1> QED
  BY <1>1, <1>2

LEMMA NextPageOK ==
    ASSUME NEW page \in Int, NEW totalPage \in Int
    PROVE  /\ Links(page, totalPage).nextPage = IF page < totalPage THEN page + 1 ELSE None
           /\ Links(page, totalPage).nextPage = None <=> page >= totalPage
BY PaginationAssumption DEF Links

LEMMA ListTypedInit == Init => ListTyped
<1> SUFFICES ASSUME Init PROVE ListTyped
  OBVIOUS
<1> PICK no : no = FALSE
  OBVIOUS
<1>1. PICK n \in 0..MaxDocs : docs \in [1..n -> Doc]
  BY ListingAssumption DEF Init
<1>2. n \in Nat /\ n <= MaxDocs
  BY ListingAssumption
<1>3. created = n
  <2>1. DOMAIN docs = 1..n
    BY <1>1
  <2>2. Cardinality(DOMAIN docs) = n
    BY <1>2, <2>1, IntervalFinite
  <2> QED
    BY <2>2 DEF Init
<1>4. DocsOK(docs, created)
  BY <1>1, <1>3 DEF DocsOK
<1>5. walk = Walk("idle", None, 0, 0, << >>, << >>, {}, no, no, no)
  BY DEF Init, Idle, Walk
<1>6. IsWalk(walk) /\ walk.pc = "idle" /\ walk.page = 0 /\ walk.perPage = 0
      /\ walk.rows = << >> /\ walk.seen = << >>
  BY <1>5, WalkFields
<1>7. << >> \in Seq(1..created)
  BY EmptySeq
<1>8. writes = 0
  BY DEF Init
<1> QED
  BY <1>2, <1>3, <1>4, <1>6, <1>7, <1>8, ListingAssumption, PaginationAssumption DEF ListTyped

LEMMA AskTyped == ASSUME ListTyped, NEW q \in Queries, Ask(q) PROVE ListTyped'
<1>1. /\ IsWalk(walk')
      /\ walk'.pc = IF DtoSort(q.sort) = None THEN "failed" ELSE "rows"
      /\ walk'.query = q
      /\ walk'.page = DtoPage(q.page) /\ walk'.perPage = DtoPerPage(q.perPage)
      /\ walk'.rows = << >> /\ walk'.seen = << >>
      /\ UNCHANGED <<docs, created, writes>>
  BY AskFields
<1>2. q.page \in Int \cup {None} /\ q.perPage \in Int \cup {None}
  BY ListingAssumption
<1>3. /\ walk'.page \in Int /\ walk'.page <= MaxPage /\ walk'.page # 0
      /\ walk'.perPage \in Int /\ walk'.perPage <= MaxPerPage /\ walk'.perPage # 0
  BY <1>1, <1>2, DtoPageOK, DtoPerPageOK
<1>4. << >> \in Seq(1..created)
  BY EmptySeq
<1> QED
  BY <1>1, <1>3, <1>4 DEF ListTyped

LEMMA RowsTyped == ASSUME ListTyped, ReadRows PROVE ListTyped'
<1>1. /\ walk.pc = "rows"
      /\ IsWalk(walk')
      /\ walk'.query = walk.query /\ walk'.page = walk.page /\ walk'.perPage = walk.perPage
      /\ walk'.seen = walk.seen
      /\ UNCHANGED <<docs, created, writes>>
  BY RowsFields DEF ListTyped
<1>2. PICK rows \in FindAll(docs, Find(walk.query), Options(walk)) :
         \/ rows = Error /\ walk'.pc = "failed" /\ walk'.rows = walk.rows
         \/ rows # Error /\ walk'.pc = "total" /\ walk'.rows = rows
  BY RowsFields DEF ListTyped
<1>3. CASE rows = Error
  BY <1>1, <1>2, <1>3 DEF ListTyped
<1>4. CASE rows # Error
  <2> PICK o : o = Options(walk)
    OBVIOUS
  <2>1. o.limit = walk.perPage /\ o.skip = Skip(walk.page, walk.perPage)
    BY DEF Options
  <2>2. o.limit \in Int /\ o.skip \in Int
    BY <2>1, SkipOK DEF ListTyped
  <2>3. IsFiniteSet(DOMAIN docs) /\ DOMAIN docs \in SUBSET Nat
    BY DocsFinite DEF ListTyped
  <2> PICK find : find = Find(walk.query)
    OBVIOUS
  <2>4. o.skip >= 0 /\ rows \in Seq(Matching(docs, find, o.withDeleted))
    BY <1>2, <1>4, <2>2, <2>3, FindAllRows
  <2>5. Matching(docs, find, o.withDeleted) \subseteq 1..created
    BY DocsFinite DEF ListTyped
  <2>6. rows \in Seq(1..created)
    BY <2>4, <2>5, SeqMonotonic
  <2> QED
    BY <1>1, <1>2, <1>4, <2>1, <2>4, <2>6 DEF ListTyped
<1> QED
  BY <1>3, <1>4

LEMMA TotalTyped == ASSUME ListTyped, ReadTotal PROVE ListTyped'
<1>1. /\ walk.pc = "total"
      /\ IsWalk(walk')
      /\ walk'.pc = IF NextPage = None THEN "done" ELSE "rows"
      /\ walk'.page = IF NextPage = None THEN walk.page ELSE DtoPage(NextPage)
      /\ walk'.perPage = DtoPerPage(walk.perPage)
      /\ walk'.query = walk.query
      /\ walk'.rows = << >> /\ walk'.seen = walk.seen \o walk.rows
      /\ UNCHANGED <<docs, created, writes>>
  BY TotalFields DEF ListTyped
<1>2. walk'.perPage = walk.perPage
  BY <1>1, DtoPerPageOK DEF ListTyped
<1>3. Total \in Nat
  BY DocsFinite DEF ListTyped, Total
<1>4. TotalPage(Total, walk.perPage) \in Int
  BY <1>1, <1>3, TotalPageOK DEF ListTyped
<1>5. NextPage \in Int \cup {None}
  BY <1>4, NextPageOK DEF ListTyped, NextPage
<1>6. /\ walk'.page \in Int /\ walk'.page <= MaxPage
      /\ walk'.pc = "rows" => walk'.page # 0
  BY <1>1, <1>5, DtoPageOK DEF ListTyped
<1>7. << >> \in Seq(1..created) /\ walk.seen \o walk.rows \in Seq(1..created)
  BY EmptySeq, ConcatProperties DEF ListTyped
<1> QED
  BY <1>1, <1>2, <1>6, <1>7 DEF ListTyped

LEMMA WriteTyped == ASSUME ListTyped, Write PROVE ListTyped'
<1>1. Untouched
  BY WriteStep DEF ListTyped
<1>2. created' \in Nat /\ created' <= MaxDocs /\ 1..created \subseteq 1..created'
  BY <1>1 DEF ListTyped, Untouched
<1>3. walk'.seen \in Seq(1..created') /\ walk'.rows \in Seq(1..created')
  BY <1>1, <1>2, SeqMonotonic DEF ListTyped, Untouched
<1>4. writes' \in Nat /\ writes' <= MaxWrites
  BY <1>1, ListingAssumption DEF ListTyped, Untouched
<1> QED
  BY <1>1, <1>2, <1>3, <1>4 DEF ListTyped, Untouched

LEMMA ListTypedStep == ListTyped /\ [Next]_vars => ListTyped'
<1>1. ASSUME ListTyped, UNCHANGED vars PROVE ListTyped'
  BY <1>1 DEF vars, ListTyped
<1>2. Next => (\E q \in Queries : Ask(q)) \/ ReadRows \/ ReadTotal \/ Write
  BY Zenon DEF Next, Handlers, Write
<1> QED
  BY <1>1, <1>2, AskTyped, RowsTyped, TotalTyped, WriteTyped

\* Whatever is asked for and written: an answer lists documents that were created, and its page and
\* size are ones the query may name.
THEOREM ListTypesCorrect == Spec => []ListTypeOK
<1>1. ListTyped => ListTypeOK
  <2> SUFFICES ASSUME ListTyped PROVE ListTypeOK
    OBVIOUS
  <2>1. walk.seen \o walk.rows \in Seq(1..created)
    BY ConcatProperties DEF ListTyped
  <2>2. ToSet(walk.seen \o walk.rows) \subseteq 1..created
    BY <2>1, ToSetOK
  <2>3. created \in 0..MaxDocs /\ writes \in 0..MaxWrites
    BY ListingAssumption DEF ListTyped
  <2>4. DOMAIN docs \subseteq 1..created /\ docs \in [DOMAIN docs -> Doc]
    BY Zenon DEF ListTyped, DocsOK
  <2>5. /\ walk.pc \in {"idle", "rows", "total", "done", "failed"}
        /\ walk.page <= MaxPage /\ walk.perPage <= MaxPerPage
    BY DEF ListTyped
  <2> QED
    BY <2>2, <2>3, <2>4, <2>5, Zenon DEF ListTypeOK
<1> QED
  BY <1>1, ListTypedInit, ListTypedStep, PTL DEF Spec
-----------------------------------------------------------------------------
(* Links *)

LEMMA LinksOK ==
    ASSUME NEW page \in Int, NEW totalPage \in Int, NEW link \in Range(Links(page, totalPage)),
           link # None
    PROVE  \/ page < totalPage /\ link = page + 1
           \/ page > 1 /\ link = page - 1
           \/ totalPage > 1 /\ link = 1
           \/ totalPage > 1 /\ link = totalPage
BY DEF Links, Range

\* A page whose skip the database accepts, and one of the links of its answer.
LEMMA LinkFollowed ==
    ASSUME NEW page \in Int, page <= MaxPage, NEW perPage \in Int, perPage <= MaxPerPage,
           perPage # 0, Skip(page, perPage) >= 0, NEW totalPage \in Int, totalPage <= MaxPage,
           perPage < 0 => totalPage <= 1, NEW link \in Range(Links(page, totalPage)), link # None
    PROVE  /\ DtoPage(link) = link \/ (link = 0 /\ page = -1 /\ perPage < 0)
           /\ Skip(link, perPage) >= 0
<1>1. (page - 1) * perPage >= 0
  BY SkipOK
<1>2. perPage > 0 => page >= 1
  BY <1>1, ProductSigns
<1>3. perPage < 0 => page <= 1
  BY <1>1, ProductSigns
<1>4. MaxPage \in Nat /\ MaxPage >= 1
  BY PaginationAssumption
<1>5. /\ link \in Int /\ link <= MaxPage
      /\ perPage > 0 => link >= 1
      /\ perPage < 0 => link <= 1
      /\ link = 0 => page = -1 /\ perPage < 0
  BY <1>2, <1>3, <1>4, LinksOK
<1>6. (link - 1) * perPage >= 0
  BY <1>5, ProductSigns
<1>7. Skip(link, perPage) >= 0
  BY <1>5, <1>6, SkipOK
<1> QED
  BY <1>5, <1>7, DtoPageOK

\* Whatever page and perPage are asked for, and however many rows there are: a client can follow
\* every link of every answer.
THEOREM LinksCorrect == Spec => []LinksCanBeFollowed
<1>1. ListTyped => LinksCanBeFollowed
  <2> SUFFICES ASSUME ListTyped, walk.pc = "total",
                      NEW link \in Range(Links(walk.page, TotalPage(Total, walk.perPage))) \ {None}
               PROVE  /\ DtoPage(link) = link \/ (link = 0 /\ walk.page = -1 /\ walk.perPage < 0)
                      /\ Skip(link, DtoPerPage(walk.perPage)) >= 0
    BY Zenon DEF LinksCanBeFollowed, Total
  <2> PICK totalPage : totalPage = TotalPage(Total, walk.perPage)
    OBVIOUS
  <2>1. Total \in Nat
    BY DocsFinite DEF ListTyped, Total
  <2>2. /\ totalPage \in Int /\ totalPage <= MaxPage
        /\ walk.perPage < 0 => totalPage <= 1
    BY <2>1, TotalPageOK DEF ListTyped
  <2>3. DtoPerPage(walk.perPage) = walk.perPage
    BY DtoPerPageOK DEF ListTyped
  <2>4. link \in Range(Links(walk.page, totalPage)) /\ link # None
    OBVIOUS
  <2> QED
    BY <2>2, <2>3, <2>4, LinkFollowed DEF ListTyped
<1> QED
  BY <1>1, ListTypedInit, ListTypedStep, PTL DEF Spec
-----------------------------------------------------------------------------
(* What the client has seen *)

LEMMA ConcatSet ==
    ASSUME NEW S, NEW s \in Seq(S), NEW t \in Seq(S)
    PROVE  ToSet(s \o t) = ToSet(s) \cup ToSet(t)
<1>1. /\ s \o t \in Seq(S) /\ Len(s \o t) = Len(s) + Len(t)
      /\ Len(s) \in Nat /\ Len(t) \in Nat
      /\ \A i \in 1..(Len(s) + Len(t)) : (s \o t)[i] = IF i <= Len(s) THEN s[i] ELSE t[i - Len(s)]
  BY ConcatProperties, LenProperties
<1>2. ASSUME NEW x \in ToSet(s \o t) PROVE x \in ToSet(s) \cup ToSet(t)
  <2>1. PICK k \in 1..(Len(s) + Len(t)) : (s \o t)[k] = x
    BY <1>1, ToSetOK
  <2>2. CASE k <= Len(s)
    BY <1>1, <2>1, <2>2, ToSetOK
  <2>3. CASE k > Len(s)
    <3>1. k - Len(s) \in 1..Len(t) /\ t[k - Len(s)] = x
      BY <1>1, <2>1, <2>3
    <3> QED
      BY <3>1, ToSetOK
  <2> QED
    BY <1>1, <2>2, <2>3
<1>3. ASSUME NEW x \in ToSet(s) PROVE x \in ToSet(s \o t)
  <2>1. PICK k \in 1..Len(s) : s[k] = x
    BY ToSetOK
  <2>2. k \in 1..Len(s \o t) /\ (s \o t)[k] = x
    BY <1>1, <2>1
  <2> QED
    BY <1>1, <2>2, ToSetOK
<1>4. ASSUME NEW x \in ToSet(t) PROVE x \in ToSet(s \o t)
  <2>1. PICK k \in 1..Len(t) : t[k] = x
    BY ToSetOK
  <2>2. k + Len(s) \in 1..Len(s \o t) /\ ~(k + Len(s) <= Len(s)) /\ (k + Len(s)) - Len(s) = k
    BY <1>1, <2>1
  <2>3. (s \o t)[k + Len(s)] = x
    BY <1>1, <2>1, <2>2
  <2> QED
    BY <1>1, <2>2, <2>3, ToSetOK
<1> QED
  BY <1>2, <1>3, <1>4

LEMMA InjectiveSeq ==
    ASSUME NEW S, NEW s \in Seq(S)
    PROVE  IsInjective(s) <=> \A a, b \in 1..Len(s) : s[a] = s[b] => a = b
BY LenProperties DEF IsInjective

LEMMA ConcatInjective ==
    ASSUME NEW S, NEW s \in Seq(S), NEW t \in Seq(S), IsInjective(s), IsInjective(t),
           \A x \in ToSet(s) : x \notin ToSet(t)
    PROVE  IsInjective(s \o t)
<1>1. /\ s \o t \in Seq(S) /\ Len(s \o t) = Len(s) + Len(t)
      /\ Len(s) \in Nat /\ Len(t) \in Nat
      /\ \A i \in 1..(Len(s) + Len(t)) : (s \o t)[i] = IF i <= Len(s) THEN s[i] ELSE t[i - Len(s)]
  BY ConcatProperties, LenProperties
<1>2. /\ \A a, b \in 1..Len(s) : s[a] = s[b] => a = b
      /\ \A a, b \in 1..Len(t) : t[a] = t[b] => a = b
  BY InjectiveSeq
<1>3. \A a \in 1..Len(s), b \in 1..Len(t) : s[a] # t[b]
  BY ToSetOK
<1>4. ASSUME NEW a \in 1..Len(s \o t), NEW b \in 1..Len(s \o t), (s \o t)[a] = (s \o t)[b]
      PROVE  a = b
  <2>1. CASE a <= Len(s) /\ b <= Len(s)
    <3>1. a \in 1..Len(s) /\ b \in 1..Len(s) /\ s[a] = s[b]
      BY <1>1, <1>4, <2>1
    <3> QED
      BY <1>2, <3>1
  <2>2. CASE a <= Len(s) /\ b > Len(s)
    <3>1. a \in 1..Len(s) /\ b - Len(s) \in 1..Len(t) /\ s[a] = t[b - Len(s)]
      BY <1>1, <1>4, <2>2
    <3> QED
      BY <1>3, <3>1
  <2>3. CASE a > Len(s) /\ b <= Len(s)
    <3>1. b \in 1..Len(s) /\ a - Len(s) \in 1..Len(t) /\ s[b] = t[a - Len(s)]
      BY <1>1, <1>4, <2>3
    <3> QED
      BY <1>3, <3>1
  <2>4. CASE a > Len(s) /\ b > Len(s)
    <3>1. a - Len(s) \in 1..Len(t) /\ b - Len(s) \in 1..Len(t) /\ t[a - Len(s)] = t[b - Len(s)]
      BY <1>1, <1>4, <2>4
    <3>2. a - Len(s) = b - Len(s)
      BY <1>2, <3>1
    <3> QED
      BY <1>1, <3>2
  <2> QED
    BY <1>1, <2>1, <2>2, <2>3, <2>4
<1> QED
  BY <1>1, <1>4, InjectiveSeq
-----------------------------------------------------------------------------
(* An ordinary walk: its pages, and the place where it stands *)

\* The rows that match the query of the walk.
Found == Matching(docs, Find(walk.query), FALSE)

Seen == ToSet(walk.seen \o walk.rows)

\* An ordinary walk stands on a page, and has no rows before it asks for them.
OnAPage ==
    walk.pc \in {"rows", "total", "done"} /\ Ordinary(walk) =>
        /\ walk.page \in Nat
        /\ walk.pc # "total" => walk.rows = << >>

\* No row was listed twice, and every one that was listed and is still there stands before the
\* page that comes next.
NeverTwice ==
    walk.pc \in {"rows", "total", "done"} /\ ~walk.added /\ Ordinary(walk) =>
        /\ IsInjective(walk.seen \o walk.rows)
        /\ walk.pc = "rows" => \A x \in Seen \cap Found : Rank(Found, x) <= (walk.page - 1) * walk.perPage
        /\ walk.pc = "total" => \A x \in Seen \cap Found : Rank(Found, x) <= walk.page * walk.perPage

\* Every row that was there from the start is still there, and was listed if it stands before the
\* page that comes next; when there is no next page, it was listed.
NeverHidden ==
    walk.pc \in {"rows", "total", "done"} /\ ~walk.gone /\ Ordinary(walk) =>
        /\ walk.pc \in {"rows", "total"} => walk.start \subseteq Found
        /\ walk.pc = "rows" =>
              \A x \in walk.start : Rank(Found, x) <= (walk.page - 1) * walk.perPage => x \in Seen
        /\ walk.pc = "total" =>
              \A x \in walk.start : Rank(Found, x) <= walk.page * walk.perPage => x \in Seen
        /\ walk.pc = "done" /\ ~walk.capped => walk.start \subseteq Seen

WalkInv == ListTyped /\ OnAPage /\ NeverTwice /\ NeverHidden

LEMMA EmptyFacts ==
    /\ << >> \o << >> = << >> /\ ToSet(<< >>) = {} /\ IsInjective(<< >>)
    /\ \A S : \A s \in Seq(S) : s \o << >> = s
<1>1. << >> \in Seq({}) /\ Len(<< >>) = 0
  BY EmptySeq
<1>2. ToSet(<< >>) = {} /\ IsInjective(<< >>)
  <2> PICK e : e = << >>
    OBVIOUS
  <2>1. e \in Seq({}) /\ 1..Len(e) = {}
    BY <1>1
  <2>2. ToSet(e) = {} /\ IsInjective(e)
    BY <2>1, ToSetOK, InjectiveSeq
  <2> QED
    BY <2>2
<1>3. \A S : \A s \in Seq(S) : s \o << >> = s
  BY ConcatEmptySeq
<1> QED
  BY <1>1, <1>2, <1>3

LEMMA FoundFinite ==
    ASSUME ListTyped
    PROVE  Found \in SUBSET Nat /\ IsFiniteSet(Found)
BY DocsFinite DEF ListTyped, Found

LEMMA SeenSet ==
    ASSUME ListTyped
    PROVE  Seen = ToSet(walk.seen) \cup ToSet(walk.rows)
BY ConcatSet DEF ListTyped, Seen

LEMMA WalkInvInit == Init => OnAPage /\ NeverTwice /\ NeverHidden
<1> SUFFICES ASSUME Init PROVE OnAPage /\ NeverTwice /\ NeverHidden
  OBVIOUS
<1> PICK no : no = FALSE
  OBVIOUS
<1>1. walk = Walk("idle", None, 0, 0, << >>, << >>, {}, no, no, no)
  BY DEF Init, Idle, Walk
<1>2. walk.pc = "idle"
  BY <1>1, WalkFields
<1> QED
  BY <1>2 DEF OnAPage, NeverTwice, NeverHidden

LEMMA AskWalk ==
    ASSUME WalkInv, NEW q \in Queries, Ask(q)
    PROVE  OnAPage' /\ NeverTwice' /\ NeverHidden'
<1>1. /\ walk'.pc \in {"failed", "rows"}
      /\ walk'.query = q /\ walk'.page = DtoPage(q.page)
      /\ walk'.rows = << >> /\ walk'.seen = << >>
      /\ walk'.start = Matching(docs, Find(q), FALSE)
      /\ UNCHANGED <<docs, created, writes>>
  BY AskFields
<1>2. Seen' = {} /\ IsInjective(walk'.seen \o walk'.rows)
  BY <1>1, EmptyFacts DEF Seen
<1>3. Found' = walk'.start
  BY <1>1 DEF Found
<1>4. ListTyped'
  BY AskTyped DEF WalkInv
<1>5. ASSUME Ordinary(walk') PROVE walk'.page = 1 /\ walk'.perPage > 0
  BY <1>1, <1>5 DEF Ordinary
<1>6. OnAPage'
  BY <1>1, <1>5 DEF OnAPage
<1>7. NeverTwice'
  BY <1>1, <1>2, Zenon DEF NeverTwice
<1>8. ASSUME Ordinary(walk'), NEW x \in walk'.start,
             Rank(Found', x) <= (walk'.page - 1) * walk'.perPage
      PROVE  FALSE
  <2> PICK F : F = Found'
    OBVIOUS
  <2>1. F \in SUBSET Nat /\ IsFiniteSet(F) /\ x \in F
    <3>1. (Found \in SUBSET Nat /\ IsFiniteSet(Found))'
      BY <1>4, FoundFinite, PTL
    <3> QED
      BY <1>3, <3>1
  <2>2. Rank(F, x) \in Nat /\ Rank(F, x) # 0
    BY <2>1, RankPositive
  <2>3. (walk'.page - 1) * walk'.perPage = 0
    BY <1>4, <1>5, <1>8 DEF ListTyped
  <2> QED
    BY <1>8, <2>2, <2>3
<1>9. NeverHidden'
  BY <1>1, <1>3, <1>8 DEF NeverHidden
<1> QED
  BY <1>6, <1>7, <1>9

\* The page an ordinary walk reads.
LEMMA ReadPage ==
    ASSUME WalkInv, ReadRows, Ordinary(walk), walk'.pc = "total"
    PROVE  /\ walk.page \in Nat /\ walk.perPage \in Nat /\ walk.perPage > 0
           /\ walk'.rows \in Seq(1..created)
           /\ OnPage(walk'.rows, Found, (walk.page - 1) * walk.perPage, walk.perPage)
<1>1. walk.page \in Nat /\ walk.perPage \in Nat /\ walk.perPage > 0
  BY RowsFields DEF WalkInv, OnAPage, ListTyped, Ordinary
<1>2. walk'.rows \in Seq(1..created)
  <2>1. ListTyped'
    BY RowsTyped DEF WalkInv
  <2> QED
    BY <2>1, RowsFields DEF WalkInv, ListTyped
<1>3. PICK rows \in FindAll(docs, Find(walk.query), Options(walk)) :
         rows # Error /\ walk'.pc = "total" /\ walk'.rows = rows
  BY RowsFields DEF WalkInv, ListTyped
<1> PICK o : o = Options(walk)
  OBVIOUS
<1> PICK find : find = Find(walk.query)
  OBVIOUS
<1>4. /\ o.limit = walk.perPage /\ o.skip = Skip(walk.page, walk.perPage)
      /\ o.sort = DtoSort(walk.query.sort) /\ o.withDeleted = FALSE
  BY DEF Options
<1>5. o.sort.field = "createdAt"
  BY <1>4 DEF Ordinary
<1>6. o.sort.type # "ASC"
  <2>1. DtoSort(walk.query.sort) # None
    BY RowsFields DEF WalkInv, ListTyped
  <2>2. o.sort.type \in {"1", "-1"}
    BY <1>4, <2>1 DEF DtoSort
  <2> QED
    BY <2>2
<1>7. o.skip = (walk.page - 1) * walk.perPage
  BY <1>1, <1>4, SkipOK DEF WalkInv, ListTyped
<1>8. IsFiniteSet(DOMAIN docs) /\ DOMAIN docs \in SUBSET Nat
  BY DocsFinite DEF WalkInv, ListTyped
<1>9. o.limit \in Nat /\ o.skip \in Int
  BY <1>1, <1>4, <1>7
<1>10. OnPage(rows, Matching(docs, find, FALSE), o.skip, o.limit)
  BY <1>3, <1>4, <1>5, <1>6, <1>8, <1>9, FindAllNewest
<1>11. OnPage(walk'.rows, Found, (walk.page - 1) * walk.perPage, walk.perPage)
  BY <1>3, <1>4, <1>7, <1>10, Zenon DEF Found
<1> QED
  BY <1>1, <1>2, <1>11

LEMMA RowsWalk ==
    ASSUME WalkInv, ReadRows
    PROVE  OnAPage' /\ NeverTwice' /\ NeverHidden'
<1>1. /\ walk.pc = "rows" /\ walk'.pc \in {"failed", "total"}
      /\ walk'.query = walk.query /\ walk'.page = walk.page /\ walk'.perPage = walk.perPage
      /\ walk'.seen = walk.seen /\ walk'.start = walk.start
      /\ walk'.added = walk.added /\ walk'.gone = walk.gone
      /\ UNCHANGED <<docs, created, writes>>
  BY RowsFields DEF WalkInv, ListTyped
<1>2. Ordinary(walk') => Ordinary(walk)
  BY <1>1 DEF Ordinary
<1>3. Found' = Found
  BY <1>1 DEF Found
<1>4. OnAPage'
  BY <1>1, <1>2 DEF OnAPage, WalkInv
<1>5. ASSUME walk'.pc = "total", Ordinary(walk')
      PROVE  /\ ~walk'.added => NeverTwice'
             /\ ~walk'.gone => NeverHidden'
  <2> DEFINE p == walk.perPage
             skip == (walk.page - 1) * p
             rows == walk'.rows
  <2>1. /\ walk.page \in Nat /\ p \in Nat /\ p > 0
        /\ rows \in Seq(1..created) /\ walk.seen \in Seq(1..created)
        /\ OnPage(rows, Found, skip, p)
    BY <1>2, <1>5, ReadPage DEF WalkInv, ListTyped
  <2>2. skip \in Int /\ skip + p = walk.page * p
    BY <2>1
  <2>3. walk.rows = << >> /\ walk.seen \o walk.rows = walk.seen
    BY <1>1, <1>2, <1>5, <2>1, EmptyFacts DEF WalkInv, OnAPage
  <2>4. Seen = ToSet(walk.seen) /\ Seen' = Seen \cup ToSet(rows)
    BY <1>1, <2>1, <2>3, ConcatSet DEF Seen
  <2>5. Found \in SUBSET Nat /\ IsFiniteSet(Found) /\ \A x : Rank(Found, x) \in Nat
    BY FoundFinite, RankType DEF WalkInv
  <2> HIDE DEF p, skip, rows
  <2>6. \A x : x \in ToSet(rows) <=>
             x \in Found /\ skip < Rank(Found, x) /\ Rank(Found, x) <= skip + p
    BY <2>1, ToSetOK DEF OnPage
  <2>7. ASSUME ~walk'.added PROVE NeverTwice'
    <3>1. ~walk.added
      BY <1>1, <2>7
    <3>2. /\ IsInjective(walk.seen)
          /\ \A x \in Seen \cap Found : Rank(Found, x) <= skip
      BY <1>1, <1>2, <1>5, <2>3, <3>1 DEF WalkInv, NeverTwice, skip, p
    <3>3. IsInjective(rows)
      BY <2>1, InjectiveSeq DEF OnPage
    <3>4. \A x \in ToSet(walk.seen) : x \notin ToSet(rows)
      BY <2>2, <2>4, <2>5, <2>6, <3>2
    <3>5. IsInjective(walk.seen \o rows)
      BY <2>1, <3>2, <3>3, <3>4, ConcatInjective
    <3>6. \A x \in Seen' \cap Found : Rank(Found, x) <= walk.page * p
      BY <2>1, <2>2, <2>4, <2>5, <2>6, <3>2
    <3> QED
      BY <1>1, <1>3, <1>5, <3>5, <3>6, Zenon DEF NeverTwice, rows, p
  <2>8. ASSUME ~walk'.gone PROVE NeverHidden'
    <3>1. ~walk.gone
      BY <1>1, <2>8
    <3>2. /\ walk.start \subseteq Found
          /\ \A x \in walk.start : Rank(Found, x) <= skip => x \in Seen
      BY <1>1, <1>2, <1>5, <3>1 DEF WalkInv, NeverHidden, skip, p
    <3>3. \A x \in walk.start : Rank(Found, x) <= walk.page * p => x \in Seen'
      BY <2>1, <2>2, <2>4, <2>5, <2>6, <3>2
    <3> QED
      BY <1>1, <1>3, <1>5, <3>2, <3>3 DEF NeverHidden, p
  <2> QED
    BY <2>7, <2>8, Zenon
<1>6. NeverTwice' /\ NeverHidden'
  <2>1. CASE walk'.pc = "total" /\ Ordinary(walk')
    <3>1. walk'.added => NeverTwice'
      BY Zenon DEF NeverTwice
    <3>2. walk'.gone => NeverHidden'
      BY Zenon DEF NeverHidden
    <3> QED
      BY <1>5, <2>1, <3>1, <3>2, Zenon
  <2>2. CASE walk'.pc = "failed"
    BY <2>2 DEF NeverTwice, NeverHidden
  <2>3. CASE ~Ordinary(walk')
    BY <2>3, Zenon DEF NeverTwice, NeverHidden
  <2> QED
    BY <1>1, <2>1, <2>2, <2>3
<1> QED
  BY <1>4, <1>6

LEMMA FoundCounted ==
    ASSUME ListTyped, walk.pc = "total"
    PROVE  Total \in Nat /\ Cardinality(Found) <= Total
<1> DEFINE q == walk.query
<1>1. Find(q) \subseteq TotalFind(q)
  <2>1. q \in Queries
    BY DEF ListTyped
  <2>2. CASE q.list = "role"
    <3>1. Find(q) = RoleFind(q)
      BY <2>2 DEF Find
    <3>2. RoleFind(q) \subseteq Tags
      BY <2>1, ListingAssumption DEF RoleFind, DtoSearch
    <3> QED
      BY <2>2, <3>1, <3>2 DEF TotalFind
  <2>3. CASE q.list # "role"
    BY <2>3 DEF TotalFind
  <2> QED
    BY <2>2, <2>3
<1> PICK all : all = Matching(docs, TotalFind(q), FALSE)
  OBVIOUS
<1>2. IsFiniteSet(all) /\ Found \subseteq all
  <2>1. IsFiniteSet(all)
    BY DocsFinite DEF ListTyped
  <2>2. Found \subseteq all
    BY <1>1 DEF Found, Matching
  <2> QED
    BY <2>1, <2>2
<1>3. Total = Cardinality(all)
  BY DEF Total, GetTotal
<1>4. Cardinality(Found) <= Cardinality(all)
  BY <1>2, FS_Subset
<1> QED
  BY <1>2, <1>3, <1>4, FS_CardinalityType

LEMMA TotalWalk ==
    ASSUME WalkInv, ReadTotal
    PROVE  OnAPage' /\ NeverTwice' /\ NeverHidden'
<1> DEFINE p == walk.perPage
<1> PICK tp : tp = TotalPage(Total, p)
  OBVIOUS
<1>1. /\ walk.pc = "total"
      /\ walk'.pc = IF NextPage = None THEN "done" ELSE "rows"
      /\ walk'.page = IF NextPage = None THEN walk.page ELSE DtoPage(NextPage)
      /\ walk'.perPage = DtoPerPage(p)
      /\ walk'.query = walk.query
      /\ walk'.rows = << >> /\ walk'.seen = walk.seen \o walk.rows
      /\ walk'.start = walk.start
      /\ walk'.added = walk.added /\ walk'.gone = walk.gone
      /\ UNCHANGED <<docs, created, writes>>
  BY TotalFields DEF WalkInv, ListTyped
<1>2. ~walk'.capped => ~(Total > MaxPage * p)
  BY TotalFields, Zenon DEF WalkInv, ListTyped
<1>3. /\ walk.page \in Int /\ walk.page <= MaxPage /\ p \in Int /\ p <= MaxPerPage /\ p # 0
      /\ walk.seen \in Seq(1..created) /\ walk.rows \in Seq(1..created)
  BY <1>1 DEF WalkInv, ListTyped
<1>4. walk'.perPage = p
  BY <1>1, <1>3, DtoPerPageOK
<1>5. Total \in Nat /\ Cardinality(Found) <= Total
  BY <1>1, FoundCounted DEF WalkInv
<1> HIDE DEF p
<1>6. /\ tp \in Int /\ tp <= MaxPage
      /\ p > 0 => /\ tp >= 1
                  /\ Total <= MaxPage * p => \A page \in Nat : page >= tp => Total <= page * p
  BY <1>3, <1>5, TotalPageOK
<1>7. /\ NextPage = IF walk.page < tp THEN walk.page + 1 ELSE None
      /\ NextPage = None <=> walk.page >= tp
  BY <1>3, <1>6, NextPageOK DEF NextPage, p
<1>8. Ordinary(walk') => Ordinary(walk) /\ p > 0 /\ walk.page \in Nat
  BY <1>1, <1>4 DEF WalkInv, OnAPage, Ordinary, p
<1>9. Found' = Found
  BY <1>1 DEF Found
<1>10. Seen' = Seen /\ walk'.seen \o walk'.rows = walk.seen \o walk.rows
  <2>1. walk.seen \o walk.rows \in Seq(1..created)
    BY <1>3, ConcatProperties
  <2> QED
    BY <1>1, <2>1, EmptyFacts DEF Seen
<1>11. ASSUME Ordinary(walk'), walk'.pc = "rows"
       PROVE  walk'.page \in Nat /\ walk'.page - 1 = walk.page
  <2>1. walk.page < tp /\ NextPage = walk.page + 1
    BY <1>1, <1>3, <1>6, <1>7, <1>11
  <2>2. walk.page + 1 \in Int /\ walk.page + 1 # 0 /\ walk.page + 1 <= MaxPage
    BY <1>3, <1>6, <1>8, <1>11, <2>1, PaginationAssumption
  <2>3. DtoPage(walk.page + 1) = walk.page + 1
    BY <2>2, DtoPageOK
  <2>4. walk'.page = walk.page + 1
    BY <1>1, <1>11, <2>1, <2>3
  <2> QED
    BY <1>3, <1>8, <1>11, <2>4
<1>12. OnAPage'
  <2>1. walk'.pc = "done" => walk'.page = walk.page
    BY <1>1
  <2> QED
    BY <1>1, <1>8, <1>11, <2>1 DEF OnAPage
<1>13. ASSUME Ordinary(walk'), ~walk'.added PROVE NeverTwice'
  <2>1. ~walk.added
    BY <1>1, <1>13
  <2>2. /\ IsInjective(walk.seen \o walk.rows)
        /\ \A x \in Seen \cap Found : Rank(Found, x) <= walk.page * p
    BY <1>1, <1>8, <1>13, <2>1 DEF WalkInv, NeverTwice, p
  <2>3. IsInjective(walk'.seen \o walk'.rows)
    BY <1>10, <2>2
  <2>4. walk'.pc = "rows" =>
           \A x \in Seen' \cap Found' : Rank(Found', x) <= (walk'.page - 1) * walk'.perPage
    BY <1>4, <1>9, <1>10, <1>11, <1>13, <2>2
  <2>5. walk'.pc # "total"
    BY <1>1
  <2> QED
    BY <2>3, <2>4, <2>5, Zenon DEF NeverTwice
<1>14. ASSUME Ordinary(walk'), ~walk'.gone PROVE NeverHidden'
  <2>1. ~walk.gone
    BY <1>1, <1>14
  <2>2. /\ walk.start \subseteq Found
        /\ \A x \in walk.start : Rank(Found, x) <= walk.page * p => x \in Seen
    BY <1>1, <1>8, <1>14, <2>1 DEF WalkInv, NeverHidden, p
  <2>3. walk'.pc = "rows" =>
           \A x \in walk'.start : Rank(Found', x) <= (walk'.page - 1) * walk'.perPage => x \in Seen'
    BY <1>1, <1>4, <1>9, <1>10, <1>11, <1>14, <2>2
  <2>4. ASSUME walk'.pc = "done", ~walk'.capped PROVE walk'.start \subseteq Seen'
    <3>1. ~(Total > MaxPage * p)
      BY <1>2, <2>4, Zenon
    <3>2. walk.page >= tp
      BY <1>1, <1>7, <2>4
    <3>3. MaxPage * p \in Int /\ walk.page * p \in Int
      BY <1>3, ProductSigns, PaginationAssumption
    <3>4. Total <= walk.page * p
      BY <1>5, <1>6, <1>8, <1>14, <3>1, <3>2, <3>3
    <3>5. \A x : Rank(Found, x) \in Nat /\ Cardinality(Found) \in Nat
                 /\ Rank(Found, x) <= Cardinality(Found)
      BY FoundFinite, RankType DEF WalkInv
    <3>6. \A x : Rank(Found, x) <= walk.page * p
      BY <1>5, <3>3, <3>4, <3>5
    <3> QED
      BY <1>1, <1>10, <2>2, <3>6
  <2>5. walk'.pc # "total" /\ walk'.start \subseteq Found'
    BY <1>1, <1>9, <2>2
  <2> QED
    BY <2>3, <2>4, <2>5, Zenon DEF NeverHidden
<1>15. NeverTwice' /\ NeverHidden'
  <2>1. walk'.added \/ ~Ordinary(walk') => NeverTwice'
    BY Zenon DEF NeverTwice
  <2>2. walk'.gone \/ ~Ordinary(walk') => NeverHidden'
    BY Zenon DEF NeverHidden
  <2> QED
    BY <1>13, <1>14, <2>1, <2>2, Zenon
<1> QED
  BY <1>12, <1>15

LEMMA WriteWalk ==
    ASSUME WalkInv, Write
    PROVE  OnAPage' /\ NeverTwice' /\ NeverHidden'
<1>1. Untouched /\ Marked
  BY WriteStep DEF WalkInv, ListTyped
<1>2. /\ walk'.pc = walk.pc /\ walk'.query = walk.query
      /\ walk'.page = walk.page /\ walk'.perPage = walk.perPage
      /\ walk'.rows = walk.rows /\ walk'.seen = walk.seen /\ walk'.start = walk.start
      /\ walk.pc \in {"idle", "rows", "total"}
  BY <1>1 DEF Untouched
<1>3. Ordinary(walk') => Ordinary(walk)
  BY <1>2 DEF Ordinary
<1>4. OnAPage'
  BY <1>2, <1>3 DEF WalkInv, OnAPage
<1>5. Seen' = Seen /\ walk'.seen \o walk'.rows = walk.seen \o walk.rows
  BY <1>2 DEF Seen
<1>6. /\ Shrinks(docs, docs') => Found' \subseteq Found
      /\ Grows(docs, docs') => Found \subseteq Found'
  <2>1. Found' = Matching(docs', Find(walk.query), FALSE)
    BY <1>2 DEF Found
  <2> QED
    BY <2>1 DEF Found, Shrinks, Grows
<1>7. /\ Found \in SUBSET Nat /\ IsFiniteSet(Found)
      /\ Found' \in SUBSET Nat /\ IsFiniteSet(Found')
  <2>1. ListTyped'
    BY WriteTyped DEF WalkInv
  <2>2. (Found \in SUBSET Nat /\ IsFiniteSet(Found))'
    BY <2>1, FoundFinite, PTL
  <2> QED
    BY <2>2, FoundFinite DEF WalkInv
<1> PICK F : F = Found
  OBVIOUS
<1> PICK G : G = Found'
  OBVIOUS
<1>8. \A x : Rank(F, x) \in Nat /\ Rank(G, x) \in Nat
  BY <1>7, RankType
<1>9. /\ G \subseteq F => \A x : Rank(G, x) <= Rank(F, x)
      /\ F \subseteq G => \A x : Rank(F, x) <= Rank(G, x)
  BY <1>7, RankMonotone
<1>10. CASE walk.pc = "idle"
  BY <1>2, <1>4, <1>10 DEF NeverTwice, NeverHidden
<1>11. CASE walk.pc # "idle"
  <2>1. /\ walk.page \in Int /\ walk.perPage \in Int
        /\ (walk.page - 1) * walk.perPage \in Int /\ walk.page * walk.perPage \in Int
    BY ProductSigns DEF WalkInv, ListTyped
  <2>2. ASSUME Ordinary(walk'), ~walk'.added PROVE NeverTwice'
    <3>1. ~walk.added /\ G \subseteq F
      BY <1>1, <1>6, <1>11, <2>2, Zenon DEF Marked
    <3>2. /\ IsInjective(walk.seen \o walk.rows)
          /\ walk.pc = "rows" => \A x \in Seen \cap F : Rank(F, x) <= (walk.page - 1) * walk.perPage
          /\ walk.pc = "total" => \A x \in Seen \cap F : Rank(F, x) <= walk.page * walk.perPage
      BY <1>2, <1>3, <1>11, <2>2, <3>1, Zenon DEF WalkInv, NeverTwice
    <3>3. /\ walk.pc = "rows" => \A x \in Seen \cap G : Rank(G, x) <= (walk.page - 1) * walk.perPage
          /\ walk.pc = "total" => \A x \in Seen \cap G : Rank(G, x) <= walk.page * walk.perPage
      BY <1>8, <1>9, <2>1, <3>1, <3>2
    <3> QED
      BY <1>2, <1>5, <3>2, <3>3, Zenon DEF NeverTwice
  <2>3. ASSUME Ordinary(walk'), ~walk'.gone PROVE NeverHidden'
    <3>1. ~walk.gone /\ F \subseteq G
      BY <1>1, <1>6, <1>11, <2>3, Zenon DEF Marked
    <3>2. /\ walk.start \subseteq F
          /\ walk.pc = "rows" =>
                \A x \in walk.start : Rank(F, x) <= (walk.page - 1) * walk.perPage => x \in Seen
          /\ walk.pc = "total" =>
                \A x \in walk.start : Rank(F, x) <= walk.page * walk.perPage => x \in Seen
      BY <1>2, <1>3, <1>11, <2>3, <3>1, Zenon DEF WalkInv, NeverHidden
    <3>3. /\ walk.start \subseteq G
          /\ walk.pc = "rows" =>
                \A x \in walk.start : Rank(G, x) <= (walk.page - 1) * walk.perPage => x \in Seen
          /\ walk.pc = "total" =>
                \A x \in walk.start : Rank(G, x) <= walk.page * walk.perPage => x \in Seen
      BY <1>8, <1>9, <2>1, <3>1, <3>2
    <3>4. walk'.pc # "done"
      BY <1>2
    <3> QED
      BY <1>2, <1>5, <3>3, <3>4, Zenon DEF NeverHidden
  <2>4. walk'.added \/ ~Ordinary(walk') => NeverTwice'
    BY Zenon DEF NeverTwice
  <2>5. walk'.gone \/ ~Ordinary(walk') => NeverHidden'
    BY Zenon DEF NeverHidden
  <2> QED
    BY <1>4, <2>2, <2>3, <2>4, <2>5, Zenon
<1> QED
  BY <1>10, <1>11

LEMMA WalkInvStep == WalkInv /\ [Next]_vars => WalkInv'
<1>1. ASSUME WalkInv, [Next]_vars PROVE ListTyped'
  BY <1>1, ListTypedStep DEF WalkInv
<1>2. ASSUME WalkInv, UNCHANGED vars PROVE OnAPage' /\ NeverTwice' /\ NeverHidden'
  <2>1. walk' = walk /\ docs' = docs
    BY <1>2 DEF vars
  <2>2. Found' = Found /\ Seen' = Seen
    BY <2>1 DEF Found, Seen
  <2>3. OnAPage' /\ NeverTwice' /\ NeverHidden'
    BY <1>2, <2>1, <2>2, Zenon DEF WalkInv, OnAPage, NeverTwice, NeverHidden
  <2> QED
    BY <2>3
<1>3. Next => (\E q \in Queries : Ask(q)) \/ ReadRows \/ ReadTotal \/ Write
  BY Zenon DEF Next, Handlers, Write
<1>4. ASSUME WalkInv, [Next]_vars PROVE OnAPage' /\ NeverTwice' /\ NeverHidden'
  BY <1>2, <1>3, <1>4, AskWalk, RowsWalk, TotalWalk, WriteWalk
<1> QED
  BY <1>1, <1>4 DEF WalkInv

\* Whatever is created while a client walks, and however the pages are cut: unless rows go or the
\* caps are reached, what was there at the start has been listed at the end.
THEOREM InsertsSafe == Spec => []InsertsNeverHide
<1>1. WalkInv => InsertsNeverHide
  <2> SUFFICES ASSUME WalkInv, walk.pc = "done", Ordinary(walk), ~walk.gone, ~walk.capped
               PROVE  walk.start \subseteq ToSet(walk.seen)
    BY Zenon DEF InsertsNeverHide
  <2>1. walk.start \subseteq Seen
    BY Zenon DEF WalkInv, NeverHidden
  <2>2. walk.rows = << >>
    BY DEF WalkInv, OnAPage
  <2>3. walk.seen \o walk.rows = walk.seen
    BY <2>2, EmptyFacts DEF WalkInv, ListTyped
  <2> QED
    BY <2>1, <2>3 DEF Seen
<1>2. Init => WalkInv
  BY ListTypedInit, WalkInvInit DEF WalkInv
<1> QED
  BY <1>1, <1>2, WalkInvStep, PTL DEF Spec

\* Whatever is removed while a client walks: no row is listed twice.
THEOREM RemovalsSafe == Spec => []RemovalsNeverRepeat
<1>1. WalkInv => RemovalsNeverRepeat
  BY Zenon DEF WalkInv, NeverTwice, RemovalsNeverRepeat
<1>2. Init => WalkInv
  BY ListTypedInit, WalkInvInit DEF WalkInv
<1> QED
  BY <1>1, <1>2, WalkInvStep, PTL DEF Spec
-----------------------------------------------------------------------------
(* The two repository classes *)

LEMMA SameParts ==
    /\ \A c, deleted : Oid!R!Visible(c, deleted) = Visible(c, deleted)
    /\ \A c, find, deleted : Oid!R!Matching(c, find, deleted) = Matching(c, find, deleted)
    /\ \A f, g : Oid!R!Over(f, g) = Over(f, g)
    /\ \A c, S, data : Oid!R!Set(c, S, data) = Set(c, S, data)
    /\ \A c, S : Oid!R!Drop(c, S) = Drop(c, S)
    /\ \A S : Oid!R!AnyOf(S) = AnyOf(S)
    /\ Oid!R!Undefined = Undefined
    /\ \A S : Oid!Cardinality(S) = Cardinality(S)
    /\ \A S : Oid!SetToSeqs(S) = SetToSeqs(S)
<1>1. \A c, deleted : Oid!R!Visible(c, deleted) = Visible(c, deleted)
  BY DEF Visible, Oid!R!Visible
<1>2. \A c, find, deleted : Oid!R!Matching(c, find, deleted) = Matching(c, find, deleted)
  BY <1>1 DEF Matching, Oid!R!Matching
<1>3. \A f, g : Oid!R!Over(f, g) = Over(f, g)
  BY DEF Over, Oid!R!Over
<1>4. \A c, S, data : Oid!R!Set(c, S, data) = Set(c, S, data)
  BY <1>3 DEF Set, Oid!R!Set
<1>5. \A c, S : Oid!R!Drop(c, S) = Drop(c, S)
  BY DEF Drop, Oid!R!Drop, Restrict, Oid!R!Restrict
<1>6. \A S : Oid!R!AnyOf(S) = AnyOf(S)
  BY Zenon DEF AnyOf, Oid!R!AnyOf
<1>7. Oid!R!Undefined = Undefined
  BY DEF Undefined, Oid!R!Undefined
<1>8. \A S : Oid!Cardinality(S) = Cardinality(S)
  BY Zenon DEF Cardinality, Oid!Cardinality
<1>9. \A S : Oid!SetToSeqs(S) = SetToSeqs(S)
  BY <1>8, Zenon DEF SetToSeqs, Oid!SetToSeqs
<1> QED
  BY <1>1, <1>2, <1>3, <1>4, <1>5, <1>6, <1>7, <1>8, <1>9

LEMMA SameReads ==
    ASSUME NEW c, NEW find, NEW deleted
    PROVE  /\ FindOne(c, find, deleted) = Oid!FindOne(c, find, deleted)
           /\ GetTotal(c, find, deleted) = Oid!GetTotal(c, find, deleted)
           /\ \A id : FindOneById(c, id, deleted) = Oid!FindOneById(c, id, deleted)
           /\ \A isArray : Raw(c, isArray) = Oid!Raw(c, isArray)
<1>1. FindOne(c, find, deleted) = Oid!FindOne(c, find, deleted)
  BY SameParts DEF FindOne, Oid!FindOne
<1>2. GetTotal(c, find, deleted) = Oid!GetTotal(c, find, deleted)
  BY SameParts, Zenon DEF GetTotal, Oid!GetTotal
<1>3. \A id : FindOneById(c, id, deleted) = Oid!FindOneById(c, id, deleted)
  BY DEF FindOneById, Oid!FindOneById, Visible
<1>4. \A isArray : Raw(c, isArray) = Oid!Raw(c, isArray)
  BY DEF Raw, Oid!Raw
<1> QED
  BY <1>1, <1>2, <1>3, <1>4

LEMMA SameExists ==
    ASSUME NEW c, NEW find, NEW deleted, NEW S \in SUBSET (1..MaxDocs)
    PROVE  Exists(c, find, S, deleted) = Oid!Exists(c, find, S, deleted)
<1>1. Oid!Converts(S)
  BY DEF Oid!Converts
<1> PICK M : M = Matching(c, find, deleted)
  OBVIOUS
<1>2. Oid!R!Matching(c, find, deleted) = M
  BY SameParts
<1>3. Exists(c, find, S, deleted) = (M \ S # {})
  BY DEF Exists
<1>4. Oid!Exists(c, find, S, deleted) = (\E i \in M : i \notin S)
  BY <1>1, <1>2, Zenon DEF Oid!Exists
<1>5. (M \ S # {}) <=> \E i \in M : i \notin S
  OBVIOUS
<1> QED
  BY <1>3, <1>4, <1>5, Zenon

LEMMA SameFindAll ==
    ASSUME NEW c, NEW find, NEW deleted, NEW type \in {"ASC", "DESC"},
           NEW field, NEW skip, NEW o,
           o = [withDeleted |-> deleted, limit |-> 2, skip |-> skip,
                sort |-> [field |-> field, type |-> type]]
    PROVE  FindAll(c, find, o) = Oid!FindAll(c, find, o)
<1>1. o.withDeleted = deleted /\ o.sort.field = field /\ o.sort.type = type
  OBVIOUS
<1> PICK M : M = Matching(c, find, o.withDeleted)
  OBVIOUS
<1> DEFINE ordered == {q \in SetToSeqs(M) : \A m, n \in DOMAIN q :
                         m < n => Oid!Order(c, o.sort.field, o.sort.type, q[m], q[n])}
<1>2. Oid!R!Matching(c, find, o.withDeleted) = M /\ Oid!SetToSeqs(M) = SetToSeqs(M)
  BY SameParts
<1>3. ASSUME NEW i, NEW j
      PROVE  Oid!Order(c, field, type, i, j)
                <=> IF ConvertSort(type) = 1 THEN Ascending(c, field, i, j)
                                             ELSE Ascending(c, field, j, i)
  BY DEF Oid!Order, ConvertSort, Ascending, Oid!R!Ascending
<1>4. ordered = Sorted(c, M, o.sort)
  BY <1>1, <1>3 DEF Sorted
<1> HIDE DEF ordered
<1>5. Oid!FindAll(c, find, o) =
        LET size == IF o.limit < 0 THEN -o.limit ELSE o.limit
        IN IF o.skip < 0 THEN {Error}
           ELSE {SubSeq(q, o.skip + 1, IF o.skip + size > Len(q) THEN Len(q) ELSE o.skip + size) :
                   q \in ordered}
  BY <1>2, Zenon DEF Oid!FindAll, ordered
<1>6. FindAll(c, find, o) =
        LET size == IF o.limit < 0 THEN -o.limit ELSE o.limit
        IN IF o.skip < 0 THEN {Error}
           ELSE {SubSeq(q, o.skip + 1, IF o.skip + size > Len(q) THEN Len(q) ELSE o.skip + size) :
                   q \in Sorted(c, M, o.sort)}
  BY Zenon DEF FindAll
<1> QED
  BY <1>4, <1>5, <1>6, Zenon

LEMMA SameCreate ==
    ASSUME NEW c, NEW id \in 1..MaxDocs, NEW t
    PROVE  /\ Create(c, id, t) = Oid!Create(c, id, t)
           /\ \A first \in 1..MaxDocs :
                 LET rows == <<[id |-> id, tag |-> t], [id |-> first, tag |-> t]>>
                 IN CreateMany(c, rows) = Oid!CreateMany(c, rows)
<1>1. Oid!R!NewDoc(t) = NewDoc(t)
  BY DEF NewDoc, Oid!R!NewDoc
<1>2. Create(c, id, t) = Oid!Create(c, id, t)
  <2>1. CASE id \in DOMAIN c
    BY <2>1 DEF Create, Oid!Create
  <2>2. CASE id \notin DOMAIN c
    BY <1>1, <2>2, SameParts DEF Create, Oid!Create
  <2> QED
    BY <2>1, <2>2
<1>3. ASSUME NEW first \in 1..MaxDocs, NEW rows,
             rows = <<[id |-> id, tag |-> t], [id |-> first, tag |-> t]>>
      PROVE  CreateMany(c, rows) = Oid!CreateMany(c, rows)
  <2>1. {rows[n].id : n \in DOMAIN rows} \subseteq 1..MaxDocs
    BY <1>3
  <2>2. Oid!CreateMany(c, rows) = Oid!R!CreateMany(c, rows)
    BY <2>1 DEF Oid!CreateMany, Oid!Converts
  <2>3. \A tag : Oid!R!NewDoc(tag) = NewDoc(tag)
    BY DEF NewDoc, Oid!R!NewDoc
  <2>4. Oid!R!CreateMany(c, rows) = CreateMany(c, rows)
    <3> DEFINE taken(m) == rows[m].id \in DOMAIN c
                             \/ \E k \in 1..(m - 1) : rows[k].id = rows[m].id
               stored == {m \in DOMAIN rows : \A k \in 1..m : ~taken(k)}
               row(i) == rows[CHOOSE m \in stored : rows[m].id = i]
               D == {rows[m].id : m \in stored}
    <3>1. CreateMany(c, rows) = Over(c, [i \in D |-> NewDoc(row(i).tag)])
      BY Zenon DEF CreateMany
    <3>2. Oid!R!CreateMany(c, rows) = Oid!R!Over(c, [i \in D |-> Oid!R!NewDoc(row(i).tag)])
      BY Zenon DEF Oid!R!CreateMany
    <3> HIDE DEF D, row
    <3>3. [i \in D |-> NewDoc(row(i).tag)] = [i \in D |-> Oid!R!NewDoc(row(i).tag)]
      BY <2>3
    <3> QED
      BY <3>1, <3>2, <3>3, SameParts
  <2> QED
    BY <2>2, <2>4
<1> QED
  BY <1>2, <1>3

LEMMA SetOne ==
    ASSUME NEW n, NEW c, DocsOK(c, n), NEW data, NEW i \in DOMAIN c
    PROVE  /\ Set(c, {i}, data) = [c EXCEPT ![i] = Over(data, @)]
           /\ Set(c, {}, data) = c
BY DEF DocsOK, Set

LEMMA SoftDeleteOneIs ==
    ASSUME NEW n, NEW c, DocsOK(c, n), NEW i \in DOMAIN c
    PROVE  Set(c, {i}, [deleted |-> TRUE]) = [c EXCEPT ![i].deleted = TRUE]
<1> PICK yes : yes = TRUE
  OBVIOUS
<1> PICK data : data = [deleted |-> yes]
  OBVIOUS
<1>1. c[i] \in Doc
  BY DEF DocsOK
<1>2. Over(data, c[i]) = [c[i] EXCEPT !.deleted = yes]
  <2> PICK d \in Doc : d = c[i]
    BY <1>1
  <2>1. DOMAIN data = {"deleted"} /\ data["deleted"] = yes
    OBVIOUS
  <2>2. DOMAIN d = {"tag", "deleted"} /\ d = [x \in {"tag", "deleted"} |-> d[x]]
    BY DocFields DEF Doc
  <2>3. Over(data, d) = [x \in {"tag", "deleted"} |-> IF x = "deleted" THEN yes ELSE d[x]]
    BY <2>1, <2>2 DEF Over
  <2>4. [d EXCEPT !.deleted = yes] = [x \in {"tag", "deleted"} |-> IF x = "deleted" THEN yes ELSE d[x]]
    BY <2>2
  <2> QED
    BY <2>3, <2>4
<1>3. Set(c, {i}, data) = [c EXCEPT ![i] = [c[i] EXCEPT !.deleted = yes]]
  <2>1. Set(c, {i}, data) = [c EXCEPT ![i] = Over(data, c[i])]
    BY SetOne
  <2> QED
    BY <1>2, <2>1, Zenon
<1> QED
  BY <1>3

LEMMA SameById ==
    ASSUME NEW n, NEW c, DocsOK(c, n), NEW id, NEW data
    PROVE  /\ UpdateOneById(c, id, data) = Oid!UpdateOneById(c, id, data)
           /\ DeleteOneById(c, id) = Oid!DeleteOneById(c, id)
           /\ SoftDeleteOneById(c, id) = Oid!SoftDeleteOneById(c, id)
           /\ RestoreOneById(c, id) = Oid!RestoreOneById(c, id)
<1>1. Oid!Live(c) = Visible(c, FALSE) /\ Oid!Gone(c) = Visible(c, TRUE)
  BY SameParts DEF Oid!Live, Oid!Gone
<1>2. Visible(c, FALSE) \subseteq DOMAIN c
  BY DEF Visible
<1>3. UpdateOneById(c, id, data) = Oid!UpdateOneById(c, id, data)
  <2>1. CASE id \in Visible(c, FALSE)
    <3>1. {id} \cap Visible(c, FALSE) = {id}
      BY <2>1
    <3>2. Set(c, {id}, data) = [c EXCEPT ![id] = Over(data, @)]
      BY <1>2, <2>1, SetOne
    <3> QED
      BY <1>1, <2>1, <3>1, <3>2, SameParts DEF UpdateOneById, Oid!UpdateOneById
  <2>2. CASE id \notin Visible(c, FALSE)
    <3>1. {id} \cap Visible(c, FALSE) = {}
      BY <2>2
    <3>2. Set(c, {}, data) = c
      BY DEF Set, DocsOK
    <3> QED
      BY <1>1, <2>2, <3>1, <3>2 DEF UpdateOneById, Oid!UpdateOneById
  <2> QED
    BY <2>1, <2>2
<1>4. DeleteOneById(c, id) = Oid!DeleteOneById(c, id)
  BY SameParts DEF DeleteOneById, Oid!DeleteOneById
<1>5. SoftDeleteOneById(c, id) = Oid!SoftDeleteOneById(c, id)
  <2> PICK yes : yes = [deleted |-> TRUE]
    OBVIOUS
  <2>1. CASE id \in Visible(c, FALSE)
    <3>1. {id} \cap Visible(c, FALSE) = {id}
      BY <2>1
    <3>2. Set(c, {id}, yes) = [c EXCEPT ![id].deleted = TRUE]
      BY <1>2, <2>1, SoftDeleteOneIs
    <3> QED
      BY <1>1, <2>1, <3>1, <3>2, Zenon DEF SoftDeleteOneById, Oid!SoftDeleteOneById
  <2>2. CASE id \notin Visible(c, FALSE)
    <3>1. {id} \cap Visible(c, FALSE) = {}
      BY <2>2
    <3>2. Set(c, {}, yes) = c
      BY DEF Set, DocsOK
    <3> QED
      BY <1>1, <2>2, <3>1, <3>2, Zenon DEF SoftDeleteOneById, Oid!SoftDeleteOneById
  <2> QED
    BY <2>1, <2>2
<1>6. RestoreOneById(c, id) = Oid!RestoreOneById(c, id)
  BY <1>1, SameParts, Zenon DEF RestoreOneById, Oid!RestoreOneById
<1> QED
  BY <1>3, <1>4, <1>5, <1>6

LEMMA SameByFilter ==
    ASSUME NEW n, NEW c, DocsOK(c, n), NEW find, NEW data
    PROVE  /\ UpdateOne(c, find, data) = Oid!UpdateOne(c, find, data)
           /\ UpdateMany(c, find, data) = Oid!UpdateMany(c, find, data)
           /\ DeleteOne(c, find) = Oid!DeleteOne(c, find)
           /\ DeleteMany(c, find) = Oid!DeleteMany(c, find)
           /\ SoftDeleteOne(c, find) = Oid!SoftDeleteOne(c, find)
           /\ SoftDeleteMany(c, find) = Oid!SoftDeleteMany(c, find)
           /\ RestoreOne(c, find) = Oid!RestoreOne(c, find)
           /\ RestoreMany(c, find) = Oid!RestoreMany(c, find)
<1> PICK M : M = Matching(c, find, FALSE)
  OBVIOUS
<1>1. Oid!R!Matching(c, find, FALSE) = M
  BY SameParts, Zenon
<1>2. M \subseteq DOMAIN c
  BY DEF Matching, Visible
<1>3. UpdateOne(c, find, data) = Oid!UpdateOne(c, find, data)
  <2>1. UpdateOne(c, find, data) = {Set(c, S, data) : S \in AnyOf(M)}
    BY Zenon DEF UpdateOne
  <2>2. Oid!UpdateOne(c, find, data) =
           IF M = {} THEN {c} ELSE {[c EXCEPT ![i] = Oid!R!Over(data, @)] : i \in M}
    BY <1>1, Zenon DEF Oid!UpdateOne
  <2>3. CASE M = {}
    <3>1. Set(c, {}, data) = c
      BY DEF Set, DocsOK
    <3> QED
      BY <2>1, <2>2, <2>3, <3>1 DEF AnyOf
  <2>4. CASE M # {}
    <3> DEFINE Updated(i) == [c EXCEPT ![i] = Oid!R!Over(data, @)]
    <3>1. ASSUME NEW i \in M PROVE Set(c, {i}, data) = Updated(i)
      <4>1. Set(c, {i}, data) = [c EXCEPT ![i] = Over(data, c[i])]
        BY <1>2, SetOne
      <4>2. Oid!R!Over(data, c[i]) = Over(data, c[i])
        BY SameParts
      <4> QED
        BY <4>1, <4>2, Zenon
    <3>2. UpdateOne(c, find, data) = {Set(c, {i}, data) : i \in M}
      BY <2>1, <2>4 DEF AnyOf
    <3>3. Oid!UpdateOne(c, find, data) = {Updated(i) : i \in M}
      BY <2>2, <2>4, Zenon
    <3> HIDE DEF Updated
    <3> QED
      BY <3>1, <3>2, <3>3
  <2> QED
    BY <2>3, <2>4
<1>4. UpdateMany(c, find, data) = Oid!UpdateMany(c, find, data)
  BY SameParts, Zenon DEF UpdateMany, Oid!UpdateMany
<1>5. DeleteOne(c, find) = Oid!DeleteOne(c, find)
  BY SameParts DEF DeleteOne, Oid!DeleteOne
<1>6. DeleteMany(c, find) = Oid!DeleteMany(c, find)
  BY SameParts, Zenon DEF DeleteMany, Oid!DeleteMany
<1>7. SoftDeleteOne(c, find) = Oid!SoftDeleteOne(c, find)
  <2> PICK yes : yes = [deleted |-> TRUE]
    OBVIOUS
  <2>1. SoftDeleteOne(c, find) = {Set(c, S, yes) : S \in AnyOf(M)}
    BY Zenon DEF SoftDeleteOne
  <2>2. Oid!SoftDeleteOne(c, find) =
           IF M = {} THEN {c} ELSE {[c EXCEPT ![i].deleted = TRUE] : i \in M}
    BY <1>1, Zenon DEF Oid!SoftDeleteOne
  <2>3. CASE M = {}
    <3>1. Set(c, {}, yes) = c
      BY DEF Set, DocsOK
    <3>2. Oid!SoftDeleteOne(c, find) = {c}
      BY <2>2, <2>3, Zenon
    <3> QED
      BY <2>1, <2>3, <3>1, <3>2 DEF AnyOf
  <2>4. CASE M # {}
    <3> DEFINE Softened(i) == [c EXCEPT ![i].deleted = TRUE]
    <3>1. ASSUME NEW i \in M PROVE Set(c, {i}, yes) = Softened(i)
      BY <1>2, SoftDeleteOneIs
    <3>2. SoftDeleteOne(c, find) = {Set(c, {i}, yes) : i \in M}
      BY <2>1, <2>4 DEF AnyOf
    <3>3. Oid!SoftDeleteOne(c, find) = {Softened(i) : i \in M}
      BY <2>2, <2>4, Zenon
    <3> HIDE DEF Softened
    <3>4. {Set(c, {i}, yes) : i \in M} = {Softened(i) : i \in M}
      BY <3>1
    <3> QED
      BY <3>2, <3>3, <3>4
  <2> QED
    BY <2>3, <2>4
<1>8. SoftDeleteMany(c, find) = Oid!SoftDeleteMany(c, find)
  BY SameParts, Zenon DEF SoftDeleteMany, Oid!SoftDeleteMany
<1>9. RestoreOne(c, find) = Oid!RestoreOne(c, find)
  BY DEF RestoreOne, Oid!RestoreOne
<1>10. RestoreMany(c, find) = Oid!RestoreMany(c, find)
  BY SameParts, Zenon DEF RestoreMany, Oid!RestoreMany
<1> QED
  BY <1>3, <1>4, <1>5, <1>6, <1>7, <1>8, <1>9, <1>10

LEMMA SameByIds ==
    ASSUME NEW c, NEW ids \in SUBSET (1..MaxDocs)
    PROVE  /\ DeleteManyByIds(c, ids) = Oid!DeleteManyByIds(c, ids)
           /\ SoftDeleteManyByIds(c, ids) = Oid!SoftDeleteManyByIds(c, ids)
           /\ RestoreManyByIds(c, ids) = Oid!RestoreManyByIds(c, ids)
<1>1. Oid!Live(c) = Visible(c, FALSE) /\ Oid!Gone(c) = Visible(c, TRUE)
  BY SameParts DEF Oid!Live, Oid!Gone
<1>2. Oid!Converts(ids)
  BY DEF Oid!Converts
<1>3. DeleteManyByIds(c, ids) = Oid!DeleteManyByIds(c, ids)
  BY <1>1, <1>2, SameParts, Zenon DEF DeleteManyByIds, Oid!DeleteManyByIds
<1>4. SoftDeleteManyByIds(c, ids) = Oid!SoftDeleteManyByIds(c, ids)
  BY <1>1, <1>2, SameParts, Zenon DEF SoftDeleteManyByIds, Oid!SoftDeleteManyByIds
<1>5. RestoreManyByIds(c, ids) = Oid!RestoreManyByIds(c, ids)
  BY <1>1, <1>2, SameParts, Zenon DEF RestoreManyByIds, Oid!RestoreManyByIds
<1> QED
  BY <1>3, <1>4, <1>5

\* The two repository classes answer every query alike, and leave the same documents,
\* whatever was created, updated, deleted and restored before: the argument needs of the
\* state only that the collection is one, with ids both classes can store
\* (database.mongo.uuid.repository.abstract.ts against its object-id twin).
THEOREM TwinsCorrect == Spec => []TwinsAgree
<1>1. ListTyped => TwinsAgree
  <2> SUFFICES ASSUME ListTyped
               PROVE  TwinsAgree
    OBVIOUS
  <2>1. DocsOK(docs, created) /\ created \in Nat /\ created <= MaxDocs
    BY DEF ListTyped
  <2>2. 1..created \in SUBSET (1..MaxDocs)
    BY <2>1, PaginationAssumption, ListingAssumption
  <2>3. DOMAIN docs \in SUBSET (1..MaxDocs)
    BY <2>1, <2>2 DEF DocsOK
  <2>4. ASSUME NEW find, NEW deleted
        PROVE  /\ \A type \in {"ASC", "DESC"}, field \in {"createdAt", "tag"}, skip \in {-1, 0, 1} :
                     LET o == [withDeleted |-> deleted, limit |-> 2, skip |-> skip,
                               sort |-> [field |-> field, type |-> type]]
                     IN FindAll(docs, find, o) = Oid!FindAll(docs, find, o)
               /\ FindOne(docs, find, deleted) = Oid!FindOne(docs, find, deleted)
               /\ GetTotal(docs, find, deleted) = Oid!GetTotal(docs, find, deleted)
               /\ \A S \in SUBSET DOMAIN docs :
                     Exists(docs, find, S, deleted) = Oid!Exists(docs, find, S, deleted)
    <3>1. ASSUME NEW type \in {"ASC", "DESC"}, NEW field \in {"createdAt", "tag"},
                 NEW skip \in {-1, 0, 1}, NEW o,
                 o = [withDeleted |-> deleted, limit |-> 2, skip |-> skip,
                      sort |-> [field |-> field, type |-> type]]
          PROVE  FindAll(docs, find, o) = Oid!FindAll(docs, find, o)
      BY <3>1, SameFindAll, Zenon
    <3>2. ASSUME NEW S \in SUBSET DOMAIN docs
          PROVE  Exists(docs, find, S, deleted) = Oid!Exists(docs, find, S, deleted)
      <4>1. S \in SUBSET (1..MaxDocs)
        BY <2>3
      <4> QED
        BY <4>1, SameExists, Zenon
    <3> QED
      BY <3>1, <3>2, SameReads, Zenon
  <2>5. ASSUME NEW id \in 1..MaxDocs, NEW t \in Tags
        PROVE  /\ \A deleted \in BOOLEAN :
                     FindOneById(docs, id, deleted) = Oid!FindOneById(docs, id, deleted)
               /\ Create(docs, id, t) = Oid!Create(docs, id, t)
               /\ UpdateOneById(docs, id, [tag |-> t]) = Oid!UpdateOneById(docs, id, [tag |-> t])
               /\ DeleteOneById(docs, id) = Oid!DeleteOneById(docs, id)
               /\ SoftDeleteOneById(docs, id) = Oid!SoftDeleteOneById(docs, id)
               /\ RestoreOneById(docs, id) = Oid!RestoreOneById(docs, id)
               /\ LET rows == <<[id |-> id, tag |-> t], [id |-> 1, tag |-> t]>>
                  IN CreateMany(docs, rows) = Oid!CreateMany(docs, rows)
    <3>1. 1 \in 1..MaxDocs
      BY PaginationAssumption, ListingAssumption
    <3>2. \A deleted \in BOOLEAN :
             FindOneById(docs, id, deleted) = Oid!FindOneById(docs, id, deleted)
      BY SameReads, Zenon
    <3>3. /\ UpdateOneById(docs, id, [tag |-> t]) = Oid!UpdateOneById(docs, id, [tag |-> t])
          /\ DeleteOneById(docs, id) = Oid!DeleteOneById(docs, id)
          /\ SoftDeleteOneById(docs, id) = Oid!SoftDeleteOneById(docs, id)
          /\ RestoreOneById(docs, id) = Oid!RestoreOneById(docs, id)
      BY <2>1, SameById, Zenon
    <3> QED
      BY <3>1, <3>2, <3>3, SameCreate, Zenon
  <2>6. ASSUME NEW find, NEW t
        PROVE  /\ UpdateOne(docs, find, [tag |-> t]) = Oid!UpdateOne(docs, find, [tag |-> t])
               /\ UpdateMany(docs, find, [tag |-> t]) = Oid!UpdateMany(docs, find, [tag |-> t])
               /\ DeleteOne(docs, find) = Oid!DeleteOne(docs, find)
               /\ DeleteMany(docs, find) = Oid!DeleteMany(docs, find)
               /\ SoftDeleteOne(docs, find) = Oid!SoftDeleteOne(docs, find)
               /\ SoftDeleteMany(docs, find) = Oid!SoftDeleteMany(docs, find)
               /\ RestoreOne(docs, find) = Oid!RestoreOne(docs, find)
               /\ RestoreMany(docs, find) = Oid!RestoreMany(docs, find)
    BY <2>1, SameByFilter, Zenon
  <2>7. ASSUME NEW ids \in SUBSET (1..created)
        PROVE  /\ DeleteManyByIds(docs, ids) = Oid!DeleteManyByIds(docs, ids)
               /\ SoftDeleteManyByIds(docs, ids) = Oid!SoftDeleteManyByIds(docs, ids)
               /\ RestoreManyByIds(docs, ids) = Oid!RestoreManyByIds(docs, ids)
    <3>1. ids \in SUBSET (1..MaxDocs)
      BY <2>2
    <3> QED
      BY <3>1, SameByIds, Zenon
  <2>8. \A isArray \in BOOLEAN : Raw(docs, isArray) = Oid!Raw(docs, isArray)
    BY SameReads, Zenon
  <2> QED
    BY <2>4, <2>5, <2>6, <2>7, <2>8, Zenon DEF TwinsAgree
<1>2. Spec => []ListTyped
  BY ListTypedInit, ListTypedStep, PTL DEF Spec
<1> QED
  BY <1>1, <1>2, PTL
=============================================================================
