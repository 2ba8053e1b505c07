------------------------------ MODULE Pagination ------------------------------
(***************************************************************************)
(* The arithmetic of lists: what the decorators of the list DTOs make of a *)
(* query (common/pagination/decorators), the pages PaginationService       *)
(* computes, and the links ResponsePagingInterceptor adds to an answer.    *)
(* A query value is None when it is absent, empty or no number; numbers    *)
(* are whole.                                                              *)
(***************************************************************************)
EXTENDS Absent, Integers

CONSTANTS MaxPage, MaxPerPage,         \* PAGINATION_MAX_PAGE and PAGINATION_MAX_PER_PAGE
          DefaultPage, DefaultPerPage, \* what a list DTO passes for an absent value
          AvailableSort                \* the fields a list may be sorted by

ASSUME PaginationAssumption ==
    /\ MaxPage \in Nat \ {0} /\ MaxPerPage \in Nat \ {0}
    /\ DefaultPage \in 1..MaxPage /\ DefaultPerPage \in 1..MaxPerPage
    /\ "createdAt" \in AvailableSort
    /\ None \notin Int

AtMost(value, max) == IF value > max THEN max ELSE value

\* Math.ceil(total / limit)
Ceil(total, limit) == IF limit > 0 THEN (total + limit - 1) \div limit
                                   ELSE -(total \div (-limit))
-----------------------------------------------------------------------------
(* The query *)

\* Mutant: any page is taken.
DtoPageUncapped(value) == IF value \in {None, 0} THEN DefaultPage ELSE value

DtoPage(value) == IF value \in {None, 0} THEN DefaultPage ELSE AtMost(value, MaxPage)

\* Mutant: the number of rows is not capped where it is read.
DtoPerPageUncapped(value) == IF value \in {None, 0} THEN DefaultPerPage ELSE value

DtoPerPage(value) == IF value \in {None, 0} THEN DefaultPerPage ELSE AtMost(value, MaxPerPage)

\* `field@type`; without a type, upper-casing it throws.
DtoSort(value) ==
    LET asked == IF value = None THEN [field |-> "createdAt", type |-> "asc"] ELSE value
    IN IF asked.type = None THEN None
       ELSE [field |-> IF asked.field \in AvailableSort THEN asked.field ELSE "createdAt",
             type |-> IF asked.type = "desc" THEN "-1" ELSE "1"]

\* A search finds the rows in which some searchable field contains it; none finds all.
DtoSearch(value, all) == IF value = None THEN all ELSE value

\* The rows whose flag is among the ones asked for; both without a value.
DtoFilterBoolean(value, default) == IF value = None THEN default ELSE value
-----------------------------------------------------------------------------
(* The service *)

\* Mutant: pages are counted from zero.
SkipFromZero(page, perPage) == AtMost(page, MaxPage) * AtMost(perPage, MaxPerPage)

Skip(page, perPage) == (AtMost(page, MaxPage) - 1) * AtMost(perPage, MaxPerPage)

TotalPageWithoutMax(totalData, limit) ==
    LET totalPage == Ceil(totalData, limit) IN IF totalPage = 0 THEN 1 ELSE totalPage

TotalPage(totalData, limit) ==
    LET totalPage == Ceil(totalData, limit)
    IN AtMost(IF totalPage = 0 THEN 1 ELSE totalPage, MaxPage)
-----------------------------------------------------------------------------
(* The answer *)

\* Mutant: page 1 links to page 0.
LinksZero(page, totalPage) ==
    [nextPage     |-> IF page < totalPage THEN page + 1 ELSE None,
     previousPage |-> IF page > 0 THEN page - 1 ELSE None,
     firstPage    |-> IF totalPage > 1 THEN 1 ELSE None,
     lastPage     |-> IF totalPage > 1 THEN totalPage ELSE None]

Links(page, totalPage) ==
    [nextPage     |-> IF page < totalPage THEN page + 1 ELSE None,
     previousPage |-> IF page > 1 THEN page - 1 ELSE None,
     firstPage    |-> IF totalPage > 1 THEN 1 ELSE None,
     lastPage     |-> IF totalPage > 1 THEN totalPage ELSE None]
=============================================================================
