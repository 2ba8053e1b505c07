------------------------------ MODULE MCListing ------------------------------
(* Instances of Listing: three documents at most to start with, two tags of      *)
(* which one is active, and caps of three pages of two rows.                      *)
EXTENDS Listing

Gone(tag) == [tag |-> tag, deleted |-> TRUE]
MCSeeds == {<< >>, <<NewDoc(1), NewDoc(1), NewDoc(2)>>, <<NewDoc(2), Gone(1), NewDoc(1)>>,
            <<NewDoc(1), NewDoc(2), NewDoc(1), NewDoc(2)>>}

Query(list, page, perPage, search, isActive, sort) ==
    [list |-> list, page |-> page, perPage |-> perPage, search |-> search,
     isActive |-> isActive, sort |-> sort]
By(field, type) == [field |-> field, type |-> type]

MCQueries ==
    {Query("user", None, 1, None, None, None),
     Query("role", 1, 1, {1}, None, By("createdAt", "asc")),
     Query("permission", 1, 5, None, {TRUE}, By("createdAt", "desc")),
     Query("setting", None, 3, None, None, None),
     Query("permission", 0, None, {2}, {FALSE}, By("phone", "asc")),
     Query("setting", 2, 2, None, None, By("tag", "asc")),
     Query("user", 7, 1, {1}, None, None),
     Query("user", -1, 1, None, None, None),
     Query("role", -1, -2, None, None, None),
     Query("user", 1, -2, None, None, By("tag", "desc")),
     Query("user", 1, 1, None, None, By("tag", None))}
=============================================================================
