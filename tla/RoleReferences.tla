--------------------------- MODULE RoleReferences ---------------------------
(***************************************************************************)
(* What the guard on used roles promises: a user holds a role that exists, *)
(* and a role is created, changed or removed only while nobody holds it.   *)
(* Each change is one step.                                                *)
(***************************************************************************)
CONSTANTS RoleIds, UserIds, None

VARIABLES content, \* what each role grants, or None
          holds    \* the role of each user, or None

Init == \A u \in UserIds : holds[u] # None => content[holds[u]] # None

Used(i) == \E u \in UserIds : holds[u] = i

SetRole(i) ==
    /\ ~Used(i)
    /\ content' = [content EXCEPT ![i] = content'[i]]
    /\ UNCHANGED holds

AddUser(u, i) ==
    /\ holds[u] = None
    /\ content[i] # None
    /\ holds' = [holds EXCEPT ![u] = i]
    /\ UNCHANGED content

RemoveUser(u) == holds' = [holds EXCEPT ![u] = None] /\ UNCHANGED content

Next ==
    \/ \E i \in RoleIds : SetRole(i)
    \/ \E u \in UserIds : RemoveUser(u) \/ \E i \in RoleIds : AddUser(u, i)

Spec == Init /\ [][Next]_<<content, holds>>
=============================================================================
