--------------------------- MODULE PasswordLockout ---------------------------
(***************************************************************************)
(* What the lock on wrong passwords promises: at most as many of them as   *)
(* the largest of Limits are looked at, and once that many were wrong no   *)
(* request is given tokens.  Each comparison is one step.                  *)
(***************************************************************************)
EXTENDS Naturals, FiniteSets

CONSTANTS Requests, Limits

VARIABLES wrong,  \* requests whose password was looked at and found wrong
          granted \* requests that were given tokens

Init == wrong = {} /\ granted = {}

Open(r) ==
    /\ r \notin wrong \cup granted
    /\ \E limit \in Limits : Cardinality(wrong) < limit

Mismatch(r) == Open(r) /\ wrong' = wrong \cup {r} /\ UNCHANGED granted

Grant(r) == Open(r) /\ granted' = granted \cup {r} /\ UNCHANGED wrong

Next == \E r \in Requests : Mismatch(r) \/ Grant(r)

Spec == Init /\ [][Next]_<<wrong, granted>>
=============================================================================
