------------------------------- MODULE Request -------------------------------
(***************************************************************************)
(* The way every request takes through the program: the middlewares, the   *)
(* guards of its route, the interceptors with their timeout, its handler   *)
(* and the answer.  A slot holds a running handler.  The timeout answers   *)
(* 408 and lets the handler go on: its slot then works for nobody, while   *)
(* its client may already send the next request.                           *)
(*                                                                         *)
(* A process that dies is started again (docker-compose.yml): whatever ran *)
(* in it is gone, and the clients that waited got no answer.               *)
(***************************************************************************)
EXTENDS Absent, Integers, FiniteSets

CONSTANTS Clients,     \* who sends requests, one at a time each
          Slots,       \* bound: handlers that run at the same time
          MaxTimeouts, \* bound: requests that take longer than the timeout
          MaxFaults    \* bound: times the process dies, S3 fails or the database does

VARIABLES req,      \* slot -> the request its handler works on
          answer,   \* client -> the status of its last answer, None while it waits
          timeouts, \* the number of timeouts
          faults    \* the number of faults

requestVars == <<req, answer, timeouts, faults>>

Routes == {"login", "refresh", "getSetting", "updateSetting", "hello", "upload"}

\* What clients have been told: HTTP's statuses, and what they take the end of a connection for.
Statuses == {"200", "400", "401", "403", "404", "408", "413", "415", "422", "429", "500", "503",
             "none yet", "lost"}

ASSUME RequestAssumption ==
    /\ None \notin Routes \cup Clients \cup Statuses
    /\ Slots \subseteq Nat /\ IsFiniteSet(Slots)
    /\ MaxTimeouts \in Nat /\ MaxFaults \in Nat

Free == [client |-> None, route |-> None, pc |-> "free", agent |-> None, data |-> None]

FreeSlots == {s \in Slots : req[s].pc = "free"}

Waiting(c) == \E s \in Slots : req[s].client = c

RequestInit ==
    /\ req = [s \in Slots |-> Free]
    /\ answer = [c \in Clients |-> "none yet"]
    /\ timeouts = 0 /\ faults = 0

\* A client that waits for nothing sends a request; `agent` is its user-agent header.
Send(c, route, agent, data) ==
    LET s == CHOOSE s \in FreeSlots : \A t \in FreeSlots : s <= t
    IN /\ ~Waiting(c) /\ FreeSlots # {}
       /\ req' = [req EXCEPT ![s] = [client |-> c, route |-> route, pc |-> "sent",
                                     agent |-> agent, data |-> data]]
       /\ answer' = [answer EXCEPT ![c] = None]
       /\ UNCHANGED <<timeouts, faults>>

At(s, route, pc) == req[s].route = route /\ req[s].pc = pc

Told(c, status) == IF c = None THEN answer ELSE [answer EXCEPT ![c] = status]

\* What a handler returns and what the code throws ends as one answer, or, after
\* the timeout, as none.
Reply(s, status) ==
    /\ answer' = Told(req[s].client, status)
    /\ req' = [req EXCEPT ![s] = Free]

\* ErrorHttpFilter: an exception of HTTP ends as its own status, anything else as a 500.
Caught(exception) == IF exception = Error THEN "500" ELSE exception

Throw(s, exception) == Reply(s, Caught(exception))

GoOn(s, pc, data) ==
    /\ req' = [req EXCEPT ![s].pc = pc, ![s].data = data]
    /\ UNCHANGED answer

\* The routes that would be left without those of the setting itself.
ExcludedUser(route) == route \in {"login", "refresh"}

\* The routes MaintenanceMiddleware is not applied to.
Excluded(route) == route \in {"login", "refresh", "getSetting", "updateSetting"}

\* RateLimitMiddleware makes a limiter, with a memory of its own, for every request: it
\* has counted this one.
Hits(s) == Cardinality({s})

MaxRequestPerId == 1

Limited(s) == Hits(s) > MaxRequestPerId

\* UserAgentMiddleware
HasAgent(s) == req[s].agent # None

\* The middlewares before the route: the limiter first.
Enter(s) ==
    /\ req[s].pc = "sent"
    /\ IF Limited(s) \/ ~HasAgent(s) THEN Throw(s, IF Limited(s) THEN "429" ELSE "403")
       ELSE GoOn(s, IF Excluded(req[s].route) THEN "guards" ELSE "maintenance", req[s].data)
    /\ UNCHANGED <<timeouts, faults>>

\* Guards run before ResponseTimeoutInterceptor starts the clock.
Timed == {"interceptors", "handler", "record"}

\* A timeout that would stop the handler, too.
ExpireCancels(s) ==
    /\ req[s].pc \in Timed /\ req[s].client # None
    /\ timeouts < MaxTimeouts
    /\ timeouts' = timeouts + 1
    /\ Reply(s, "408")
    /\ UNCHANGED faults

\* A timeout whose handler would still answer the client in the end.
ExpireTellsTwice(s) ==
    /\ req[s].pc \in Timed /\ req[s].client # None
    /\ timeouts < MaxTimeouts
    /\ timeouts' = timeouts + 1
    /\ answer' = Told(req[s].client, "408")
    /\ UNCHANGED <<req, faults>>

Expire(s) ==
    /\ req[s].pc \in Timed /\ req[s].client # None
    /\ timeouts < MaxTimeouts
    /\ timeouts' = timeouts + 1
    /\ answer' = Told(req[s].client, "408")
    /\ req' = [req EXCEPT ![s].client = None]
    /\ UNCHANGED faults

Fault == faults < MaxFaults /\ faults' = faults + 1

\* Nobody catches what the verify callback of the api-key strategy rejects with: its
\* request hangs until the client gives up.
GiveUp(s) ==
    /\ req[s].pc = "hung"
    /\ Reply(s, "lost")
    /\ UNCHANGED <<timeouts, faults>>

\* The process dies, of such a rejection or of anything else.
Die ==
    /\ req' = [s \in Slots |-> Free]
    /\ answer' = [c \in Clients |-> IF Waiting(c) THEN "lost" ELSE answer[c]]
    /\ UNCHANGED timeouts

Crash == Fault /\ Die
-----------------------------------------------------------------------------
(* Properties *)

\* Whatever is refused, times out, hangs or dies with the process, each request is answered
\* once: exactly the clients that wait have no answer yet, and one handler each that owes
\* it to them; a handler that has timed out owes nothing to anybody
\* (ResponseTimeoutInterceptor, ErrorHttpFilter).
OneAnswerEach ==
    /\ \A c \in Clients : answer[c] = None <=> Waiting(c)
    /\ \A s, t \in Slots : req[s].client # None /\ req[s].client = req[t].client => s = t
=============================================================================
