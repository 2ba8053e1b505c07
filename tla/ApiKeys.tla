------------------------------- MODULE ApiKeys -------------------------------
(***************************************************************************)
(* API keys: ApiKeyService creates, resets, switches and deletes them, the *)
(* seed stores a fixed one, and the api-key strategy checks what a request *)
(* for /hello-api-key carries against the row it finds.                    *)
(*                                                                         *)
(* The secret, the passphrase and the encryption key that are handed out   *)
(* together are one issue, a number; the row keeps the issue of its hash,  *)
(* of its passphrase and of its encryption key.  A key is the number of    *)
(* its first issue, and Raw is that of the seed.                           *)
(***************************************************************************)
EXTENDS Request, Sequences

CONSTANTS Callers,   \* the concurrent callers of ApiKeyService
          Payloads,  \* the forms of a request: body and user-agent
          MaxIssues, \* bound: issues ever made
          MaxSwitches \* bound: calls that switch, delete or seed keys

\* Why the strategy refuses a key, of the reasons ApiKeyGuard.handleRequest names.
Reasons == {"401 needed", "401 schema invalid", "401 not found", "401 inactive"}

ASSUME ApiKeysAssumption == MaxIssues \in Nat /\ MaxSwitches \in Nat

ASSUME ReasonsAssumption == None \notin Reasons \cup {"401 invalid"}

VARIABLES keys,     \* key -> row
          issued,   \* the [key, issue] that were handed out
          issues,   \* the number of the last issue
          lost,     \* the issues that died with a process before they were handed out
          task,     \* caller -> what it is doing
          switches  \* the number of calls that switched, deleted or seeded keys

keyVars == <<keys, issued, issues, lost, task, switches>>

Raw == 0

Issue == 0..MaxIssues

Row == [hash: Issue, passphrase: Issue, encryptionKey: Issue, isActive: BOOLEAN]

NewRow(n) == [hash |-> n, passphrase |-> n, encryptionKey |-> n, isActive |-> TRUE]

NoTask == [pc |-> "idle", key |-> None, issue |-> None]

\* The seed may have been run.
KeysInit(seeded) ==
    /\ keys = IF seeded THEN [key \in {Raw} |-> NewRow(Raw)] ELSE << >>
    /\ issued = {[key |-> Raw, issue |-> Raw]}
    /\ issues = Raw /\ lost = {}
    /\ task = [t \in Callers |-> NoTask]
    /\ switches = 0

\* Is this what the row of the key was hashed from, and is it in use?
Current(k, key, n) == key \in DOMAIN k /\ k[key].hash = n
Valid(k, key, n) == Current(k, key, n) /\ k[key].isActive

\* A request for /hello-api-key remembers, for the properties, whether its credentials were
\* valid at some moment since it was sent, and current at all of them.
Remembered(d, k) ==
    [d EXCEPT !.valid = @ \/ Valid(k, d.key, d.issue),
              !.current = @ /\ Current(k, d.key, d.issue)]

\* The rows become k.
Become(k) ==
    /\ keys' = k
    /\ req' = [s \in Slots |->
          IF req[s].route = "hello" THEN [req[s] EXCEPT !.data = Remembered(@, k)] ELSE req[s]]
    /\ UNCHANGED <<answer, timeouts, faults>>
-----------------------------------------------------------------------------
(* ApiKeyService *)

\* A row is created under a key that is free: the key is unique.
Inserted(key) ==
    [k \in DOMAIN keys \cup {key} |-> IF k \in DOMAIN keys THEN keys[k] ELSE NewRow(key)]

Create(t) ==
    /\ task[t].pc = "idle" /\ issues < MaxIssues
    /\ issues' = issues + 1
    /\ Become(Inserted(issues'))
    /\ task' = [task EXCEPT ![t] = [pc |-> "answer", key |-> issues', issue |-> issues']]
    /\ UNCHANGED <<issued, lost, switches>>

\* createRaw, with the values the seed has for it.
CreateRaw ==
    /\ switches < MaxSwitches /\ switches' = switches + 1
    /\ Become(Inserted(Raw))
    /\ UNCHANGED <<issued, issues, lost, task>>

\* updateHashById: the row is read for its key, then everything new is written at once.
\* A row that is not there ends in a TypeError.
ResetRead(t, key) ==
    /\ task[t].pc = "idle" /\ key \in DOMAIN keys
    /\ issues < MaxIssues
    /\ issues' = issues + 1
    /\ task' = [task EXCEPT ![t] = [pc |-> "write", key |-> key, issue |-> issues']]
    /\ UNCHANGED <<keys, issued, lost, switches, requestVars>>

\* One that would leave the old encryption key in place.
RenewedHash(row, n) == [row EXCEPT !.hash = n, !.passphrase = n]

\* { $set: { hash, passphrase, encryptionKey } }.  The code finds the row by its _id, the
\* model by its key, so that it also takes a row the seed has stored anew for the one that
\* was read.
Renewed(row, n) == [row EXCEPT !.hash = n, !.passphrase = n, !.encryptionKey = n]

ResetWrite(t) ==
    LET key == task[t].key
    IN /\ task[t].pc = "write"
       /\ Become(IF key \in DOMAIN keys
                   THEN [keys EXCEPT ![key] = Renewed(@, task[t].issue)] ELSE keys)
       /\ task' = [task EXCEPT ![t].pc = "answer"]
       /\ UNCHANGED <<issued, issues, lost, switches>>

\* The caller of create or updateHashById gets the only copy there is of the secret.
HandOut(t) ==
    /\ task[t].pc = "answer"
    /\ issued' = issued \cup {[key |-> task[t].key, issue |-> task[t].issue]}
    /\ task' = [task EXCEPT ![t] = NoTask]
    /\ UNCHANGED <<keys, issues, lost, switches, requestVars>>

\* active and inactive
Switched(key, b) == [keys EXCEPT ![key].isActive = b]

\* deleteOneById and deleteOne
Deleted(key) == [k \in DOMAIN keys \ {key} |-> keys[k]]

\* ApiKeyBulkKeyService.deleteMany({}), the removal of the seed
DeletedAll == << >>

Switch ==
    /\ switches < MaxSwitches /\ switches' = switches + 1
    /\ \/ \E key \in DOMAIN keys, b \in BOOLEAN : Become(Switched(key, b))
       \/ \E key \in DOMAIN keys : Become(Deleted(key))
       \/ Become(DeletedAll)
    /\ UNCHANGED <<issued, issues, lost, task>>

\* The callers ran in the process that died.
TasksLost ==
    /\ lost' = lost \cup {task[t].issue : t \in {u \in Callers : task[u].pc = "answer"}}
    /\ task' = [t \in Callers |-> NoTask]
    /\ UNCHANGED <<keys, issued, issues, switches>>
-----------------------------------------------------------------------------
(* ApiKeyKeyStrategy.validate and ApiKeyGuard.handleRequest *)

\* ApiKeyGuard.handleRequest: a reason it knows is a 401 that names it.
Refuse(s, reason) == Throw(s, IF reason \in Reasons THEN reason ELSE "401 invalid")

\* A client sends what it was handed, encrypted as a whole, without its hash, or as the
\* payload of another key; it sends behind the key what nobody can make out (nothing,
\* rubbish, what other keys have encrypted, or no object); or it forgets the header.
Hello(c) ==
    \E cred \in issued, p \in Payloads :
        /\ Send(c, "hello", p.agent,
                [key |-> cred.key, issue |-> cred.issue, body |-> p.body, row |-> None,
                 valid |-> Valid(keys, cred.key, cred.issue),
                 current |-> Current(keys, cred.key, cred.issue)])
        /\ UNCHANGED keyVars

\* A strategy that would forget to look at isActive.
FindKeyAny(s) ==
    LET d == req[s].data
    IN /\ At(s, "hello", "guards")
       /\ \/ d.key \notin DOMAIN keys /\ Refuse(s, "401 not found")
          \/ d.key \in DOMAIN keys /\ GoOn(s, "verify", [d EXCEPT !.row = keys[d.key]])
       /\ UNCHANGED <<timeouts, faults, keyVars>>

\* Nobody waits for the promise of the callback: when the query fails, it hangs or kills
\* the process.
FindKey(s) ==
    LET d == req[s].data
    IN /\ At(s, "hello", "guards")
       /\ \/ /\ \/ d.body = "none" /\ Refuse(s, "401 needed")
                \/ d.body # "none" /\ d.key \notin DOMAIN keys /\ Refuse(s, "401 not found")
                \/ /\ d.body # "none" /\ d.key \in DOMAIN keys /\ ~keys[d.key].isActive
                   /\ Refuse(s, "401 inactive")
                \/ /\ d.body # "none" /\ d.key \in DOMAIN keys /\ keys[d.key].isActive
                   /\ GoOn(s, "verify", [d EXCEPT !.row = keys[d.key]])
             /\ UNCHANGED <<faults, keyVars>>
          \/ /\ d.body # "none" /\ Fault
             /\ GoOn(s, "hung", [d EXCEPT !.row = Error])
             /\ UNCHANGED keyVars
          \/ d.body # "none" /\ Crash /\ TasksLost
       /\ UNCHANGED timeouts

\* aes256Decrypt gives back what was encrypted under the same key, and throws otherwise.
\* CryptoJS takes a key that is a string for a password and makes key and iv of it: the
\* passphrase, handed to it as the iv, does not matter.
Decrypts(row, n) == row.encryptionKey = n

\* decryptApiKey gives back an object.
Readable(d) == d.body # "garbled" /\ Decrypts(d.row, d.issue)

Verify(s) ==
    LET d == req[s].data
    IN /\ At(s, "hello", "verify")
       /\ \/ /\ ~Readable(d)
             /\ GoOn(s, "hung", [d EXCEPT !.row = None])
             /\ UNCHANGED <<faults, keyVars>>
          \/ /\ ~Readable(d)
             /\ Crash
             /\ TasksLost
          \/ /\ Readable(d)
             /\ CASE d.body = "partial" -> Refuse(s, "401 schema invalid")
                  [] d.body = "whole" /\ d.row.hash = d.issue -> GoOn(s, "interceptors", [d EXCEPT !.row = None])
                  [] OTHER -> Refuse(s, "401 invalid")
             /\ UNCHANGED <<faults, keyVars>>
       /\ UNCHANGED timeouts

\* RequestUserAgentInterceptor: is the agent none of those configured?
Foreign(s) == req[s].agent = "foreign"

\* RequestTimestampInterceptor: a time that is none, or too far from the server's.
Times == {"close", "far"}
Refuses(time) == time = "far"

\* Both interceptors, then AppController.helloApiKey.
Greet(s) ==
    /\ At(s, "hello", "interceptors")
    /\ \/ Foreign(s) /\ Throw(s, "403")
       \/ \E time \in Times :
             ~Foreign(s) /\ IF Refuses(time) THEN Throw(s, "403") ELSE Reply(s, "200")
    /\ UNCHANGED <<timeouts, faults, keyVars>>
-----------------------------------------------------------------------------
(* Properties *)

KeysTypeOK ==
    /\ DOMAIN keys \subseteq Issue /\ keys \in [DOMAIN keys -> Row]
    /\ issued \subseteq [key: Issue, issue: Issue]
    /\ issues \in Issue /\ switches \in 0..MaxSwitches
    /\ \A t \in Callers : task[t].pc \in {"idle", "write", "answer"}

\* Two resets of one key may overlap, and a key may be deleted or switched meanwhile: once
\* nobody is being handed an issue, every stored key works for somebody: its hash, passphrase
\* and encryption key come from one issue, and that issue was handed out, unless the process
\* died between the write and the answer (ApiKeyService.updateHashById).
LastIssueWorks ==
    (\A t \in Callers : task[t].pc = "idle") =>
        \A key \in DOMAIN keys : \E n \in Issue :
            /\ Decrypts(keys[key], n) /\ keys[key].hash = n /\ keys[key].passphrase = n
            /\ [key |-> key, issue |-> n] \in issued \/ n \in lost

\* A request that passes the guard carried credentials that were the key's own, and the key
\* was active, at some moment since the request was sent: whatever is reset, switched off or
\* deleted meanwhile (ApiKeyKeyStrategy.validate reads the row once and works on its copy).
AcceptedWasValid ==
    \A s \in Slots : At(s, "hello", "interceptors") => req[s].data.valid

\* Whatever is reset, switched off or deleted meanwhile: a request that carries, in a form
\* that can be read, credentials that have been the key's own ever since it was sent gets
\* its answer, unless the query for the key failed.  Nobody else's mistake or bad luck makes
\* it wait for nothing (ApiKeyKeyStrategy.validate, whose rejections nobody catches).
HangsExplained ==
    \A s \in Slots : req[s].pc = "hung" =>
        LET d == req[s].data IN d.current => d.body = "garbled" \/ d.row = Error
=============================================================================
