----------------------------- MODULE Gateway_proofs -----------------------------
(***************************************************************************)
(* Theorems about Gateway, for any clients, slots, callers and payloads,   *)
(* and however many timeouts, faults, issues and uploads there are.        *)
(***************************************************************************)
EXTENDS Gateway, TLAPS

\* A slot is the record that Send puts there, whatever its route.
Slot(c, route, pc, agent, data) ==
    [client |-> c, route |-> route, pc |-> pc, agent |-> agent, data |-> data]

SlotsOK ==
    /\ req = [s \in Slots |-> req[s]]
    /\ \A s \in Slots :
          req[s] = Slot(req[s].client, req[s].route, req[s].pc, req[s].agent, req[s].data)

LEMMA SlotFields ==
    ASSUME NEW c, NEW route, NEW pc, NEW agent, NEW data
    PROVE  LET q == Slot(c, route, pc, agent, data)
           IN q.client = c /\ q.route = route /\ q.pc = pc /\ q.agent = agent /\ q.data = data
  BY DEF Slot

LEMMA GoOnSlot ==
    ASSUME SlotsOK, NEW t \in Slots, NEW pc, NEW data, GoOn(t, pc, data)
    PROVE  /\ SlotsOK'
           /\ \A s \in Slots \ {t} : req'[s] = req[s]
           /\ req'[t] = Slot(req[t].client, req[t].route, pc, req[t].agent, data)
<1>1. req' = [req EXCEPT ![t].pc = pc, ![t].data = data]
  BY DEF GoOn
<1>2. req'[t] = Slot(req[t].client, req[t].route, pc, req[t].agent, data)
  <2>1. req'[t] = [[req[t] EXCEPT !.pc = pc] EXCEPT !.data = data]
    BY <1>1 DEF SlotsOK
  <2>2. [req[t] EXCEPT !.pc = pc] = Slot(req[t].client, req[t].route, pc, req[t].agent, req[t].data)
    BY DEF SlotsOK, Slot
  <2> QED
    BY <2>1, <2>2 DEF Slot
<1>3. \A s \in Slots \ {t} : req'[s] = req[s]
  BY <1>1 DEF SlotsOK
<1>4. req' = [s \in Slots |-> req'[s]]
  BY <1>1 DEF SlotsOK
<1> QED
  BY <1>2, <1>3, <1>4, SlotFields DEF SlotsOK

LEMMA ReplySlot ==
    ASSUME SlotsOK, NEW t \in Slots, NEW status, Reply(t, status)
    PROVE  /\ SlotsOK'
           /\ \A s \in Slots \ {t} : req'[s] = req[s]
           /\ req'[t] = Free
<1>1. req' = [req EXCEPT ![t] = Free]
  BY DEF Reply
<1>2. req'[t] = Free /\ \A s \in Slots \ {t} : req'[s] = req[s]
  BY <1>1 DEF SlotsOK
<1>3. req' = [s \in Slots |-> req'[s]]
  BY <1>1 DEF SlotsOK
<1>4. Free = Slot(None, None, "free", None, None)
  BY DEF Free, Slot
<1> QED
  BY <1>2, <1>3, <1>4, SlotFields DEF SlotsOK

LEMMA SendSlot ==
    ASSUME SlotsOK, NEW c, NEW route, NEW agent, NEW data, Send(c, route, agent, data)
    PROVE  /\ SlotsOK'
           /\ \A s \in Slots : req'[s] = req[s] \/ req'[s] = Slot(c, route, "sent", agent, data)
<1> DEFINE new == Slot(c, route, "sent", agent, data)
<1>1. PICK t : req' = [req EXCEPT ![t] = new]
  BY DEF Send, Slot
<1>2. \A s \in Slots : req'[s] = req[s] \/ req'[s] = new
  <2> HIDE DEF new
  <2> QED
    BY <1>1 DEF SlotsOK
<1>3. req' = [s \in Slots |-> req'[s]]
  <2> HIDE DEF new
  <2> QED
    BY <1>1 DEF SlotsOK
<1> QED
  BY <1>2, <1>3, SlotFields DEF SlotsOK

LEMMA ExpireSlot ==
    ASSUME SlotsOK, NEW t \in Slots, Expire(t)
    PROVE  /\ SlotsOK'
           /\ \A s \in Slots \ {t} : req'[s] = req[s]
           /\ req'[t] = Slot(None, req[t].route, req[t].pc, req[t].agent, req[t].data)
<1>1. req' = [req EXCEPT ![t].client = None]
  BY DEF Expire
<1>2. req'[t] = Slot(None, req[t].route, req[t].pc, req[t].agent, req[t].data)
  BY <1>1 DEF SlotsOK, Slot
<1>3. \A s \in Slots \ {t} : req'[s] = req[s]
  BY <1>1 DEF SlotsOK
<1>4. req' = [s \in Slots |-> req'[s]]
  BY <1>1 DEF SlotsOK
<1> QED
  BY <1>2, <1>3, <1>4, SlotFields DEF SlotsOK

LEMMA DieSlot ==
    ASSUME Die
    PROVE  SlotsOK' /\ \A s \in Slots : req'[s] = Free
<1>1. Free = Slot(None, None, "free", None, None)
  BY DEF Free, Slot
<1>2. req' = [s \in Slots |-> Free]
  BY DEF Die
<1> QED
  BY <1>1, <1>2, SlotFields DEF SlotsOK
-----------------------------------------------------------------------------
\* What a request for /hello-api-key carries.
Carried(key, issue, body, row, valid, current) ==
    [key |-> key, issue |-> issue, body |-> body, row |-> row, valid |-> valid,
     current |-> current]

CarriedOK(d) == d = Carried(d.key, d.issue, d.body, d.row, d.valid, d.current)

LEMMA CarriedFields ==
    ASSUME NEW key, NEW issue, NEW body, NEW row, NEW valid, NEW current
    PROVE  LET d == Carried(key, issue, body, row, valid, current)
           IN /\ CarriedOK(d)
              /\ d.key = key /\ d.issue = issue /\ d.body = body /\ d.row = row
              /\ d.valid = valid /\ d.current = current
  BY DEF Carried, CarriedOK

LEMMA CarriedRow ==
    ASSUME NEW d, CarriedOK(d), NEW row
    PROVE  LET e == [d EXCEPT !.row = row]
           IN /\ CarriedOK(e)
              /\ e.key = d.key /\ e.issue = d.issue /\ e.body = d.body /\ e.row = row
              /\ e.valid = d.valid /\ e.current = d.current
  BY DEF Carried, CarriedOK

LEMMA CarriedFlags ==
    ASSUME NEW d, CarriedOK(d), NEW k
    PROVE  Remembered(d, k)
             = Carried(d.key, d.issue, d.body, d.row, d.valid \/ Valid(k, d.key, d.issue),
                       d.current /\ Current(k, d.key, d.issue))
<1> PICK valid, current : /\ valid = (d.valid \/ Valid(k, d.key, d.issue))
                          /\ current = (d.current /\ Current(k, d.key, d.issue))
  OBVIOUS
<1>1. [d EXCEPT !.valid = valid] = Carried(d.key, d.issue, d.body, d.row, valid, d.current)
  BY DEF Carried, CarriedOK
<1>2. Remembered(d, k) = [[d EXCEPT !.valid = valid] EXCEPT !.current = current]
  BY Zenon DEF Remembered
<1>3. [Carried(d.key, d.issue, d.body, d.row, valid, d.current) EXCEPT !.current = current]
         = Carried(d.key, d.issue, d.body, d.row, valid, current)
  BY DEF Carried
<1>4. Remembered(d, k) = Carried(d.key, d.issue, d.body, d.row, valid, current)
  BY <1>1, <1>2, <1>3, Zenon
<1> QED
  BY <1>4

\* What becomes of a slot when the rows become k.
LEMMA BecomeSlot ==
    ASSUME SlotsOK, NEW k, Become(k), NEW s \in Slots
    PROVE  /\ req'[s].client = req[s].client /\ req'[s].route = req[s].route
           /\ req'[s].pc = req[s].pc
           /\ req[s].route # "hello" => req'[s] = req[s]
           /\ req[s].route = "hello" => req'[s].data = Remembered(req[s].data, k)
<1> PICK e : e = Remembered(req[s].data, k)
  OBVIOUS
<1>1. req'[s] = IF req[s].route = "hello" THEN [req[s] EXCEPT !.data = e] ELSE req[s]
  BY DEF Become
<1>2. req[s] = Slot(req[s].client, req[s].route, req[s].pc, req[s].agent, req[s].data)
  BY DEF SlotsOK
<1>3. [req[s] EXCEPT !.data = e] = Slot(req[s].client, req[s].route, req[s].pc, req[s].agent, e)
  BY <1>2 DEF Slot
<1>4. CASE req[s].route = "hello"
  <2>1. req'[s] = Slot(req[s].client, req[s].route, req[s].pc, req[s].agent, e)
    BY <1>1, <1>3, <1>4
  <2> QED
    BY <1>4, <2>1, SlotFields
<1>5. CASE req[s].route # "hello"
  BY <1>1, <1>5
<1> QED
  BY <1>4, <1>5

LEMMA BecomeSlots ==
    ASSUME SlotsOK, NEW k, Become(k)
    PROVE  SlotsOK'
<1>1. req' = [s \in Slots |-> req'[s]]
  BY DEF Become
<1>2. ASSUME NEW s \in Slots
      PROVE  req'[s] = Slot(req'[s].client, req'[s].route, req'[s].pc, req'[s].agent, req'[s].data)
  <2>1. PICK e : req'[s] = [req[s] EXCEPT !.data = e] \/ req'[s] = req[s]
    BY DEF Become
  <2>2. req[s] = Slot(req[s].client, req[s].route, req[s].pc, req[s].agent, req[s].data)
    BY DEF SlotsOK
  <2>3. [req[s] EXCEPT !.data = e] = Slot(req[s].client, req[s].route, req[s].pc, req[s].agent, e)
    BY <2>2 DEF Slot
  <2> QED
    BY <2>1, <2>2, <2>3, SlotFields
<1> QED
  BY <1>1, <1>2 DEF SlotsOK
-----------------------------------------------------------------------------
\* The calls of ApiKeyService that change its rows or hand something out; every other step
\* leaves them alone, or ends the callers.
LEMMA KeySteps ==
    ASSUME [Next]_vars
    PROVE  \/ \E t \in Callers : Create(t) \/ ResetWrite(t) \/ HandOut(t)
           \/ \E t \in Callers, key \in Issue : ResetRead(t, key)
           \/ CreateRaw \/ Switch \/ TasksLost
           \/ UNCHANGED keyVars
<1>1. CASE UNCHANGED vars
  BY <1>1 DEF vars
<1>2. CASE Keys
  BY <1>2 DEF Keys
<1>3. CASE Outside
  BY <1>3 DEF Outside, Hello
<1>4. CASE \E s \in Slots : Serve(s)
  <2>1. ASSUME NEW s \in Slots, Serve(s) PROVE TasksLost \/ UNCHANGED keyVars
    BY <2>1 DEF Serve, FindKey, Verify, Greet
  <2> QED
    BY <1>4, <2>1
<1>5. CASE Administrator \/ Timeout \/ Restart
  BY <1>5 DEF Administrator, Timeout, Restart
<1> QED
  BY <1>1, <1>2, <1>3, <1>4, <1>5 DEF Next

\* A row whose three parts come from one issue, and a caller that has one.
Whole(row) ==
    /\ row = [hash |-> row.hash, passphrase |-> row.hash, encryptionKey |-> row.hash,
              isActive |-> row.isActive]
    /\ row.hash \in Issue

Task(pc, key, n) == [pc |-> pc, key |-> key, issue |-> n]

Owned(key, n) ==
    \/ [key |-> key, issue |-> n] \in issued
    \/ n \in lost
    \/ \E t \in Callers : task[t] = Task("answer", key, n)

TasksOK ==
    /\ task = [t \in Callers |-> task[t]]
    /\ \A t \in Callers :
          /\ task[t] = Task(task[t].pc, task[t].key, task[t].issue)
          /\ task[t].pc = "write" => task[t].issue \in Issue

\* Every stored key works for whoever has its issue, and somebody has it, or is being handed
\* it, or it died with its process.
KeyInv ==
    /\ issues \in Issue
    /\ [key |-> Raw, issue |-> Raw] \in issued
    /\ TasksOK
    /\ \A key \in DOMAIN keys : Whole(keys[key]) /\ Owned(key, keys[key].hash)

LEMMA NewRows ==
    ASSUME NEW n \in Issue
    PROVE  Whole(NewRow(n)) /\ NewRow(n).hash = n
  BY DEF Whole, NewRow

LEMMA RawIssue == Raw \in Issue
  BY ApiKeysAssumption DEF Raw, Issue

LEMMA NextIssue ==
    ASSUME issues \in Issue, issues < MaxIssues
    PROVE  issues + 1 \in Issue
  BY ApiKeysAssumption DEF Issue

LEMMA NoRows == DOMAIN << >> = {}
  OBVIOUS

LEMMA KeyInit == Init => KeyInv
<1> SUFFICES ASSUME Init PROVE KeyInv
  OBVIOUS
<1>1. PICK seeded : KeysInit(seeded)
  BY DEF Init
<1>2. issues \in Issue /\ [key |-> Raw, issue |-> Raw] \in issued
  BY <1>1, RawIssue DEF KeysInit
<1>3. TasksOK
  BY <1>1 DEF KeysInit, TasksOK, Task, NoTask
<1>4. \A key \in DOMAIN keys : key = Raw /\ keys[key] = NewRow(Raw)
  BY <1>1, NoRows DEF KeysInit
<1> QED
  BY <1>2, <1>3, <1>4, NewRows, RawIssue DEF KeyInv, Owned

\* A caller that goes on takes nothing away from the others.
LEMMA TaskStep ==
    ASSUME TasksOK, NEW t \in Callers, NEW pc, NEW key, NEW n,
           task' = [task EXCEPT ![t] = Task(pc, key, n)], n \in Issue \/ pc # "write"
    PROVE  TasksOK' /\ task'[t] = Task(pc, key, n) /\ \A u \in Callers \ {t} : task'[u] = task[u]
<1> DEFINE x == Task(pc, key, n)
<1>1. x.pc = pc /\ x.key = key /\ x.issue = n
  BY DEF Task
<1>2. x = Task(x.pc, x.key, x.issue)
  BY <1>1
<1> HIDE DEF x
<1>3. task' = [task EXCEPT ![t] = x]
  BY DEF x
<1>4. task'[t] = x /\ \A u \in Callers \ {t} : task'[u] = task[u]
  BY <1>3 DEF TasksOK
<1>5. task' = [u \in Callers |-> task'[u]]
  BY <1>3 DEF TasksOK
<1>6. ASSUME NEW u \in Callers
      PROVE  /\ task'[u] = Task(task'[u].pc, task'[u].key, task'[u].issue)
             /\ task'[u].pc = "write" => task'[u].issue \in Issue
  BY <1>1, <1>2, <1>4 DEF TasksOK
<1>7. TasksOK'
  BY <1>5, <1>6 DEF TasksOK, Issue
<1> QED
  BY <1>4, <1>7 DEF x

\* In particular one that is about to hand out what it has written.
LEMMA AnswerStep ==
    ASSUME TasksOK, NEW t \in Callers, NEW key, NEW n,
           task' = [task EXCEPT ![t] = Task("answer", key, n)]
    PROVE  /\ TasksOK' /\ task'[t] = Task("answer", key, n)
           /\ \A u \in Callers \ {t} : task'[u] = task[u]
<1>1. "answer" # "write"
  OBVIOUS
<1> QED
  BY <1>1, TaskStep

\* Who owns an issue goes on owning it while no other caller than t, who is not being handed
\* one, does anything.
LEMMA OwnedStays ==
    ASSUME NEW t \in Callers, task[t].pc # "answer", \A u \in Callers \ {t} : task'[u] = task[u],
           issued' = issued, lost' = lost, NEW key, NEW n, Owned(key, n)
    PROVE  Owned(key, n)'
<1>1. \A u \in Callers : task[u] = Task("answer", key, n) => u # t
  BY DEF Task
<1> QED
  BY <1>1 DEF Owned

LEMMA KeyStep == KeyInv /\ [Next]_vars => KeyInv'
<1> SUFFICES ASSUME KeyInv, [Next]_vars PROVE KeyInv'
  OBVIOUS
<1> USE DEF KeyInv
<1>1. ASSUME NEW t \in Callers, Create(t) PROVE KeyInv'
  <2> PICK n : n = issues + 1
    OBVIOUS
  <2>1. /\ issues' = n /\ n \in Issue /\ issued' = issued /\ lost' = lost
        /\ keys' = Inserted(n) /\ task[t].pc = "idle"
        /\ task' = [task EXCEPT ![t] = Task("answer", n, n)]
    BY <1>1, NextIssue DEF Create, Become, Task
  <2>2. TasksOK' /\ task'[t] = Task("answer", n, n) /\ \A u \in Callers \ {t} : task'[u] = task[u]
    BY <2>1, AnswerStep
  <2>3. \A key \in DOMAIN keys' :
           \/ key \in DOMAIN keys /\ keys'[key] = keys[key]
           \/ key = n /\ keys'[key] = NewRow(n)
    BY <2>1 DEF Inserted
  <2>4. Owned(n, n)'
    BY <2>2 DEF Owned
  <2>5. ASSUME NEW key \in DOMAIN keys' PROVE Whole(keys'[key]) /\ Owned(key, keys[key].hash)'
    <3>1. CASE key \in DOMAIN keys /\ keys'[key] = keys[key]
      <4>1. \A m : Owned(key, m) => Owned(key, m)'
        BY <2>1, <2>2, OwnedStays
      <4>2. Owned(key, keys[key].hash) /\ Whole(keys[key])
        BY <3>1
      <4> DEFINE h == keys[key].hash
      <4>3. keys'[key].hash = h /\ Owned(key, h)'
        BY <3>1, <4>1, <4>2
      <4> QED
        BY <3>1, <4>2, <4>3
    <3>2. CASE key = n /\ keys'[key] = NewRow(n)
      BY <2>1, <2>4, <3>2, NewRows
    <3> QED
      BY <2>3, <3>1, <3>2
  <2> QED
    BY <2>1, <2>2, <2>5
<1>2. ASSUME NEW t \in Callers, NEW k \in Issue, ResetRead(t, k) PROVE KeyInv'
  <2> DEFINE n == issues + 1
  <2>1. /\ issues' = n /\ n \in Issue /\ issued' = issued /\ lost' = lost /\ keys' = keys
        /\ task[t].pc = "idle" /\ task' = [task EXCEPT ![t] = Task("write", k, n)]
    BY <1>2, NextIssue DEF ResetRead, Task
  <2> HIDE DEF n
  <2>2. TasksOK' /\ \A u \in Callers \ {t} : task'[u] = task[u]
    BY <2>1, TaskStep
  <2>3. \A key, m : Owned(key, m) => Owned(key, m)'
    BY <2>1, <2>2, OwnedStays
  <2> QED
    BY <2>1, <2>2, <2>3
<1>3. ASSUME NEW t \in Callers, ResetWrite(t) PROVE KeyInv'
  <2> PICK k, n : k = task[t].key /\ n = task[t].issue
    OBVIOUS
  <2>1. /\ issues' = issues /\ issued' = issued /\ lost' = lost
        /\ keys' = IF k \in DOMAIN keys THEN [keys EXCEPT ![k] = Renewed(@, n)] ELSE keys
        /\ task[t].pc = "write" /\ n \in Issue
    BY <1>3 DEF ResetWrite, Become, TasksOK
  <2>2. task' = [task EXCEPT ![t] = Task("answer", k, n)]
    <3>1. task' = [task EXCEPT ![t] = [task[t] EXCEPT !.pc = "answer"]]
      BY <1>3 DEF ResetWrite
    <3>2. task[t] = Task(task[t].pc, k, n)
      BY DEF TasksOK
    <3>3. [task[t] EXCEPT !.pc = "answer"] = Task("answer", k, n)
      BY <3>2 DEF Task
    <3> QED
      BY <3>1, <3>3
  <2>3. TasksOK' /\ task'[t] = Task("answer", k, n) /\ \A u \in Callers \ {t} : task'[u] = task[u]
    BY <2>1, <2>2, AnswerStep
  <2>4. Owned(k, n)'
    BY <2>3 DEF Owned
  <2>5. ASSUME NEW key \in DOMAIN keys' PROVE Whole(keys'[key]) /\ Owned(key, keys[key].hash)'
    <3>1. CASE key = k
      <4>1. Whole(keys[k]) /\ keys'[k] = Renewed(keys[k], n)
        BY <2>1, <2>5, <3>1
      <4>2. Renewed(keys[k], n) = [hash |-> n, passphrase |-> n, encryptionKey |-> n,
                                   isActive |-> keys[k].isActive]
        <5> DEFINE row(h, b) == [hash |-> h, passphrase |-> h, encryptionKey |-> h, isActive |-> b]
        <5>1. \A h, b : Renewed(row(h, b), n) = row(n, b)
          <6> SUFFICES ASSUME NEW h, NEW b PROVE Renewed(row(h, b), n) = row(n, b)
            OBVIOUS
          <6> DEFINE one == [hash |-> n, passphrase |-> h, encryptionKey |-> h, isActive |-> b]
                     two == [hash |-> n, passphrase |-> n, encryptionKey |-> h, isActive |-> b]
          <6>1. [row(h, b) EXCEPT !.hash = n] = one
            OBVIOUS
          <6>2. [one EXCEPT !.passphrase = n] = two
            OBVIOUS
          <6>3. [two EXCEPT !.encryptionKey = n] = row(n, b)
            OBVIOUS
          <6>4. Renewed(row(h, b), n)
                  = [[[row(h, b) EXCEPT !.hash = n] EXCEPT !.passphrase = n] EXCEPT !.encryptionKey = n]
            BY Zenon DEF Renewed
          <6> HIDE DEF row, one, two
          <6> QED
            BY <6>1, <6>2, <6>3, <6>4, Zenon
        <5>2. keys[k] = row(keys[k].hash, keys[k].isActive)
          BY <4>1 DEF Whole
        <5> HIDE DEF row
        <5>3. Renewed(keys[k], n) = row(n, keys[k].isActive)
          BY <5>1, <5>2
        <5> QED
          BY <5>3 DEF row
      <4>3. Whole(keys'[k]) /\ keys'[k].hash = n
        BY <2>1, <4>1, <4>2 DEF Whole
      <4> QED
        BY <2>4, <3>1, <4>3
    <3>2. CASE key # k
      <4>1. key \in DOMAIN keys /\ keys'[key] = keys[key]
        BY <2>1, <2>5, <3>2
      <4>2. \A m : Owned(key, m) => Owned(key, m)'
        BY <2>1, <2>3, OwnedStays
      <4>3. Owned(key, keys[key].hash) /\ Whole(keys[key])
        BY <4>1
      <4> DEFINE h == keys[key].hash
      <4>4. keys'[key].hash = h /\ Owned(key, h)'
        BY <4>1, <4>2, <4>3
      <4> QED
        BY <4>1, <4>3, <4>4
    <3> QED
      BY <3>1, <3>2
  <2> QED
    BY <2>1, <2>3, <2>5
<1>4. ASSUME NEW t \in Callers, HandOut(t) PROVE KeyInv'
  <2>1. /\ issues' = issues /\ lost' = lost /\ keys' = keys
        /\ issued' = issued \cup {[key |-> task[t].key, issue |-> task[t].issue]}
        /\ task' = [task EXCEPT ![t] = Task("idle", None, None)]
    BY <1>4 DEF HandOut, NoTask, Task
  <2>2. TasksOK' /\ \A u \in Callers \ {t} : task'[u] = task[u]
    BY <2>1, TaskStep
  <2>3. ASSUME NEW key, NEW m, Owned(key, m) PROVE Owned(key, m)'
    <3>1. task[t] = Task("answer", key, m) => [key |-> key, issue |-> m] \in issued'
      BY <2>1 DEF Task
    <3> QED
      BY <2>1, <2>2, <2>3, <3>1 DEF Owned
  <2> QED
    BY <2>1, <2>2, <2>3
<1>5. CASE CreateRaw
  <2>1. /\ UNCHANGED <<issued, issues, lost, task>> /\ keys' = Inserted(Raw)
    BY <1>5 DEF CreateRaw, Become
  <2>2. \A key \in DOMAIN keys' :
           \/ key \in DOMAIN keys /\ keys'[key] = keys[key]
           \/ key = Raw /\ keys'[key] = NewRow(Raw)
    BY <2>1 DEF Inserted
  <2>3. \A key, m : Owned(key, m) => Owned(key, m)'
    BY <2>1 DEF Owned
  <2>4. Owned(Raw, Raw)'
    BY <2>1 DEF Owned
  <2>5. ASSUME NEW key \in DOMAIN keys' PROVE Whole(keys'[key]) /\ Owned(key, keys[key].hash)'
    <3>1. CASE key \in DOMAIN keys /\ keys'[key] = keys[key]
      <4> DEFINE h == keys[key].hash
      <4>1. Whole(keys[key]) /\ Owned(key, h) /\ keys'[key].hash = h
        BY <3>1
      <4>2. Owned(key, h)'
        BY <2>3, <4>1, <3>1
      <4> QED
        BY <3>1, <4>1, <4>2
    <3>2. CASE key = Raw /\ keys'[key] = NewRow(Raw)
      BY <2>4, <3>2, NewRows, RawIssue
    <3> QED
      BY <2>2, <3>1, <3>2
  <2> QED
    BY <2>1, <2>5 DEF TasksOK
<1>6. CASE Switch
  <2>1. UNCHANGED <<issued, issues, lost, task>>
    BY <1>6 DEF Switch
  <2>2. \A key, m : Owned(key, m) => Owned(key, m)'
    BY <2>1 DEF Owned
  <2>3. ASSUME NEW key \in DOMAIN keys'
        PROVE  /\ key \in DOMAIN keys
               /\ keys'[key] = keys[key] \/ \E b : keys'[key] = [keys[key] EXCEPT !.isActive = b]
    <3>1. \/ \E k \in DOMAIN keys, b \in BOOLEAN : keys' = Switched(k, b)
          \/ \E k \in DOMAIN keys : keys' = Deleted(k)
          \/ keys' = DeletedAll
      BY <1>6 DEF Switch, Become
    <3>2. CASE \E k \in DOMAIN keys, b \in BOOLEAN : keys' = Switched(k, b)
      BY <2>3, <3>2 DEF Switched
    <3>3. CASE \E k \in DOMAIN keys : keys' = Deleted(k)
      BY <2>3, <3>3 DEF Deleted
    <3>4. CASE keys' = DeletedAll
      BY <2>3, <3>4, NoRows DEF DeletedAll
    <3> QED
      BY <3>1, <3>2, <3>3, <3>4
  <2>4. ASSUME NEW key \in DOMAIN keys' PROVE Whole(keys'[key]) /\ Owned(key, keys[key].hash)'
    <3> PICK row, h : row = keys[key] /\ h = row.hash
      OBVIOUS
    <3>1. Whole(row) /\ Owned(key, h)
      BY <2>3
    <3>2. ASSUME NEW b
          PROVE  Whole([row EXCEPT !.isActive = b]) /\ [row EXCEPT !.isActive = b].hash = h
      BY <3>1 DEF Whole
    <3>3. Whole(keys'[key]) /\ keys'[key].hash = h
      BY <2>3, <3>1, <3>2
    <3>4. Owned(key, h)'
      BY <2>1, <2>2, <3>1
    <3> QED
      BY <3>3, <3>4
  <2> QED
    BY <2>1, <2>4 DEF TasksOK
<1>7. CASE TasksLost
  <2>1. /\ UNCHANGED <<keys, issued, issues>> /\ task' = [t \in Callers |-> NoTask]
        /\ lost' = lost \cup {task[t].issue : t \in {u \in Callers : task[u].pc = "answer"}}
    BY <1>7 DEF TasksLost
  <2>2. TasksOK'
    BY <2>1 DEF TasksOK, Task, NoTask
  <2>3. ASSUME NEW key, NEW m, Owned(key, m) PROVE Owned(key, m)'
    <3>1. \A t \in Callers : task[t] = Task("answer", key, m) => m \in lost'
      BY <2>1 DEF Task
    <3> QED
      BY <2>1, <2>3, <3>1 DEF Owned
  <2> QED
    BY <2>1, <2>2, <2>3
<1>8. CASE UNCHANGED keyVars
  BY <1>8 DEF keyVars, TasksOK, Owned
<1> QED
  BY <1>1, <1>2, <1>3, <1>4, <1>5, <1>6, <1>7, <1>8, KeySteps

\* Whatever resets, switches and removals overlap, and wherever the process dies: a stored key
\* works for whoever was handed its last issue.
THEOREM LastIssueCorrect == Spec => []LastIssueWorks
<1>1. KeyInv => LastIssueWorks
  <2> SUFFICES ASSUME KeyInv, \A t \in Callers : task[t].pc = "idle", NEW key \in DOMAIN keys
               PROVE  \E n \in Issue : /\ Decrypts(keys[key], n) /\ keys[key].hash = n
                                       /\ keys[key].passphrase = n
                                       /\ [key |-> key, issue |-> n] \in issued \/ n \in lost
    BY DEF LastIssueWorks
  <2> DEFINE n == keys[key].hash
  <2>1. Whole(keys[key]) /\ Owned(key, n)
    BY DEF KeyInv
  <2>2. n \in Issue /\ keys[key].passphrase = n /\ keys[key].encryptionKey = n
    BY <2>1 DEF Whole
  <2>3. [key |-> key, issue |-> n] \in issued \/ n \in lost
    BY <2>1 DEF Owned, Task
  <2> QED
    BY <2>2, <2>3 DEF Decrypts
<1> QED
  BY <1>1, KeyInit, KeyStep, PTL DEF Spec
-----------------------------------------------------------------------------
\* A request for /hello-api-key knows of its credentials all that the stored rows say, and
\* the copy of the row it verifies them with was valid if it fits them.
HelloOK(pc, d) ==
    /\ CarriedOK(d)
    /\ Valid(keys, d.key, d.issue) => d.valid
    /\ d.current => Current(keys, d.key, d.issue)
    /\ pc = "verify" => /\ d.row.hash = d.issue => d.valid
                        /\ d.current => Decrypts(d.row, d.issue)
    /\ pc = "interceptors" => d.valid
    /\ pc = "hung" => (d.current => d.body = "garbled" \/ d.row = Error)

SlotOK(q) ==
    /\ q.route = "hello" => HelloOK(q.pc, q.data)
    /\ q.pc = "hung" => q.route = "hello"

HelloInv == SlotsOK /\ \A s \in Slots : SlotOK(req[s])

\* A handler that goes on with what it carries, and not as one of /hello-api-key beyond its
\* first guard.
GoesOn(s) ==
    \E pc : /\ GoOn(s, pc, req[s].data)
            /\ pc # "hung"
            /\ req[s].route # "hello" \/ pc \in {"guards", "maintenance"}

\* What any step does to the slots.
LEMMA ServeSteps ==
    ASSUME NEW s \in Slots, Serve(s)
    PROVE  \/ FindKey(s) \/ Verify(s)
           \/ keys' = keys /\ GoesOn(s)
           \/ keys' = keys /\ \E status : Reply(s, status)
<1>1. CASE Enter(s) /\ UNCHANGED keyVars
  <2>1. /\ Limited(s) \/ ~HasAgent(s) => \E status : Reply(s, status)
        /\ ~(Limited(s) \/ ~HasAgent(s)) =>
              GoOn(s, IF Excluded(req[s].route) THEN "guards" ELSE "maintenance", req[s].data)
    BY <1>1, Zenon DEF Enter, Throw
  <2>2. (IF Excluded(req[s].route) THEN "guards" ELSE "maintenance") \in {"guards", "maintenance"}
    OBVIOUS
  <2> QED
    BY <1>1, <2>1, <2>2 DEF GoesOn, keyVars
<1>2. CASE GiveUp(s) /\ UNCHANGED keyVars
  BY <1>2 DEF GiveUp, keyVars
<1>3. CASE Greet(s)
  BY <1>3 DEF Greet, Throw, keyVars
<1>4. CASE CheckMaintenance(s) /\ UNCHANGED keyVars
  BY <1>4 DEF CheckMaintenance, Throw, GoesOn, keyVars
<1>5. CASE (Login(s) \/ Refresh(s) \/ GetByName(s) \/ UpdateSetting(s)) /\ UNCHANGED keyVars
  BY <1>5 DEF Login, Refresh, GetByName, UpdateSetting, Throw, keyVars
<1>6. CASE FindSetting(s) /\ UNCHANGED keyVars
  BY <1>6 DEF FindSetting, At, Throw, GoesOn, keyVars
<1>7. CASE FindUser(s) /\ UNCHANGED keyVars
  BY <1>7 DEF FindUser, At, Throw, GoesOn, keyVars
<1>8. CASE Pipe(s) /\ UNCHANGED keyVars
  BY <1>8 DEF Pipe, At, Throw, GoesOn, keyVars
<1>9. CASE Put(s) /\ UNCHANGED keyVars
  BY <1>9 DEF Put, At, Throw, GoesOn, keyVars
<1>10. CASE Record(s) /\ UNCHANGED keyVars
  BY <1>10 DEF Record, Throw, keyVars
<1> QED
  BY <1>1, <1>2, <1>3, <1>4, <1>5, <1>6, <1>7, <1>8, <1>9, <1>10 DEF Serve

LEMMA SlotSteps ==
    ASSUME [Next]_vars
    PROVE  \/ \E k : Become(k)
           \/ \E s \in Slots : Serve(s)
           \/ \E c : Hello(c)
           \/ /\ keys' = keys
              /\ \/ req' = req
                 \/ \E c, route, agent, data : route # "hello" /\ Send(c, route, agent, data)
                 \/ \E s \in Slots : Expire(s)
                 \/ Die
<1>1. CASE UNCHANGED vars
  BY <1>1 DEF vars, keyVars, requestVars
<1>2. CASE Keys
  BY <1>2 DEF Keys, Create, ResetRead, ResetWrite, HandOut, CreateRaw, Switch, requestVars
<1>3. CASE Outside
  <2>1. ASSUME NEW c, SendUpload(c) PROVE \E route, agent, data : route # "hello" /\ Send(c, route, agent, data)
    BY <2>1 DEF SendUpload
  <2>2. ASSUME Meddle PROVE \E c, route, agent, data : route # "hello" /\ Send(c, route, agent, data)
    BY <2>2 DEF Meddle
  <2> QED
    BY <1>3, <2>1, <2>2 DEF Outside, DeleteUser, Expiry, Remove, Seed, keyVars, requestVars
<1>4. CASE Administrator
  <2>1. NextRoute # "hello"
    BY DEF NextRoute
  <2> QED
    BY <1>4, <2>1 DEF Administrator, Administer, keyVars
<1>5. CASE Timeout
  BY <1>5 DEF Timeout, keyVars
<1>6. CASE Restart
  BY <1>6 DEF Restart, Crash, TasksLost
<1> QED
  BY <1>1, <1>2, <1>3, <1>4, <1>5, <1>6 DEF Next

LEMMA FreeIsOK == SlotOK(Free) /\ (keys' = keys => SlotOK(Free)')
  BY RequestAssumption DEF SlotOK, Free, Routes

\* A slot that does not change stays as it should be while the rows do not change.
LEMMA SameIsOK ==
    ASSUME NEW q, SlotOK(q), keys' = keys
    PROVE  SlotOK(q)'
  BY DEF SlotOK, HelloOK, Valid, Current

LEMMA HelloInit == Init => HelloInv
<1> SUFFICES ASSUME Init PROVE HelloInv
  OBVIOUS
<1>1. req = [s \in Slots |-> Free]
  BY DEF Init, RequestInit
<1>2. Free = Slot(None, None, "free", None, None)
  BY DEF Free, Slot
<1> QED
  BY <1>1, <1>2, SlotFields, FreeIsOK DEF HelloInv, SlotsOK

\* The rows become k: the request remembers what they said.
LEMMA RememberedOK ==
    ASSUME NEW pc, NEW d, HelloOK(pc, d), NEW k, keys' = k, NEW valid, NEW current,
           NEW e, e = Carried(d.key, d.issue, d.body, d.row, valid, current),
           valid <=> d.valid \/ Valid(k, d.key, d.issue),
           current <=> d.current /\ Current(k, d.key, d.issue)
    PROVE  HelloOK(pc, e)'
<1>1. CarriedOK(d)
  BY DEF HelloOK
<1>2. /\ CarriedOK(e)
      /\ e.key = d.key /\ e.issue = d.issue /\ e.body = d.body /\ e.row = d.row
      /\ e.valid = valid /\ e.current = current
  BY <1>1, CarriedFields
<1>3. /\ Valid(k, d.key, d.issue) => e.valid
      /\ e.current => Current(k, d.key, d.issue) /\ d.current
      /\ d.valid => e.valid
  BY <1>2
<1>4. Valid(keys, e.key, e.issue)' => e.valid
  BY <1>2, <1>3 DEF Valid, Current
<1>5. e.current => Current(keys, e.key, e.issue)'
  BY <1>2, <1>3 DEF Current
<1>6. pc = "verify" => /\ e.row.hash = e.issue => e.valid
                       /\ e.current => Decrypts(e.row, e.issue)
  BY <1>2, <1>3 DEF HelloOK
<1>7. /\ pc = "interceptors" => e.valid
      /\ pc = "hung" => (e.current => e.body = "garbled" \/ e.row = Error)
  BY <1>2, <1>3 DEF HelloOK
<1> QED
  BY <1>2, <1>4, <1>5, <1>6, <1>7 DEF HelloOK

LEMMA BecomeOK ==
    ASSUME HelloInv, NEW k, Become(k), NEW s \in Slots
    PROVE  SlotOK(req[s])'
<1> PICK q, d : q = req[s] /\ d = q.data
  OBVIOUS
<1>1. CASE q.route # "hello"
  <2>1. req'[s] = q
    BY <1>1, BecomeSlot DEF HelloInv
  <2> QED
    BY <1>1, <2>1 DEF HelloInv, SlotOK
<1>2. CASE q.route = "hello"
  <2> PICK e : e = req'[s].data
    OBVIOUS
  <2>1. HelloOK(q.pc, d)
    BY <1>2 DEF HelloInv, SlotOK
  <2>2. req'[s].route = "hello" /\ req'[s].pc = q.pc
    BY <1>2, BecomeSlot DEF HelloInv
  <2>3. e = Carried(d.key, d.issue, d.body, d.row, d.valid \/ Valid(k, d.key, d.issue),
                    d.current /\ Current(k, d.key, d.issue))
    BY <1>2, <2>1, BecomeSlot, CarriedFlags DEF HelloInv, HelloOK
  <2>4. keys' = k
    BY DEF Become
  <2>5. HelloOK(q.pc, e)'
    BY <2>1, <2>3, <2>4, RememberedOK
  <2> QED
    BY <2>2, <2>5 DEF SlotOK
<1> QED
  BY <1>1, <1>2

\* A new request is sent with what was handed out.
LEMMA SentOK ==
    ASSUME HelloInv, NEW c, Hello(c)
    PROVE  HelloInv'
<1>1. PICK key, issue, body, agent :
         Send(c, "hello", agent, Carried(key, issue, body, None, Valid(keys, key, issue),
                                         Current(keys, key, issue)))
  BY DEF Hello, Carried
<1> PICK valid, current : valid = Valid(keys, key, issue) /\ current = Current(keys, key, issue)
  OBVIOUS
<1> PICK d : d = Carried(key, issue, body, None, valid, current)
  OBVIOUS
<1>2. keys' = keys /\ Send(c, "hello", agent, d)
  BY <1>1 DEF Hello, keyVars
<1>3. /\ CarriedOK(d) /\ d.key = key /\ d.issue = issue
      /\ d.valid = valid /\ d.current = current
  BY CarriedFields
<1> PICK q : q = Slot(c, "hello", "sent", agent, d)
  OBVIOUS
<1>4. q.route = "hello" /\ q.pc = "sent" /\ q.data = d
  BY SlotFields
<1>5. HelloOK("sent", d)
  BY <1>3 DEF HelloOK
<1>6. SlotOK(q)
  BY <1>4, <1>5 DEF SlotOK
<1>7. SlotsOK' /\ \A s \in Slots : req'[s] = req[s] \/ req'[s] = q
  BY <1>2, SendSlot DEF HelloInv
<1>8. ASSUME NEW s \in Slots PROVE SlotOK(req[s])'
  <2> PICK p : p = req[s]
    OBVIOUS
  <2>1. SlotOK(p)' /\ SlotOK(q)'
    BY <1>2, <1>6, SameIsOK DEF HelloInv
  <2>2. req'[s] = p \/ req'[s] = q
    BY <1>7
  <2> QED
    BY <2>1, <2>2 DEF SlotOK, HelloOK
<1> QED
  BY <1>7, <1>8 DEF HelloInv

\* A single slot that changes, to what it should be.
LEMMA OneSlotOK ==
    ASSUME HelloInv, keys' = keys, NEW t \in Slots, SlotsOK',
           \A s \in Slots \ {t} : req'[s] = req[s], NEW q, req'[t] = q, SlotOK(q)
    PROVE  HelloInv'
<1>1. ASSUME NEW s \in Slots PROVE SlotOK(req[s])'
  <2> PICK p : p = req[s]
    OBVIOUS
  <2>1. SlotOK(p)' /\ SlotOK(q)'
    BY SameIsOK DEF HelloInv
  <2>2. req'[s] = p \/ req'[s] = q
    OBVIOUS
  <2> QED
    BY <2>1, <2>2 DEF SlotOK, HelloOK
<1> QED
  BY <1>1 DEF HelloInv

LEMMA ReplyOK ==
    ASSUME HelloInv, keys' = keys, NEW t \in Slots, NEW status, Reply(t, status)
    PROVE  HelloInv'
<1>1. SlotsOK' /\ (\A s \in Slots \ {t} : req'[s] = req[s]) /\ req'[t] = Free
  BY ReplySlot DEF HelloInv
<1> PICK q : q = Free
  OBVIOUS
<1> QED
  BY <1>1, FreeIsOK, OneSlotOK

LEMMA GoOnOK ==
    ASSUME HelloInv, keys' = keys, NEW t \in Slots, NEW pc, NEW d, GoOn(t, pc, d),
           req[t].route = "hello" => HelloOK(pc, d), pc = "hung" => req[t].route = "hello"
    PROVE  HelloInv'
<1> PICK q : q = Slot(req[t].client, req[t].route, pc, req[t].agent, d)
  OBVIOUS
<1>1. SlotsOK' /\ (\A s \in Slots \ {t} : req'[s] = req[s]) /\ req'[t] = q
  BY GoOnSlot DEF HelloInv
<1>2. SlotOK(q)
  BY SlotFields DEF SlotOK
<1> QED
  BY <1>1, <1>2, OneSlotOK

LEMMA DieOK ==
    ASSUME HelloInv, keys' = keys, Die
    PROVE  HelloInv'
<1>1. SlotsOK' /\ \A s \in Slots : req'[s] = Free
  BY DieSlot
<1>2. ASSUME NEW s \in Slots PROVE SlotOK(req[s])'
  <2> PICK q : q = Free
    OBVIOUS
  <2>1. SlotOK(q)'
    BY FreeIsOK, SameIsOK
  <2> QED
    BY <1>1, <2>1 DEF SlotOK, HelloOK
<1> QED
  BY <1>1, <1>2 DEF HelloInv

\* The strategy takes a copy of the row: it was valid if it fits the credentials, and fits
\* them if they are current.  Or its query fails.
LEMMA FindKeyOK ==
    ASSUME KeyInv, HelloInv, NEW s \in Slots, FindKey(s)
    PROVE  HelloInv'
<1> PICK d : d = req[s].data
  OBVIOUS
<1>1. keys' = keys /\ req[s].route = "hello"
  BY DEF FindKey, At, keyVars, TasksLost
<1>2. HelloOK(req[s].pc, d)
  BY <1>1 DEF HelloInv, SlotOK
<1>3. CASE \E status : Reply(s, status)
  BY <1>1, <1>3, ReplyOK
<1>4. CASE /\ d.key \in DOMAIN keys /\ keys[d.key].isActive
           /\ GoOn(s, "verify", [d EXCEPT !.row = keys[d.key]])
  <2> PICK row : row = keys[d.key]
    OBVIOUS
  <2> PICK e : e = [d EXCEPT !.row = row]
    OBVIOUS
  <2>1. GoOn(s, "verify", e)
    BY <1>4
  <2>2. /\ CarriedOK(e) /\ e.key = d.key /\ e.issue = d.issue /\ e.row = row
        /\ e.valid = d.valid /\ e.current = d.current
    BY <1>2, CarriedRow DEF HelloOK
  <2>3. row.hash = d.issue => d.valid
    BY <1>2, <1>4 DEF HelloOK, Valid, Current
  <2>4. d.current => Decrypts(row, d.issue)
    <3>1. Whole(row)
      BY <1>4 DEF KeyInv
    <3>2. row.passphrase = row.hash /\ row.encryptionKey = row.hash
      BY <3>1 DEF Whole
    <3> QED
      BY <1>2, <3>2 DEF HelloOK, Current, Decrypts
  <2>5. HelloOK("verify", e)
    BY <1>2, <2>2, <2>3, <2>4 DEF HelloOK
  <2> QED
    BY <1>1, <2>1, <2>5, GoOnOK
<1>5. CASE GoOn(s, "hung", [d EXCEPT !.row = Error])
  <2> PICK e : e = [d EXCEPT !.row = Error]
    OBVIOUS
  <2>1. /\ CarriedOK(e) /\ e.key = d.key /\ e.issue = d.issue /\ e.row = Error
        /\ e.valid = d.valid /\ e.current = d.current
    BY <1>2, CarriedRow DEF HelloOK
  <2>2. HelloOK("hung", e)
    BY <1>2, <2>1 DEF HelloOK
  <2> QED
    BY <1>1, <1>5, <2>2, GoOnOK
<1>6. CASE Crash
  BY <1>1, <1>6, DieOK DEF Crash
<1> QED
  BY <1>3, <1>4, <1>5, <1>6 DEF FindKey, Refuse, Throw

LEMMA VerifyOK ==
    ASSUME HelloInv, NEW s \in Slots, Verify(s)
    PROVE  HelloInv'
<1> PICK d : d = req[s].data
  OBVIOUS
<1>1. keys' = keys /\ req[s].route = "hello" /\ req[s].pc = "verify"
  BY DEF Verify, At, keyVars, TasksLost
<1>2. HelloOK("verify", d)
  BY <1>1 DEF HelloInv, SlotOK
<1> PICK e : e = [d EXCEPT !.row = None]
  OBVIOUS
<1>3. /\ CarriedOK(e) /\ e.key = d.key /\ e.issue = d.issue /\ e.body = d.body
      /\ e.valid = d.valid /\ e.current = d.current
  BY <1>2, CarriedRow DEF HelloOK
<1>4. CASE ~Readable(d) /\ GoOn(s, "hung", e)
  <2>1. HelloOK("hung", e)
    BY <1>2, <1>3, <1>4 DEF HelloOK, Readable
  <2> QED
    BY <1>1, <1>4, <2>1, GoOnOK
<1>5. CASE Crash
  BY <1>1, <1>5, DieOK DEF Crash
<1>6. CASE \E status : Reply(s, status)
  BY <1>1, <1>6, ReplyOK
<1>7. CASE d.row.hash = d.issue /\ GoOn(s, "interceptors", e)
  <2>1. HelloOK("interceptors", e)
    BY <1>2, <1>3, <1>7 DEF HelloOK
  <2> QED
    BY <1>1, <1>7, <2>1, GoOnOK
<1> QED
  BY <1>4, <1>5, <1>6, <1>7 DEF Verify, Refuse, Throw

LEMMA HelloStep == KeyInv /\ HelloInv /\ [Next]_vars => HelloInv'
<1> SUFFICES ASSUME KeyInv, HelloInv, [Next]_vars PROVE HelloInv'
  OBVIOUS
<1>1. ASSUME NEW k, Become(k) PROVE HelloInv'
  <2>1. \A s \in Slots : SlotOK(req[s])'
    BY <1>1, BecomeOK
  <2>2. SlotsOK'
    BY <1>1, BecomeSlots DEF HelloInv
  <2> QED
    BY <2>1, <2>2 DEF HelloInv
<1>2. ASSUME NEW s \in Slots, Serve(s) PROVE HelloInv'
  <2>1. CASE FindKey(s)
    BY <2>1, FindKeyOK
  <2>2. CASE Verify(s)
    BY <2>2, VerifyOK
  <2>3. CASE keys' = keys /\ GoesOn(s)
    <3> PICK d : d = req[s].data
      OBVIOUS
    <3>1. PICK pc : /\ GoOn(s, pc, d)
                    /\ pc # "hung"
                    /\ req[s].route # "hello" \/ pc \in {"guards", "maintenance"}
      BY <2>3 DEF GoesOn
    <3>2. req[s].route = "hello" => HelloOK(pc, d)
      BY <3>1 DEF HelloInv, SlotOK, HelloOK
    <3> QED
      BY <2>3, <3>1, <3>2, GoOnOK
  <2>4. CASE keys' = keys /\ \E status : Reply(s, status)
    BY <2>4, ReplyOK
  <2> QED
    BY <1>2, <2>1, <2>2, <2>3, <2>4, ServeSteps
<1>3. ASSUME NEW c, Hello(c) PROVE HelloInv'
  BY <1>3, SentOK
<1>4. ASSUME keys' = keys, req' = req PROVE HelloInv'
  BY <1>4 DEF HelloInv, SlotsOK, SlotOK, HelloOK, Valid, Current
<1>5. ASSUME keys' = keys, NEW c, NEW route, NEW agent, NEW data, route # "hello",
             Send(c, route, agent, data)
      PROVE  HelloInv'
  <2> PICK q : q = Slot(c, route, "sent", agent, data)
    OBVIOUS
  <2>1. SlotsOK' /\ \A s \in Slots : req'[s] = req[s] \/ req'[s] = q
    BY <1>5, SendSlot DEF HelloInv
  <2>2. SlotOK(q)
    BY <1>5, SlotFields DEF SlotOK
  <2>3. ASSUME NEW s \in Slots PROVE SlotOK(req[s])'
    <3> PICK p : p = req[s]
      OBVIOUS
    <3>1. SlotOK(p)' /\ SlotOK(q)'
      BY <1>5, <2>2, SameIsOK DEF HelloInv
    <3>2. req'[s] = p \/ req'[s] = q
      BY <2>1
    <3> QED
      BY <3>1, <3>2 DEF SlotOK, HelloOK
  <2> QED
    BY <2>1, <2>3 DEF HelloInv
<1>6. ASSUME keys' = keys, NEW s \in Slots, Expire(s) PROVE HelloInv'
  <2> PICK q : q = Slot(None, req[s].route, req[s].pc, req[s].agent, req[s].data)
    OBVIOUS
  <2>1. SlotsOK' /\ (\A t \in Slots \ {s} : req'[t] = req[t]) /\ req'[s] = q
    BY <1>6, ExpireSlot DEF HelloInv
  <2>2. SlotOK(q)
    BY SlotFields DEF HelloInv, SlotOK
  <2> QED
    BY <1>6, <2>1, <2>2, OneSlotOK
<1>7. ASSUME keys' = keys, Die PROVE HelloInv'
  BY <1>7, DieOK
<1> QED
  BY <1>1, <1>2, <1>3, <1>4, <1>5, <1>6, <1>7, SlotSteps

LEMMA HelloCorrect == Spec => [](KeyInv /\ HelloInv)
  BY KeyInit, KeyStep, HelloInit, HelloStep, PTL DEF Spec

\* Whatever is reset, switched off or deleted while a request is under way: it passes the
\* guard only with credentials that were the key's own, of a key in use, since it was sent.
THEOREM AcceptedCorrect == Spec => []AcceptedWasValid
<1>1. HelloInv => AcceptedWasValid
  BY DEF HelloInv, SlotOK, HelloOK, AcceptedWasValid, At
<1> QED
  BY <1>1, HelloCorrect, PTL

\* And a request that can be read, whose query succeeds and whose credentials have been those
\* of the key ever since it was sent never hangs in ApiKeyKeyStrategy.validate: what is done
\* to the key, by how many callers ever, is not enough for it.
THEOREM HangsCorrect == Spec => []HangsExplained
<1>1. HelloInv => HangsExplained
  BY DEF HelloInv, SlotOK, HelloOK, HangsExplained
<1> QED
  BY <1>1, HelloCorrect, PTL
=============================================================================
