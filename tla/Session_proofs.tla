--------------------------- MODULE Session_proofs ---------------------------
(***************************************************************************)
(* Proofs about Session, for every configuration of the lifetimes: types,  *)
(* the end of a session, the bound on revocation, and that a client is     *)
(* never left without a token.                                             *)
(***************************************************************************)
EXTENDS Session, TLAPS

(* How old the tokens of a client can be, compared with its login.          *)
Ages(l) ==
    /\ refresh[l] = age[l]
    /\ \A a \in access[l] : age[l] < a + Effective(Life(l))
    /\ age[l] < Effective(AccessLife) => age[l] \in access[l]
    /\ pc[l] \in {"refreshRole", "refreshIssue"} => age[l] < Effective(Life(l))

(* Tokens are younger than what has been down, and handlers that passed a   *)
(* check run while what they checked has not been down for a unit.          *)
Revocation(l) ==
    /\ \A a \in access[l] : accountDown <= a /\ roleDown <= a
    /\ pc[l] # "idle" => accountDown = 0
    /\ pc[l] \in {"loginIssue", "refreshIssue"} => roleDown = 0

Up ==
    /\ account = "active" => accountDown = 0
    /\ roleActive => roleDown = 0

IInv == TypeOK /\ Up /\ \A l \in Logins : Ages(l) /\ Revocation(l)

(* The lifetimes the library counts are natural numbers, in the order of the *)
(* configured ones.                                                          *)
LEMMA Lifetimes ==
    /\ Effective(AccessLife) \in Nat /\ Effective(AccessLife) > 0
    /\ Effective(RefreshLife) \in Nat /\ Effective(RefreshLife) > 0
    /\ Effective(RememberLife) \in Nat /\ Effective(RememberLife) > 0
    /\ Effective(NotBefore) \in Nat
    /\ Effective(NotBefore) <= Effective(AccessLife)
<1>1. \A n \in Positive : Effective(n) \in Nat /\ Effective(n) > 0
  BY SessionAssumption DEF Positive, Effective
<1>2. \A n \in Nat : Effective(n) \in Nat
  BY SessionAssumption DEF Positive, Effective
<1>3. Effective(NotBefore) <= Effective(AccessLife)
  <2>1. PICK d \in Nat : AccessLife = NotBefore + d
    <3>1. AccessLife - NotBefore \in Nat BY SessionAssumption DEF Positive
    <3>. QED BY <3>1, SessionAssumption DEF Positive
  <2>2. AccessLife * Scale = NotBefore * Scale + d * Scale
    BY <2>1, SessionAssumption DEF Positive
  <2>3. d * Scale \in Nat /\ NotBefore * Scale \in Nat
    BY <2>1, SessionAssumption DEF Positive
  <2>. QED BY <2>2, <2>3 DEF Effective
<1>. QED BY <1>1, <1>2, <1>3, SessionAssumption

(* The life of a refresh token is one of the two, and Horizon lies beyond.   *)
LEMMA LifeType ==
    ASSUME TypeOK, NEW l \in Logins
    PROVE  /\ Effective(Life(l)) \in Nat
           /\ Effective(Life(l)) > 0
           /\ Effective(Life(l)) + Effective(AccessLife) <= Horizon
BY Lifetimes, SessionAssumption DEF TypeOK, Life

(* Ages stay within the horizon.                                             *)
LEMMA OlderType == \A a \in 0 .. Horizon : Older(a) \in 0 .. Horizon
BY SessionAssumption DEF Older

LEMMA InitInv == Init => IInv
<1>. SUFFICES ASSUME Init PROVE IInv OBVIOUS
<1>. USE Lifetimes, SessionAssumption
<1>1. TypeOK
  BY DEF Init, TypeOK
<1>2. Up
  BY DEF Init, Up
<1>3. ASSUME NEW l \in Logins PROVE Ages(l) /\ Revocation(l)
  <2>1. access[l] = {} /\ pc[l] = "idle" /\ age[l] = Horizon /\ refresh[l] = Horizon
    BY DEF Init
  <2>2. ~(Horizon < Effective(AccessLife))
    OBVIOUS
  <2>. QED BY <2>1, <2>2 DEF Ages, Revocation
<1>. QED BY <1>1, <1>2, <1>3 DEF IInv

-----------------------------------------------------------------------------
(* A step of a handler that changes neither tokens nor the server preserves  *)
(* the invariant if the handler may be where it goes.                        *)
LEMMA HandlerStep ==
    ASSUME IInv, NEW l \in Logins, NEW step \in {"idle"} \cup Steps,
           Goto(l, step), UNCHANGED <<server, session>>,
           step # "idle" => accountDown = 0,
           step \in {"loginIssue", "refreshIssue"} => roleDown = 0,
           step \in {"refreshRole", "refreshIssue"} => age[l] < Effective(Life(l))
    PROVE  IInv'
<1>. USE DEF IInv
<1>1. TypeOK'
  BY DEF TypeOK, Goto, Steps, server, session
<1>2. Up'
  BY DEF Up, server
<1>3. ASSUME NEW k \in Logins PROVE Ages(k)' /\ Revocation(k)'
  <2>1. pc'[k] = IF k = l THEN step ELSE pc[k]
    BY DEF TypeOK, Goto
  <2>2. Life(k)' = Life(k)
    BY DEF Life, session
  <2>3. Ages(k)'
    BY <2>1, <2>2 DEF Ages, session, Effective
  <2>4. Revocation(k)'
    BY <2>1 DEF Revocation, session, server
  <2>. QED BY <2>3, <2>4
<1>. QED BY <1>1, <1>2, <1>3

(* Every step preserves the invariant.                                       *)
LEMMA StepInv == IInv /\ [Next]_vars => IInv'
<1>. SUFFICES ASSUME IInv, [Next]_vars PROVE IInv'
  OBVIOUS
<1>0. TypeOK /\ Up /\ \A l \in Logins : Ages(l) /\ Revocation(l)
  BY DEF IInv
<1>1. ASSUME NEW l \in Logins, LoginFind(l) PROVE IInv'
  BY <1>0, <1>1, HandlerStep DEF LoginFind, Up, Steps
<1>2. ASSUME NEW l \in Logins, LoginRole(l) PROVE IInv'
  <2>1. accountDown = 0
    BY <1>0, <1>2 DEF LoginRole, Revocation
  <2>2. CASE roleActive
    BY <1>0, <1>2, <2>1, <2>2, HandlerStep DEF LoginRole, Up, Steps
  <2>3. CASE ~roleActive
    BY <1>0, <1>2, <2>1, <2>3, HandlerStep DEF LoginRole, Steps
  <2>. QED BY <2>2, <2>3
<1>3. ASSUME NEW l \in Logins, LoginIssue(l) PROVE IInv'
  <2>1. accountDown = 0 /\ roleDown = 0
    BY <1>0, <1>3 DEF LoginIssue, Revocation
  <2>2. PICK rememberMe \in BOOLEAN : remember' = [remember EXCEPT ![l] = rememberMe]
    BY <1>3 DEF LoginIssue
  <2>3. TypeOK'
    BY <1>0, <1>3, <2>2, Lifetimes, SessionAssumption DEF TypeOK, LoginIssue, Goto, server, Steps
  <2>4. Up'
    BY <1>0, <1>3 DEF Up, LoginIssue, server
  <2>5. ASSUME NEW k \in Logins PROVE Ages(k)' /\ Revocation(k)'
    <3>1. CASE k = l
      <4>1. /\ age'[k] = 0 /\ refresh'[k] = 0 /\ access'[k] = {0} /\ pc'[k] = "idle"
            /\ accountDown' = 0 /\ roleDown' = 0
        BY <1>0, <1>3, <2>1, <3>1 DEF TypeOK, LoginIssue, Goto, server
      <4>2. Effective(Life(k)') \in Nat /\ Effective(Life(k)') > 0
        BY <2>3, Lifetimes DEF TypeOK, Life
      <4>. QED BY <4>1, <4>2, Lifetimes DEF Ages, Revocation, Effective
    <3>2. CASE k # l
      <4>1. /\ age'[k] = age[k] /\ refresh'[k] = refresh[k] /\ access'[k] = access[k]
            /\ pc'[k] = pc[k] /\ remember'[k] = remember[k]
            /\ accountDown' = accountDown /\ roleDown' = roleDown
        BY <1>0, <1>3, <2>2, <3>2 DEF TypeOK, LoginIssue, Goto, server
      <4>. QED BY <1>0, <4>1 DEF Ages, Revocation, Life, Effective
    <3>. QED BY <3>1, <3>2
  <2>. QED BY <2>3, <2>4, <2>5 DEF IInv
<1>4. ASSUME NEW l \in Logins, RefreshFind(l) PROVE IInv'
  <2>1. age[l] < Effective(Life(l))
    BY <1>0, <1>4 DEF RefreshFind, RefreshAccepted, Unexpired, Ages
  <2>. QED BY <1>0, <1>4, <2>1, HandlerStep DEF RefreshFind, Up, Steps
<1>5. ASSUME NEW l \in Logins, RefreshRole(l) PROVE IInv'
  <2>1. accountDown = 0 /\ age[l] < Effective(Life(l))
    BY <1>0, <1>5 DEF RefreshRole, Revocation, Ages
  <2>2. CASE roleActive
    BY <1>0, <1>5, <2>1, <2>2, HandlerStep DEF RefreshRole, Up, Steps
  <2>3. CASE ~roleActive
    BY <1>0, <1>5, <2>1, <2>3, HandlerStep DEF RefreshRole, Steps
  <2>. QED BY <2>2, <2>3
<1>6. ASSUME NEW l \in Logins, RefreshIssue(l) PROVE IInv'
  <2>1. accountDown = 0 /\ roleDown = 0 /\ age[l] < Effective(Life(l))
    BY <1>0, <1>6 DEF RefreshIssue, Revocation, Ages
  <2>2. TypeOK'
    BY <1>0, <1>6, Lifetimes DEF TypeOK, RefreshIssue, Goto, server, Steps
  <2>3. Up'
    BY <1>0, <1>6 DEF Up, RefreshIssue, server
  <2>4. ASSUME NEW k \in Logins PROVE Ages(k)' /\ Revocation(k)'
    <3>1. /\ age'[k] = age[k] /\ refresh'[k] = refresh[k] /\ remember'[k] = remember[k]
          /\ access'[k] = IF k = l THEN access[k] \cup {0} ELSE access[k]
          /\ pc'[k] = IF k = l THEN "idle" ELSE pc[k]
          /\ accountDown' = accountDown /\ roleDown' = roleDown
      BY <1>0, <1>6 DEF TypeOK, RefreshIssue, Goto, server
    <3>2. Effective(Life(k)) \in Nat
      BY <1>0, LifeType
    <3>3. age[k] \in Nat
      BY <1>0 DEF TypeOK
    <3>4. Life(k)' = Life(k)
      BY <3>1 DEF Life
    <3>5. Ages(k)'
      BY <1>0, <2>1, <3>1, <3>2, <3>3, <3>4 DEF Ages, Effective
    <3>6. Revocation(k)'
      BY <1>0, <2>1, <3>1 DEF Revocation
    <3>. QED BY <3>5, <3>6
  <2>. QED BY <2>2, <2>3, <2>4 DEF IInv
<1>7. ASSUME NEW l \in Logins, ChangePassword(l) PROVE IInv'
  <2>1. TypeOK' /\ Up'
    BY <1>0, <1>7, SessionAssumption DEF TypeOK, Up, ChangePassword, CreatePassword, session
  <2>2. ASSUME NEW k \in Logins PROVE Ages(k)' /\ Revocation(k)'
    BY <1>0, <1>7 DEF Ages, Revocation, Life, ChangePassword, session, Effective
  <2>. QED BY <2>1, <2>2 DEF IInv
<1>8. ASSUME NEW to \in {"active", "inactive", "gone"}, SetAccount(to) PROVE IInv'
  <2>1. accountDown' \in {0, accountDown}
    BY <1>8 DEF SetAccount
  <2>2. TypeOK'
    BY <1>0, <1>8, SessionAssumption DEF TypeOK, SetAccount, session
  <2>3. Up'
    BY <1>0, <1>8 DEF Up, SetAccount
  <2>4. ASSUME NEW k \in Logins PROVE Ages(k)' /\ Revocation(k)'
    <3>1. access[k] \subseteq Nat
      BY <1>0, Lifetimes DEF TypeOK
    <3>. QED BY <1>0, <1>8, <2>1, <3>1 DEF Ages, Revocation, Life, SetAccount, session, Effective
  <2>. QED BY <2>2, <2>3, <2>4 DEF IInv
<1>9. ASSUME NEW to \in BOOLEAN, SetRole(to) PROVE IInv'
  <2>1. roleDown' \in {0, roleDown}
    BY <1>9 DEF SetRole
  <2>2. TypeOK'
    BY <1>0, <1>9, SessionAssumption DEF TypeOK, SetRole, session
  <2>3. Up'
    BY <1>0, <1>9 DEF Up, SetRole
  <2>4. ASSUME NEW k \in Logins PROVE Ages(k)' /\ Revocation(k)'
    <3>1. access[k] \subseteq Nat
      BY <1>0, Lifetimes DEF TypeOK
    <3>. QED BY <1>0, <1>9, <2>1, <3>1 DEF Ages, Revocation, Life, SetRole, session, Effective
  <2>. QED BY <2>2, <2>3, <2>4 DEF IInv
<1>10. CASE Tick
  <2>1. TypeOK'
    <3>1. passwordAge' \in 0 .. PasswordLife + 1
      BY <1>0, <1>10, SessionAssumption DEF TypeOK, Tick, PasswordExpired
    <3>2. accountDown' \in 0 .. Horizon /\ roleDown' \in 0 .. Horizon
      BY <1>0, <1>10, OlderType, SessionAssumption DEF TypeOK, Tick
    <3>3. age' \in [Logins -> 0 .. Horizon] /\ refresh' \in [Logins -> 0 .. Horizon]
      BY <1>0, <1>10, OlderType DEF TypeOK, Tick
    <3>4. access' \in [Logins -> SUBSET (0 .. Effective(AccessLife) - 1)]
      BY <1>0, <1>10, Lifetimes DEF TypeOK, Tick, Unexpired
    <3>. QED BY <1>0, <1>10, <3>1, <3>2, <3>3, <3>4 DEF TypeOK, Tick
  <2>2. Up'
    BY <1>0, <1>10 DEF Up, Tick
  <2>3. ASSUME NEW k \in Logins PROVE Ages(k)' /\ Revocation(k)'
    <3>1. /\ age'[k] = Older(age[k]) /\ refresh'[k] = Older(refresh[k])
          /\ access'[k] = {a \in {b + 1 : b \in access[k]} : Unexpired(a, AccessLife)}
          /\ remember' = remember /\ pc'[k] = "idle"
      BY <1>0, <1>10 DEF TypeOK, Tick
    <3>2. /\ access[k] \subseteq Nat /\ age[k] \in 0 .. Horizon
          /\ accountDown \in Nat /\ roleDown \in Nat
      BY <1>0, Lifetimes DEF TypeOK
    <3>3. Effective(Life(k)) \in Nat /\ Life(k)' = Life(k)
      BY <1>0, <3>1, LifeType DEF Life
    <3>4. ASSUME NEW a \in access'[k]
          PROVE  /\ age'[k] < a + Effective(Life(k))
                 /\ accountDown' <= a /\ roleDown' <= a
      <4>1. PICK b \in access[k] : a = b + 1
        BY <3>1
      <4>2. b \in Nat /\ age[k] < b + Effective(Life(k)) /\ accountDown <= b /\ roleDown <= b
        BY <1>0, <3>2 DEF Ages, Revocation
      <4>3. age'[k] <= age[k] + 1 /\ age'[k] \in Nat
        BY <3>1, <3>2 DEF Older
      <4>4. accountDown' <= accountDown + 1 /\ accountDown' \in Nat
        BY <1>10, <3>2 DEF Tick, Older
      <4>5. roleDown' <= roleDown + 1 /\ roleDown' \in Nat
        BY <1>10, <3>2 DEF Tick, Older
      <4>. QED BY <3>2, <3>3, <4>1, <4>2, <4>3, <4>4, <4>5
    <3>5. age'[k] < Effective(AccessLife) => age'[k] \in access'[k]
      <4>. SUFFICES ASSUME age'[k] < Effective(AccessLife) PROVE age'[k] \in access'[k]
        OBVIOUS
      <4>1. Effective(AccessLife) <= Horizon
        BY <1>0, LifeType, Lifetimes, SessionAssumption
      <4>2. age'[k] = age[k] + 1
        BY <3>1, <3>2, <4>1, Lifetimes, SessionAssumption DEF Older
      <4>3. age[k] \in access[k]
        BY <1>0, <3>2, <4>2, Lifetimes DEF Ages
      <4>. QED BY <3>1, <4>2, <4>3 DEF Unexpired
    <3>6. Ages(k)'
      BY <1>0, <3>1, <3>3, <3>4, <3>5 DEF Ages, Effective
    <3>7. Revocation(k)'
      BY <3>1, <3>4 DEF Revocation
    <3>. QED BY <3>6, <3>7
  <2>. QED BY <2>1, <2>2, <2>3 DEF IInv
<1>11. CASE UNCHANGED vars
  <2>1. TypeOK' /\ Up'
    BY <1>0, <1>11 DEF TypeOK, Up, vars
  <2>2. ASSUME NEW k \in Logins PROVE Ages(k)' /\ Revocation(k)'
    BY <1>0, <1>11 DEF Ages, Revocation, Life, vars, Effective
  <2>. QED BY <2>1, <2>2 DEF IInv
<1>. QED
  BY <1>1, <1>2, <1>3, <1>4, <1>5, <1>6, <1>7, <1>8, <1>9, <1>10, <1>11 DEF Next

LEMMA Invariance == Spec => []IInv
<1>1. Init => IInv BY InitInv
<1>2. IInv /\ [Next]_vars => IInv' BY StepInv
<1>. QED BY <1>1, <1>2, PTL DEF Spec
-----------------------------------------------------------------------------
(* Every age stays in its range; a token kept as good is one the library takes. *)
THEOREM TypeCorrect == Spec => []TypeOK
<1>1. IInv => TypeOK BY DEF IInv
<1>. QED BY <1>1, Invariance, PTL

(* However often a client refreshes, a login opens the account for the life of *)
(* its refresh token and of one access token, for every choice of lifetimes.   *)
THEOREM SessionsEnd == Spec => []SessionEnds
<1>1. IInv => SessionEnds
  <2>. SUFFICES ASSUME IInv, NEW l \in Logins,
                       age[l] >= Effective(Life(l)) + Effective(AccessLife),
                       NEW a \in access[l]
                PROVE  FALSE
    BY DEF SessionEnds
  <2>1. a \in Nat /\ a < Effective(AccessLife) /\ age[l] \in Nat
    BY Lifetimes DEF IInv, TypeOK
  <2>2. Effective(Life(l)) \in Nat
    BY LifeType DEF IInv
  <2>3. age[l] < a + Effective(Life(l))
    BY DEF IInv, Ages
  <2>. QED BY <2>1, <2>2, <2>3, Lifetimes
<1>. QED BY <1>1, Invariance, PTL

(* A client with an unexpired refresh token always holds a token some guard    *)
(* accepts, whenever the delay is within the life of an access token.          *)
THEOREM NeverAGap == Spec => []NoGap
<1>1. IInv => NoGap
  <2>. SUFFICES ASSUME IInv, ~Encryption, NEW l \in Logins,
                       Unexpired(refresh[l], Life(l)), ~RefreshAccepted(l)
                PROVE  \E a \in access[l] : AccessAccepted(a)
    BY DEF NoGap
  <2>1. refresh[l] < Effective(NotBefore)
    BY Lifetimes DEF IInv, TypeOK, RefreshAccepted, Mature, Readable
  <2>2. age[l] < Effective(AccessLife)
    BY <2>1, Lifetimes DEF IInv, TypeOK, Ages
  <2>3. age[l] \in access[l]
    BY <2>2 DEF IInv, Ages
  <2>. QED BY <2>2, <2>3 DEF AccessAccepted, Unexpired, Readable
<1>. QED BY <1>1, Invariance, PTL

(* Once the account or its role has been down for the life of an access token, *)
(* no session of it is left, whatever handlers ran when it went down.          *)
THEOREM RevocationCorrect == Spec => []RevocationBounded
<1>1. IInv => RevocationBounded
  <2>. SUFFICES ASSUME IInv,
                       accountDown >= Effective(AccessLife) \/ roleDown >= Effective(AccessLife),
                       NEW l \in Logins, NEW a \in access[l]
                PROVE  FALSE
    BY DEF RevocationBounded
  <2>1. a \in Nat /\ a < Effective(AccessLife) /\ accountDown \in Nat /\ roleDown \in Nat
    BY Lifetimes DEF IInv, TypeOK
  <2>2. accountDown <= a /\ roleDown <= a
    BY DEF IInv, Revocation
  <2>. QED BY <2>1, <2>2, Lifetimes
<1>. QED BY <1>1, Invariance, PTL
=============================================================================
