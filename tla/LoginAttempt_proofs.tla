------------------------- MODULE LoginAttempt_proofs -------------------------
(***************************************************************************)
(* Theorems about LoginAttempt, for any number of requests and any bodies  *)
(* administrators send.                                                    *)
(***************************************************************************)
EXTENDS LoginAttempt, FiniteSetTheorems, TLAPS

LEMMA UserRecord ==
    ASSUME NEW u \in User
    PROVE  /\ u.passwordAttempt \in Nat
           /\ u.isActive \in BOOLEAN
           /\ \A n \in Nat : [u EXCEPT !.passwordAttempt = n] \in User
           /\ \A b \in BOOLEAN : [u EXCEPT !.isActive = b] \in User
           /\ \A n \in Nat : [u EXCEPT !.passwordAttempt = n].passwordAttempt = n
           /\ \A b \in BOOLEAN : [u EXCEPT !.isActive = b].passwordAttempt = u.passwordAttempt
  BY DEF User

LEMMA TypeInit == Init => TypeOK
<1>1. SeedMode \in Setting
  BY DEF SeedMode, Setting, Types, Values, BooleanTexts
<1>2. NewUser \in User
  BY DEF NewUser, User
<1> QED
  BY <1>1, <1>2, LoginAssumption DEF Init, TypeOK, AdminOps, Steps

LEMMA TypeStep == TypeOK /\ [Next]_vars => TypeOK'
<1> SUFFICES ASSUME TypeOK, [Next]_vars PROVE TypeOK'
  OBVIOUS
<1> USE DEF TypeOK
<1>1. CASE UNCHANGED vars
  BY <1>1 DEF vars
<1>2. ASSUME NEW r \in Requests, Login(r) PROVE TypeOK'
  <2>1. CASE FindUser(r)
    BY <2>1 DEF FindUser, Goto, Steps, Answers
  <2>2. CASE PopulateRole(r)
    BY <2>2 DEF PopulateRole, Goto, Steps, Answers
  <2>3. CASE ReadMode(r)
    BY <2>3 DEF ReadMode, Goto, Steps, Answers
  <2>4. CASE ReadLimit(r)
    BY <2>4 DEF ReadLimit, Goto, Steps, Answers
  <2>5. CASE Validate(r)
    BY <2>5 DEF Validate, Verdict, Goto, Steps, Answers
  <2>6. CASE IncRead(r)
    BY <2>6 DEF IncRead, Goto, Steps, Answers
  <2>7. CASE IncWrite(r)
    <3>1. user' \in User \cup {NoUser}
      BY <2>7, UserRecord DEF IncWrite
    <3> QED
      BY <2>7, <3>1 DEF IncWrite, Goto, Steps, Answers
  <2> QED
    BY <1>2, <2>1, <2>2, <2>3, <2>4, <2>5, <2>6, <2>7 DEF Login
<1>3. ASSUME NEW op \in AdminOps, AdminGuards(op) PROVE TypeOK'
  BY <1>3 DEF AdminGuards
<1>4. ASSUME NEW op \in AdminOps, AdminWrite(op) PROVE TypeOK'
  <2>1. user' \in User \cup {NoUser}
    BY <1>4, UserRecord DEF AdminWrite, WriteUser
  <2>2. role' \in BOOLEAN
    BY <1>4 DEF AdminWrite, WriteRole
  <2> QED
    BY <1>4, <2>1, <2>2 DEF AdminWrite
<1>5. ASSUME NEW body \in ModeBodies, UpdateMode(body) PROVE TypeOK'
  BY <1>5, LoginAssumption DEF UpdateMode
<1>6. ASSUME NEW body \in LimitBodies, UpdateLimit(body) PROVE TypeOK'
  BY <1>6, LoginAssumption DEF UpdateLimit
<1> QED
  BY <1>1, <1>2, <1>3, <1>4, <1>5, <1>6 DEF Next

\* Every variable keeps its type: in particular the counter stays a number whatever
\* document increasePasswordAttempt finds.
THEOREM TypeCorrect == Spec => []TypeOK
  BY TypeInit, TypeStep, PTL DEF Spec
-----------------------------------------------------------------------------
\* The stored counter is inductive only together with the copies from which it is
\* about to be written: none of them is ahead of the answers given so far.
AttemptInv ==
    /\ TypeOK
    /\ AttemptsNotOverstated
    /\ \A r \in Requests :
          pc[r] = "incWrite" => seen[r].passwordAttempt <= Cardinality(Counted)

LEMMA RequestSets ==
    ASSUME NEW S \in SUBSET Requests
    PROVE  IsFiniteSet(S) /\ Cardinality(S) \in Nat
  BY LoginAssumption, FS_Subset, FS_CardinalityType

LEMMA CountedFinite ==
    /\ Counted \subseteq Requests
    /\ Counted' \subseteq Requests
    /\ IsFiniteSet(Counted)
    /\ Cardinality(Counted) \in Nat
    /\ Cardinality(Counted') \in Nat
  BY RequestSets DEF Counted

\* A request is counted by its last step, and stays counted.
LEMMA CountedStep ==
    ASSUME TypeOK, NEW r \in Requests, Login(r)
    PROVE  IF IncWrite(r) THEN Counted' = Counted \cup {r} /\ r \notin Counted
                          ELSE Counted' = Counted
  BY DEF TypeOK, Login, FindUser, PopulateRole, ReadMode, ReadLimit, Validate, Verdict,
         IncRead, IncWrite, Goto, Counted

LEMMA CountedGrows ==
    ASSUME TypeOK, [Next]_vars
    PROVE  Cardinality(Counted) <= Cardinality(Counted')
<1>1. Counted' = Counted \/ \E r \in Requests : Counted' = Counted \cup {r}
  <2>1. ASSUME NEW r \in Requests, Login(r)
        PROVE  Counted' = Counted \/ Counted' = Counted \cup {r}
    BY <2>1, CountedStep
  <2>2. ASSUME pc' = pc PROVE Counted' = Counted
    BY <2>2 DEF Counted
  <2> QED
    BY <2>1, <2>2 DEF Next, vars, AdminGuards, AdminWrite, UpdateMode, UpdateLimit
<1>2. ASSUME NEW r \in Requests
      PROVE  Cardinality(Counted) <= Cardinality(Counted \cup {r})
  BY CountedFinite, FS_AddElement
<1> QED
  BY <1>1, <1>2, CountedFinite

\* No lockout without its cause, for any number of overlapping logins.
THEOREM AttemptsCorrect == Spec => []AttemptsNotOverstated
<1>1. Init => AttemptInv
  <2> SUFFICES ASSUME Init PROVE AttemptInv
    OBVIOUS
  <2>1. TypeOK
    BY TypeInit
  <2>2. user.passwordAttempt = 0
    BY DEF Init, NewUser
  <2>3. \A r \in Requests : pc[r] # "incWrite"
    BY DEF Init
  <2> QED
    BY <2>1, <2>2, <2>3, CountedFinite DEF AttemptInv, AttemptsNotOverstated
<1>2. AttemptInv /\ TypeOK' /\ [Next]_vars => AttemptInv'
  <2> SUFFICES ASSUME AttemptInv, TypeOK', [Next]_vars PROVE AttemptInv'
    OBVIOUS
  <2> DEFINE n == Cardinality(Counted)
  <2>1. n \in Nat /\ n' \in Nat /\ n <= n'
    BY CountedFinite, CountedGrows DEF AttemptInv
  <2>2. /\ user # NoUser => user.passwordAttempt \in Nat /\ user.passwordAttempt <= n
        /\ \A r \in Requests : seen[r].passwordAttempt \in Nat
        /\ \A r \in Requests : pc[r] = "incWrite" => seen[r].passwordAttempt <= n
    BY DEF AttemptInv, AttemptsNotOverstated, TypeOK, User
  <2> SUFFICES /\ user' # NoUser => user'.passwordAttempt <= n'
               /\ \A r \in Requests :
                     pc'[r] = "incWrite" => seen'[r].passwordAttempt <= n'
    BY DEF AttemptInv, AttemptsNotOverstated
  <2> HIDE DEF n
  <2>3. ASSUME NEW r \in Requests, IncWrite(r)
        PROVE  /\ user' # NoUser => user'.passwordAttempt <= n'
               /\ \A q \in Requests :
                     pc'[q] = "incWrite" => seen'[q].passwordAttempt <= n'
    <3>1. n' = n + 1
      <4>1. Counted' = Counted \cup {r} /\ r \notin Counted
        BY <2>3, CountedStep DEF AttemptInv, Login
      <4> QED
        BY <4>1, CountedFinite, FS_AddElement DEF n
    <3>2. user' # NoUser => user'.passwordAttempt = seen[r].passwordAttempt + 1
      <4>1. user \in User \cup {NoUser}
        BY DEF AttemptInv, TypeOK
      <4> QED
        BY <2>3, <2>2, <4>1, UserRecord DEF IncWrite
    <3>3. \A q \in Requests : pc'[q] = "incWrite" => pc[q] = "incWrite" /\ seen' = seen
      BY <2>3 DEF IncWrite, Goto, AttemptInv, TypeOK
    <3>4. pc[r] = "incWrite"
      BY <2>3 DEF IncWrite
    <3> QED
      BY <2>1, <2>2, <3>1, <3>2, <3>3, <3>4
  <2>4. ASSUME NEW r \in Requests, IncRead(r)
        PROVE  /\ user' # NoUser => user'.passwordAttempt <= n'
               /\ \A q \in Requests :
                     pc'[q] = "incWrite" => seen'[q].passwordAttempt <= n'
    <3>1. user' = user
      BY <2>4 DEF IncRead
    <3>2. \A q \in Requests :
             pc'[q] = "incWrite" => \/ pc[q] = "incWrite" /\ seen'[q] = seen[q]
                                    \/ seen'[q] = user /\ user # NoUser
      BY <2>4 DEF IncRead, Goto, AttemptInv, TypeOK
    <3> QED
      BY <2>1, <2>2, <3>1, <3>2
  <2>5. ASSUME \/ \E r \in Requests : \/ FindUser(r) \/ PopulateRole(r) \/ ReadMode(r)
                                      \/ ReadLimit(r) \/ Validate(r)
               \/ \E op \in AdminOps : AdminGuards(op)
               \/ \E body \in ModeBodies : UpdateMode(body)
               \/ \E body \in LimitBodies : UpdateLimit(body)
               \/ UNCHANGED vars
        PROVE  /\ user' # NoUser => user'.passwordAttempt <= n'
               /\ \A q \in Requests :
                     pc'[q] = "incWrite" => seen'[q].passwordAttempt <= n'
    <3>1. user' = user
      BY <2>5 DEF FindUser, PopulateRole, ReadMode, ReadLimit, Validate, AdminGuards,
                  UpdateMode, UpdateLimit, vars
    <3>2. \A q \in Requests :
             pc'[q] = "incWrite" => pc[q] = "incWrite" /\ seen'[q] = seen[q]
      BY <2>5 DEF FindUser, PopulateRole, ReadMode, ReadLimit, Validate, Verdict,
                  AdminGuards, UpdateMode, UpdateLimit, vars, Goto, AttemptInv, TypeOK
    <3> QED
      BY <2>1, <2>2, <3>1, <3>2
  <2>6. ASSUME NEW op \in AdminOps, AdminWrite(op)
        PROVE  /\ user' # NoUser => user'.passwordAttempt <= n'
               /\ \A q \in Requests :
                     pc'[q] = "incWrite" => seen'[q].passwordAttempt <= n'
    <3>1. user' # NoUser => user # NoUser /\ user'.passwordAttempt = user.passwordAttempt
      <4>1. user \in User \cup {NoUser}
        BY DEF AttemptInv, TypeOK
      <4> QED
        BY <2>6, <4>1, UserRecord DEF AdminWrite, WriteUser
    <3>2. pc' = pc /\ seen' = seen
      BY <2>6 DEF AdminWrite
    <3> QED
      BY <2>1, <2>2, <3>1, <3>2
  <2> QED
    BY <2>3, <2>4, <2>5, <2>6 DEF Next, Login
<1>3. AttemptInv => AttemptsNotOverstated
  BY DEF AttemptInv
<1> QED
  BY <1>1, <1>2, <1>3, TypeCorrect, PTL DEF Spec
-----------------------------------------------------------------------------
\* One login at a time: the copy a handler works on is as recent as its decisions
\* need, because only a login changes the counter.
Comparing == {"populate", "readMode", "readLimit", "validate"}
Increasing == {"incRead", "incWrite"}

UnderLimit(n) == \E body \in LimitBodies \cup {SeedLimit} : n < NumberOf[body.value]

SerialInv ==
    /\ TypeOK
    /\ mode \in ModeBodies \cup {SeedMode}
    /\ limit \in LimitBodies \cup {SeedLimit}
    /\ \A q, r \in InFlight : q = r
    /\ user # NoUser =>
          Cardinality(Mismatched) = IF \E r \in Requests : pc[r] \in Increasing
                                    THEN user.passwordAttempt + 1
                                    ELSE user.passwordAttempt
    /\ \A r \in Requests :
          /\ pc[r] \in Comparing => seen[r].passwordAttempt = Cardinality(Mismatched)
          /\ pc[r] = "incWrite" => seen[r].passwordAttempt + 1 = Cardinality(Mismatched)
          /\ AlwaysLimited /\ pc[r] = "validate" => UnderLimit(Cardinality(Mismatched))
    /\ LimitEnforced

SerialNext == Next /\ Cardinality(InFlight') <= 1

LEMMA MismatchedStep ==
    ASSUME TypeOK, [Next]_vars
    PROVE  \/ Mismatched' = Mismatched
           \/ \E r \in Requests : /\ pc[r] = "validate"
                                  /\ Validate(r)
                                  /\ r \notin Mismatched
                                  /\ Mismatched' = Mismatched \cup {r}
<1>1. ASSUME NEW r \in Requests, Login(r), ~Validate(r) PROVE Mismatched' = Mismatched
  BY <1>1 DEF TypeOK, Login, FindUser, PopulateRole, ReadMode, ReadLimit, IncRead,
              IncWrite, Goto, Mismatched
<1>2. ASSUME NEW r \in Requests, Validate(r)
      PROVE  \/ Mismatched' = Mismatched
             \/ /\ r \notin Mismatched
                /\ Mismatched' = Mismatched \cup {r}
  BY <1>2 DEF TypeOK, Validate, Verdict, Goto, Mismatched
<1>3. ASSUME pc' = pc PROVE Mismatched' = Mismatched
  BY <1>3 DEF Mismatched
<1>4. \A r \in Requests : Validate(r) => pc[r] = "validate"
  BY DEF Validate
<1> QED
  BY <1>1, <1>2, <1>3, <1>4 DEF Next, vars, AdminGuards, AdminWrite, UpdateMode, UpdateLimit

LEMMA AtMostOne ==
    ASSUME NEW S \in SUBSET Requests, Cardinality(S) <= 1
    PROVE  \A q, r \in S : q = r
<1> SUFFICES ASSUME NEW q \in S, NEW r \in S, q # r PROVE FALSE
  OBVIOUS
<1>1. {q, r} \subseteq S /\ IsFiniteSet(S) /\ Cardinality(S) \in Nat
  BY RequestSets
<1>2. Cardinality({q} \cup {r}) = 2
  <2>1. IsFiniteSet({q}) /\ Cardinality({q}) = 1
    BY FS_Singleton
  <2> QED
    BY <2>1, FS_AddElement
<1>3. {q} \cup {r} = {q, r}
  OBVIOUS
<1>4. Cardinality({q, r}) <= Cardinality(S)
  BY <1>1, FS_Subset
<1> QED
  BY <1>1, <1>2, <1>3, <1>4

LEMMA NumeralsAreNumbers ==
    ASSUME NEW text \in Numerals
    PROVE  NumberOf[text] \in Int /\ text # ""
<1>1. NumberOf \in [Numerals -> Int]
  BY SettingAssumption
<1>2. "" \notin Numerals
  BY SettingAssumption
<1> QED
  BY <1>1, <1>2

\* What the settings mean while every body keeps the lock on and the limit a number.
LEMMA LimitIsNumber ==
    ASSUME AlwaysLimited, NEW body \in LimitBodies \cup {SeedLimit}
    PROVE  /\ body.value \in Numerals
           /\ NumberOf[body.value] \in Nat
           /\ GetValue(body) = [kind |-> "number", text |-> body.value]
<1>1. Kind(body) = "number" /\ NumberOf[body.value] >= 0
  BY DEF AlwaysLimited, GetValue
<1>2. body.value \in Numerals
  BY <1>1 DEF Kind
<1>3. NumberOf[body.value] \in Int
  BY <1>2, NumeralsAreNumbers
<1>4. NumberOf[body.value] \in Nat
  BY <1>1, <1>3
<1> QED
  BY <1>1, <1>2, <1>4 DEF GetValue

LEMMA ModeIsOn ==
    ASSUME AlwaysLimited, NEW body \in ModeBodies \cup {SeedMode}
    PROVE  Truthy(GetValue(body))
<1>1. Truthy(GetValue(SeedMode))
  BY DEF SeedMode, GetValue, Kind, Truthy, BooleanTexts
<1> QED
  BY <1>1 DEF AlwaysLimited

LEMMA RefusedUnlessUnder ==
    ASSUME AlwaysLimited, NEW n \in Nat, NEW body \in LimitBodies \cup {SeedLimit},
           ~AtLeast(n, GetValue(body))
    PROVE  UnderLimit(n)
<1>1. n < NumberOf[body.value]
  <2>1. GetValue(body).kind = "number" /\ GetValue(body).text = body.value
    BY LimitIsNumber
  <2>2. body.value \in Numerals /\ body.value # "" /\ NumberOf[body.value] \in Nat
    BY LimitIsNumber, NumeralsAreNumbers
  <2> DEFINE v == GetValue(body)
  <2>3. v.kind # "boolean" /\ v.text \in Numerals /\ v.text # "" /\ ~AtLeast(n, v)
    BY <2>1, <2>2
  <2>4. ~(n >= NumberOf[v.text])
    <3> HIDE DEF v
    <3> QED
      BY <2>3 DEF AtLeast
  <2>5. ~(n >= NumberOf[body.value])
    BY <2>1, <2>4
  <2>6. \A k \in Nat : n < k \/ n >= k
    OBVIOUS
  <2> QED
    BY <2>2, <2>5, <2>6
<1> QED
  BY <1>1 DEF UnderLimit

LEMMA OneMoreIsEnforced ==
    ASSUME AlwaysLimited, UnderLimit(Cardinality(Mismatched)),
           Cardinality(Mismatched) \in Nat,
           Cardinality(Mismatched)' = Cardinality(Mismatched) + 1
    PROVE  LimitEnforced'
<1>1. PICK body \in LimitBodies \cup {SeedLimit} :
              Cardinality(Mismatched) < NumberOf[body.value]
  BY DEF UnderLimit
<1>2. Cardinality(Mismatched)' <= NumberOf[body.value]
  BY <1>1, LimitIsNumber
<1> QED
  BY <1>2 DEF LimitEnforced

LEMMA SerialInit == Init => SerialInv
<1> SUFFICES ASSUME Init PROVE SerialInv
  OBVIOUS
<1>1. Mismatched = {} /\ InFlight = {}
  BY DEF Init, Mismatched, InFlight, Steps
<1>2. Cardinality(Mismatched) = 0
  BY <1>1, FS_EmptySet
<1>3. LimitEnforced
  <2> SUFFICES ASSUME AlwaysLimited
               PROVE  \E body \in LimitBodies \cup {SeedLimit} :
                         Cardinality(Mismatched) <= NumberOf[body.value]
    BY DEF LimitEnforced
  <2>1. NumberOf[SeedLimit.value] \in Nat
    BY LimitIsNumber
  <2> QED
    BY <1>2, <2>1
<1>4. user.passwordAttempt = 0 /\ \A r \in Requests : pc[r] = "findUser"
  BY DEF Init, NewUser
<1> QED
  BY <1>1, <1>2, <1>3, <1>4, TypeInit DEF SerialInv, Comparing, Increasing, Init

\* The part of SerialInv that a step of one login can disturb, over the values it
\* leaves: kept apart so that each action is checked against these three facts.
SerialCore(m) ==
    /\ user # NoUser =>
          m = IF \E r \in Requests : pc[r] \in Increasing
              THEN user.passwordAttempt + 1 ELSE user.passwordAttempt
    /\ \A r \in Requests :
          /\ pc[r] \in Comparing => seen[r].passwordAttempt = m
          /\ pc[r] = "incWrite" => seen[r].passwordAttempt + 1 = m
          /\ AlwaysLimited /\ pc[r] = "validate" => UnderLimit(m)

LEMMA LoginStep ==
    ASSUME SerialInv, TypeOK', NEW r \in Requests, Login(r), NEW m \in Nat,
           m = Cardinality(Mismatched), \A q, p \in InFlight' : q = p,
           ~(pc[r] = "validate" /\ pc'[r] = "incRead")
    PROVE  SerialCore(m)'
<1> USE DEF SerialInv, TypeOK
<1>1. CASE FindUser(r)
  <2>1. pc'[r] = "populate" => \A q \in Requests : pc[q] \notin Increasing \cup Comparing
    BY <1>1 DEF FindUser, Goto, InFlight, Increasing, Comparing, Steps
  <2>2. user' = user /\ pc[r] = "findUser"
    BY <1>1 DEF FindUser
  <2>3. CASE user = NoUser
    <3>1. pc'[r] = "notFound" /\ seen' = seen /\ \A q \in Requests \ {r} : pc'[q] = pc[q]
      BY <1>1, <2>3 DEF FindUser, Goto
    <3> QED
      BY <2>2, <2>3, <3>1 DEF SerialCore, Comparing, Increasing
  <2>4. CASE user # NoUser
    <3>1. /\ pc'[r] = "populate"
          /\ seen'[r] = user
          /\ \A q \in Requests \ {r} : pc'[q] = pc[q] /\ seen'[q] = seen[q]
      BY <1>1, <2>4 DEF FindUser, Goto
    <3>2. m = user.passwordAttempt
      BY <2>1, <2>4, <3>1 DEF Increasing
    <3>3. \A q \in Requests : pc'[q] \notin Increasing
      BY <2>1, <3>1 DEF Increasing
    <3> QED
      BY <2>1, <2>2, <3>1, <3>2, <3>3 DEF SerialCore, Comparing, Increasing
  <2> QED
    BY <2>3, <2>4
<1>2. CASE PopulateRole(r) \/ ReadMode(r) \/ ReadLimit(r) \/ Validate(r)
  <2>1. /\ user' = user /\ seen' = seen
        /\ pc[r] \in Comparing
        /\ pc'[r] \in Comparing \cup Answers
        /\ \A q \in Requests \ {r} : pc'[q] = pc[q]
    BY <1>2 DEF PopulateRole, ReadMode, ReadLimit, Validate, Verdict, Goto, Comparing, Answers
  <2>2. pc'[r] = "validate" /\ AlwaysLimited => UnderLimit(m)
    <3>1. CASE ReadLimit(r)
      BY <3>1, RefusedUnlessUnder DEF ReadLimit, Goto, Comparing
    <3>2. CASE ReadMode(r)
      BY <3>2, ModeIsOn DEF ReadMode, Goto
    <3>3. CASE PopulateRole(r)
      BY <3>3 DEF PopulateRole, Goto
    <3>4. CASE Validate(r)
      BY <3>4 DEF Validate, Verdict, Goto
    <3> QED
      BY <1>2, <3>1, <3>2, <3>3, <3>4
  <2>3. \A q \in Requests : pc'[q] \in Increasing <=> pc[q] \in Increasing
    BY <2>1 DEF Comparing, Increasing, Answers
  <2> QED
    BY <2>1, <2>2, <2>3 DEF SerialCore, Comparing, Answers
<1>3. CASE IncRead(r)
  <2>1. /\ user' = user /\ pc[r] = "incRead"
        /\ \A q \in Requests \ {r} : pc'[q] = pc[q] /\ seen'[q] = seen[q]
    BY <1>3 DEF IncRead, Goto
  <2>2. CASE user = NoUser
    <3>1. pc'[r] = "error" /\ seen' = seen
      BY <1>3, <2>2 DEF IncRead, Goto
    <3> QED
      BY <2>1, <2>2, <3>1 DEF SerialCore, Comparing
  <2>3. CASE user # NoUser
    <3>1. pc'[r] = "incWrite" /\ seen'[r] = user
      BY <1>3, <2>3 DEF IncRead, Goto
    <3>2. m = user.passwordAttempt + 1
      BY <2>1, <2>3 DEF Increasing
    <3> QED
      BY <2>1, <3>1, <3>2 DEF SerialCore, Comparing, Increasing
  <2> QED
    BY <2>2, <2>3
<1>4. CASE IncWrite(r)
  <2>1. /\ pc[r] = "incWrite" /\ pc'[r] = "notMatch" /\ seen' = seen
        /\ \A q \in Requests \ {r} : pc'[q] = pc[q]
    BY <1>4 DEF IncWrite, Goto
  <2>2. user' # NoUser => user'.passwordAttempt = m
    BY <1>4, <2>1, UserRecord DEF IncWrite
  <2>3. \A q \in Requests : pc'[q] \notin Increasing
    BY <2>1 DEF InFlight, Steps, Increasing
  <2> QED
    BY <2>1, <2>2, <2>3 DEF SerialCore, Comparing, Increasing
<1> QED
  BY <1>1, <1>2, <1>3, <1>4 DEF Login

LEMMA SerialStep == SerialInv /\ [SerialNext]_vars => SerialInv'
<1> SUFFICES ASSUME SerialInv, [SerialNext]_vars PROVE SerialInv'
  OBVIOUS
<1> DEFINE m == Cardinality(Mismatched)
<1>1. TypeOK /\ TypeOK' /\ [Next]_vars
  BY TypeStep DEF SerialInv, SerialNext
<1>2. /\ Mismatched \subseteq Requests /\ Mismatched' \subseteq Requests
      /\ InFlight \subseteq Requests /\ InFlight' \subseteq Requests
  BY DEF Mismatched, InFlight
<1>3. m \in Nat /\ m' \in Nat /\ IsFiniteSet(Mismatched)
  BY <1>2, RequestSets
<1>4. CASE UNCHANGED vars
  BY <1>4 DEF vars, SerialInv, TypeOK, InFlight, Mismatched, LimitEnforced
<1>5. ASSUME SerialNext PROVE SerialInv'
  <2>1. \A q, p \in InFlight' : q = p
    BY <1>2, <1>5, AtMostOne DEF SerialNext
  <2>2. mode' \in ModeBodies \cup {SeedMode} /\ limit' \in LimitBodies \cup {SeedLimit}
    BY <1>5 DEF SerialNext, SerialInv, Next, Login, FindUser, PopulateRole, ReadMode, ReadLimit,
                Validate, IncRead, IncWrite, AdminGuards, AdminWrite, UpdateMode, UpdateLimit
  <2>3. SerialCore(m)' /\ LimitEnforced'
    <3>1. ASSUME NEW r \in Requests, Validate(r), pc'[r] = "incRead"
          PROVE  SerialCore(m)' /\ LimitEnforced'
      <4>1. pc[r] = "validate" /\ user' = user /\ seen' = seen
        BY <3>1 DEF Validate
      <4>2. \A q \in Requests \ {r} : pc'[q] = pc[q] /\ pc[q] \notin Increasing \cup Comparing
        BY <3>1, <4>1, <1>1 DEF SerialInv, InFlight, Validate, Goto, TypeOK, Steps,
                                Increasing, Comparing
      <4>3. Mismatched' = Mismatched \cup {r} /\ r \notin Mismatched
        BY <3>1, <4>1, <1>1 DEF Mismatched, Validate, Goto, TypeOK
      <4>4. m' = m + 1
        BY <1>3, <4>3, FS_AddElement
      <4>5. user # NoUser => m = user.passwordAttempt
        BY <4>1, <4>2 DEF SerialInv, Increasing
      <4>6. LimitEnforced'
        <5> SUFFICES ASSUME AlwaysLimited PROVE LimitEnforced'
          BY DEF LimitEnforced, AlwaysLimited
        <5> QED
          BY <1>3, <4>1, <4>4, OneMoreIsEnforced DEF SerialInv
      <4> QED
        BY <3>1, <4>1, <4>2, <4>4, <4>5, <4>6, <1>1 DEF SerialCore, Increasing, Comparing, TypeOK, User
    <3>2. ASSUME NEW r \in Requests, Login(r), ~(pc[r] = "validate" /\ pc'[r] = "incRead")
          PROVE  SerialCore(m)' /\ LimitEnforced'
      <4>1. Mismatched' = Mismatched
        BY <3>2, <1>1 DEF TypeOK, Login, FindUser, PopulateRole, ReadMode, ReadLimit, Validate,
                          Verdict, IncRead, IncWrite, Goto, Mismatched
      <4>2. \A k \in Nat : k = m => SerialCore(k)'
        BY <3>2, <2>1, <1>1, LoginStep
      <4>3. m' = m
        BY <4>1
      <4> QED
        BY <1>3, <4>1, <4>2, <4>3 DEF SerialCore, SerialInv, LimitEnforced
    <3>3. ASSUME \/ \E op \in AdminOps : AdminGuards(op) \/ AdminWrite(op)
                 \/ \E body \in ModeBodies : UpdateMode(body)
                 \/ \E body \in LimitBodies : UpdateLimit(body)
          PROVE  SerialCore(m)' /\ LimitEnforced'
      <4>1. pc' = pc /\ seen' = seen
        BY <3>3 DEF AdminGuards, AdminWrite, UpdateMode, UpdateLimit
      <4>2. user' # NoUser => user # NoUser /\ user'.passwordAttempt = user.passwordAttempt
        <5>1. user \in User \cup {NoUser}
          BY <1>1 DEF TypeOK
        <5>2. ASSUME NEW op \in AdminOps, AdminWrite(op)
              PROVE  user' # NoUser =>
                        user # NoUser /\ user'.passwordAttempt = user.passwordAttempt
          BY <5>1, <5>2, UserRecord DEF AdminWrite, WriteUser
        <5>3. (\E op \in AdminOps : AdminWrite(op)) \/ user' = user
          BY <3>3 DEF AdminGuards, UpdateMode, UpdateLimit
        <5> QED
          BY <5>2, <5>3
      <4>3. m' = m
        BY <4>1 DEF Mismatched
      <4> QED
        BY <4>1, <4>2, <4>3 DEF SerialCore, SerialInv, LimitEnforced, Mismatched
    <3> QED
      BY <1>5, <3>1, <3>2, <3>3 DEF SerialNext, Next, Login, FindUser, PopulateRole, ReadMode,
                                    ReadLimit, Validate, IncRead, IncWrite
  <2> QED
    BY <1>1, <2>1, <2>2, <2>3 DEF SerialInv, SerialCore
<1> QED
  BY <1>4, <1>5 DEF SerialNext

\* Without overlap the limit is kept, for every number of logins and every sequence of
\* numeric limits: this is what the overlapping handlers lose.
THEOREM LimitCorrect == SerialSpec => []LimitEnforced
<1>1. SerialInv => LimitEnforced
  BY DEF SerialInv
<1> QED
  BY <1>1, SerialInit, SerialStep, PTL DEF SerialSpec, SerialNext
-----------------------------------------------------------------------------
\* A wrong password ends without an answer of its own only where the account is gone.
CountedInv ==
    /\ SerialInv
    /\ user # NoUser => \A r \in Requests : pc[r] # "error"

LEMMA CountedInvInit == Init => CountedInv
  BY SerialInit DEF Init, CountedInv

LEMMA CountedInvStep == CountedInv /\ [SerialNext]_vars => CountedInv'
<1> SUFFICES ASSUME CountedInv, [SerialNext]_vars PROVE CountedInv'
  OBVIOUS
<1>1. SerialInv' /\ TypeOK
  BY SerialStep DEF CountedInv, SerialInv
<1>2. user' # NoUser => user # NoUser
  BY DEF SerialNext, Next, vars, Login, FindUser, PopulateRole, ReadMode, ReadLimit, Validate,
         IncRead, IncWrite, AdminGuards, AdminWrite, WriteUser, UpdateMode, UpdateLimit
<1>3. ASSUME NEW r \in Requests, pc'[r] = "error" PROVE pc[r] = "error" \/ user = NoUser
  <2>1. ASSUME NEW q \in Requests, Login(q) PROVE pc[r] = "error" \/ user = NoUser
    BY <1>1, <1>3, <2>1 DEF TypeOK, Login, FindUser, PopulateRole, ReadMode, ReadLimit, Validate,
                       Verdict, IncRead, IncWrite, Goto
  <2>2. CASE pc' = pc
    BY <1>3, <2>2
  <2> QED
    BY <2>1, <2>2 DEF SerialNext, Next, vars, AdminGuards, AdminWrite, UpdateMode, UpdateLimit
<1> QED
  BY <1>1, <1>2, <1>3 DEF CountedInv

\* Logins one after the other count exactly: between two of them the stored counter is the
\* number of wrong passwords that were answered.
THEOREM ExactCorrect == SerialSpec => []AttemptsExact
<1>1. CountedInv => AttemptsExact
  <2> SUFFICES ASSUME CountedInv, user # NoUser, InFlight = {}
               PROVE  user.passwordAttempt = Cardinality(Counted)
    BY DEF AttemptsExact
  <2>1. \A r \in Requests : pc[r] \notin Increasing
    BY DEF InFlight, Steps, Increasing
  <2>2. Mismatched = Counted
    BY <2>1 DEF CountedInv, Mismatched, Counted, Increasing
  <2> QED
    BY <2>1, <2>2 DEF CountedInv, SerialInv
<1> QED
  BY <1>1, CountedInvInit, CountedInvStep, PTL DEF SerialSpec, SerialNext

\* One more wrong password never brings the counter below a limit it had reached.
LEMMA AtLeastGrows ==
    ASSUME NEW n \in Nat, NEW v, AtLeast(n, v)
    PROVE  AtLeast(n + 1, v)
<1>1. "" \notin Numerals /\ \A t \in Numerals : NumberOf[t] \in Int
  BY SettingAssumption
<1>2. \A k \in Int : n >= k => n + 1 >= k
  OBVIOUS
<1>3. CASE v.kind = "boolean"
  BY <1>2, <1>3 DEF AtLeast
<1>4. CASE v.kind # "boolean" /\ v.text = ""
  <2>1. v.text \notin Numerals
    BY <1>1, <1>4, Zenon
  <2>2. n + 1 >= 0
    OBVIOUS
  <2> QED
    BY <1>4, <2>1, <2>2 DEF AtLeast
<1>5. CASE v.kind # "boolean" /\ v.text # "" /\ v.text \in Numerals
  <2>1. n >= NumberOf[v.text]
    BY <1>5 DEF AtLeast
  <2> QED
    BY <1>1, <1>2, <1>5, <2>1 DEF AtLeast
<1>6. CASE v.kind # "boolean" /\ v.text # "" /\ v.text \notin Numerals
  BY <1>6 DEF AtLeast
<1> QED
  BY <1>3, <1>4, <1>5, <1>6

\* An account that reached the limit stays locked whatever logins follow and whatever
\* administrators do to it or to its role, short of the settings and of deleting it.
THEOREM LockStays == SerialSpec => LockLasts
<1>1. SerialInv /\ [SerialNext]_vars =>
         [Locked /\ ~Locked' => mode' # mode \/ limit' # limit \/ user' = NoUser]_vars
  <2> SUFFICES ASSUME SerialInv, [SerialNext]_vars, Locked,
                      mode' = mode, limit' = limit, user' # NoUser
               PROVE  Locked'
    OBVIOUS
  <2> USE DEF Locked
  <2>1. /\ user \in User /\ user.passwordAttempt \in Nat /\ limit \in Setting
        /\ user \in User \cup {NoUser}
    BY UserRecord DEF SerialInv, TypeOK
  <2>2. \/ user'.passwordAttempt = user.passwordAttempt
        \/ user'.passwordAttempt = user.passwordAttempt + 1
    <3>1. ASSUME NEW r \in Requests, IncWrite(r)
          PROVE  user'.passwordAttempt = user.passwordAttempt + 1
      <4>1. pc[r] = "incWrite" /\ seen[r].passwordAttempt \in Nat
        BY <3>1 DEF IncWrite, SerialInv, TypeOK, User
      <4>2. seen[r].passwordAttempt + 1 = user.passwordAttempt + 1
        BY <4>1 DEF SerialInv, Increasing
      <4> QED
        BY <2>1, <3>1, <4>1, <4>2, UserRecord DEF IncWrite
    <3>2. ASSUME NEW op \in AdminOps, AdminWrite(op)
          PROVE  user'.passwordAttempt = user.passwordAttempt
      BY <2>1, <3>2, UserRecord DEF AdminWrite, WriteUser
    <3>3. \/ \E r \in Requests : IncWrite(r)
          \/ \E op \in AdminOps : AdminWrite(op)
          \/ user' = user
      BY DEF SerialNext, Next, vars, Login, FindUser, PopulateRole, ReadMode, ReadLimit, Validate,
             IncRead, AdminGuards, UpdateMode, UpdateLimit
    <3> QED
      BY <3>1, <3>2, <3>3
  <2>3. AtLeast(user'.passwordAttempt, GetValue(limit))
    BY <2>1, <2>2, AtLeastGrows
  <2>4. Truthy(GetValue(mode'))
    OBVIOUS
  <2>5. AtLeast(user'.passwordAttempt, GetValue(limit'))
    BY <2>3
  <2> QED
    BY <2>4, <2>5
<1> QED
  BY <1>1, SerialInit, SerialStep, PTL DEF SerialSpec, SerialNext, LockLasts
-----------------------------------------------------------------------------
\* The one step that a comparison of passwords takes in the abstract lock.
LEMMA ComparisonStep ==
    ASSUME SerialInv, AlwaysLimited, NEW r \in Requests, Validate(r)
    PROVE  Lockout!Next \/ UNCHANGED <<Mismatched, Granted>>
<1>1. /\ pc[r] = "validate" /\ pc' = [pc EXCEPT ![r] = pc'[r]]
      /\ pc'[r] \in {"incRead", "inactive", "roleInactive", "token"}
  BY DEF Validate, Verdict, Goto, SerialInv, TypeOK
<1>2. r \notin Mismatched \cup Granted
  BY <1>1 DEF Mismatched, Granted
<1>3. \E n \in {NumberOf[body.value] : body \in LimitBodies \cup {SeedLimit}} :
         Cardinality(Mismatched) < n
  BY <1>1 DEF SerialInv, UnderLimit
<1>4. Lockout!Open(r)
  BY <1>2, <1>3 DEF Lockout!Open, Lockout!Cardinality, Cardinality
<1>5. CASE pc'[r] = "incRead"
  <2>1. Mismatched' = Mismatched \cup {r} /\ Granted' = Granted
    BY <1>1, <1>5 DEF Mismatched, Granted, SerialInv, TypeOK
  <2>2. Lockout!Mismatch(r)
    BY <1>4, <2>1 DEF Lockout!Mismatch
  <2> QED
    BY <2>2 DEF Lockout!Next
<1>6. CASE pc'[r] = "token"
  <2>1. Mismatched' = Mismatched /\ Granted' = Granted \cup {r}
    BY <1>1, <1>6 DEF Mismatched, Granted, SerialInv, TypeOK
  <2>2. Lockout!Grant(r)
    BY <1>4, <2>1 DEF Lockout!Grant
  <2> QED
    BY <2>2 DEF Lockout!Next
<1>7. CASE pc'[r] \in {"inactive", "roleInactive"}
  BY <1>1, <1>7 DEF Mismatched, Granted, SerialInv, TypeOK
<1> QED
  BY <1>1, <1>5, <1>6, <1>7

\* While administrators keep the lock on and its limit a number, logins taken one after
\* the other implement PasswordLockout.
THEOREM LockoutImplemented ==
    ASSUME AlwaysLimited
    PROVE  SerialSpec => ImplementsLockout
<1>1. Init => Lockout!Init
  BY DEF Init, Lockout!Init, Mismatched, Granted
<1>2. SerialInv /\ [SerialNext]_vars => [Lockout!Next]_<<Mismatched, Granted>>
  <2> SUFFICES ASSUME SerialInv, [SerialNext]_vars
               PROVE  [Lockout!Next]_<<Mismatched, Granted>>
    OBVIOUS
  <2>1. ASSUME NEW r \in Requests, Validate(r)
        PROVE  Lockout!Next \/ UNCHANGED <<Mismatched, Granted>>
    BY <2>1, ComparisonStep
  <2>2. ASSUME NEW r \in Requests, Login(r), ~Validate(r)
        PROVE  UNCHANGED <<Mismatched, Granted>>
    BY <2>2 DEF SerialInv, TypeOK, Login, FindUser, PopulateRole, ReadMode, ReadLimit, IncRead,
                IncWrite, Goto, Mismatched, Granted
  <2>3. ASSUME pc' = pc PROVE UNCHANGED <<Mismatched, Granted>>
    BY <2>3 DEF Mismatched, Granted
  <2> QED
    BY <2>1, <2>2, <2>3 DEF SerialNext, Next, vars, AdminGuards, AdminWrite, UpdateMode, UpdateLimit
<1> QED
  BY <1>1, <1>2, SerialInit, SerialStep, PTL
     DEF SerialSpec, SerialNext, ImplementsLockout, Lockout!Spec
=============================================================================
