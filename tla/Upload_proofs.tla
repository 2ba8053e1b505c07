----------------------------- MODULE Upload_proofs -----------------------------
(***************************************************************************)
(* Theorems about the answers, the photos, the maintenance setting and the *)
(* types of Gateway, for any clients, slots and files, and however many    *)
(* uploads, faults, timeouts and updates there are.                        *)
(***************************************************************************)
EXTENDS Gateway_proofs, FiniteSetTheorems, WellFoundedInduction

\* Everybody who stores a setting goes through checkValue, with the type that is written.
THEOREM SettingCorrect == Spec => []SettingFits
<1>1. Init => SettingFits
  <2> SUFFICES ASSUME Init, setting # None PROVE CheckValue(setting.value, setting.type)
    BY DEF SettingFits
  <2>1. PICK plan \in Plans : MaintenanceInit(plan.setting)
    BY DEF Init
  <2>2. /\ plan.setting # None /\ CheckValue(plan.setting.value, plan.setting.type)
        /\ setting = Stored(1, plan.setting.type, plan.setting.value)
    BY <2>1, GatewayAssumption DEF MaintenanceInit
  <2> QED
    BY <2>2 DEF Stored
<1>2. SettingFits /\ [Next]_vars => SettingFits'
  <2> SUFFICES ASSUME SettingFits, [Next]_vars PROVE SettingFits'
    OBVIOUS
  <2>1. ASSUME NEW s, UpdateSetting(s) PROVE SettingFits'
    <3> PICK d : d = req[s].data
      OBVIOUS
    <3>1. \/ setting' = setting
          \/ CheckValue(d.value, d.type) /\ setting' = Stored(d.id, d.type, d.value)
      BY <2>1 DEF UpdateSetting
    <3>2. Stored(d.id, d.type, d.value).type = d.type /\ Stored(d.id, d.type, d.value).value = d.value
      BY DEF Stored
    <3>3. CASE setting' = setting
      BY <3>3 DEF SettingFits
    <3>4. CASE CheckValue(d.value, d.type) /\ setting' = Stored(d.id, d.type, d.value)
      <4>1. CheckValue(setting.value, setting.type)'
        BY <3>2, <3>4 DEF CheckValue
      <4> QED
        BY <4>1 DEF SettingFits
    <3> QED
      BY <3>1, <3>3, <3>4
  <2>2. CASE Seed
    <3>1. setting'.value = "false" /\ setting'.type = "BOOLEAN"
      BY <2>2 DEF Seed, Stored
    <3> QED
      BY <3>1 DEF SettingFits, CheckValue, BooleanTexts
  <2>3. CASE Remove
    BY <2>3 DEF Remove, SettingFits
  <2>4. CASE setting' = setting
    BY <2>4 DEF SettingFits
  <2>5. ASSUME NEW s, Serve(s) PROVE UpdateSetting(s) \/ setting' = setting
    BY <2>5 DEF Serve, CheckMaintenance, Login, Refresh, GetByName, FindSetting, maintenanceVars
  <2>6. CASE Outside
    BY <2>2, <2>3, <2>4, <2>6 DEF Outside, Meddle, Expiry, maintenanceVars
  <2>7. CASE Keys \/ Administrator \/ Timeout \/ Restart
    BY <2>4, <2>7 DEF Keys, Administrator, Administer, Timeout, Restart, maintenanceVars
  <2>8. CASE UNCHANGED vars
    BY <2>4, <2>8 DEF vars, maintenanceVars
  <2> QED
    BY <2>1, <2>4, <2>5, <2>6, <2>7, <2>8 DEF Next
<1> QED
  BY <1>1, <1>2, PTL DEF Spec
-----------------------------------------------------------------------------
\* An image that the pipes let pass.
Fit(f) == f.mime \in Mimes["image"] /\ f.size <= MaxFileSize["image"]

\* A set of numbers that is not empty has a smallest one.
LEMMA Smallest ==
    ASSUME NEW T \in SUBSET Nat, T # {}
    PROVE  \E x \in T : \A y \in T : x <= y
<1> DEFINE R == {ss \in Nat \X Nat : ss[1] < ss[2]}
<1>1. IsWellFoundedOn(R, Nat)
  BY NatLessThanWellFounded DEF OpToRel
<1>2. ASSUME NEW x \in Nat, NEW y \in Nat, y < x PROVE <<y, x>> \in R
  <2> PICK ss : ss = <<y, x>>
    OBVIOUS
  <2>1. ss \in Nat \X Nat /\ ss[1] < ss[2]
    BY <1>2
  <2>2. ss \in R
    BY <2>1, Zenon
  <2> QED
    BY <2>2
<1>3. PICK x \in T : \A y \in T : ~ (<<y, x>> \in R)
  <2> HIDE DEF R
  <2> QED
    BY <1>1, WFMin
<1>4. ASSUME NEW y \in T PROVE x <= y
  <2> HIDE DEF R
  <2>1. ~ (y < x)
    BY <1>2, <1>3, Zenon
  <2> QED
    BY <2>1
<1> QED
  BY <1>4

\* A request passes its pipes when every one of them lets it pass.
LEMMA FirstOfOK ==
    ASSUME NEW v, DOMAIN v \subseteq Nat, \A n \in DOMAIN v : 1..n \subseteq DOMAIN v
    PROVE  FirstOf(v) = "ok" <=> \A n \in DOMAIN v : v[n] = "ok"
<1> DEFINE First(n) == v[n] # "ok" /\ \A m \in 1..(n - 1) : v[m] = "ok"
           bad == {n \in DOMAIN v : v[n] # "ok"}
<1>1. ASSUME bad # {} PROVE FirstOf(v) # "ok"
  <2>1. PICK x \in bad : \A y \in bad : x <= y
    BY <1>1, Smallest
  <2>2. First(x)
    BY <1>1, <2>1
  <2>3. First(CHOOSE n \in DOMAIN v : First(n))
    BY <2>1, <2>2
  <2>4. FirstOf(v) = v[CHOOSE n \in DOMAIN v : First(n)]
    BY <1>1 DEF FirstOf
  <2> QED
    BY <2>3, <2>4
<1> QED
  BY <1>1 DEF FirstOf

LEMMA ThreeOK ==
    ASSUME NEW a, NEW b, NEW c
    PROVE  FirstOf(<<a, b, c>>) = "ok" <=> a = "ok" /\ b = "ok" /\ c = "ok"
<1> DEFINE v == <<a, b, c>>
<1>1. DOMAIN v = 1..3 /\ v[1] = a /\ v[2] = b /\ v[3] = c
  OBVIOUS
<1> HIDE DEF v
<1>2. FirstOf(v) = "ok" <=> \A n \in 1..3 : v[n] = "ok"
  BY <1>1, FirstOfOK
<1> QED
  BY <1>1, <1>2 DEF v

LEMMA FourOK ==
    ASSUME NEW a, NEW b, NEW c, NEW d
    PROVE  FirstOf(<<a, b, c, d>>) = "ok" <=> a = "ok" /\ b = "ok" /\ c = "ok" /\ d = "ok"
<1> DEFINE v == <<a, b, c, d>>
<1>1. DOMAIN v = 1..4 /\ v[1] = a /\ v[2] = b /\ v[3] = c /\ v[4] = d
  OBVIOUS
<1> HIDE DEF v
<1>2. FirstOf(v) = "ok" <=> \A n \in 1..4 : v[n] = "ok"
  BY <1>1, FirstOfOK
<1> QED
  BY <1>1, <1>2 DEF v

LEMMA FiveOK ==
    ASSUME NEW a, NEW b, NEW c, NEW d, NEW e
    PROVE  FirstOf(<<a, b, c, d, e>>) = "ok" <=>
               a = "ok" /\ b = "ok" /\ c = "ok" /\ d = "ok" /\ e = "ok"
<1> DEFINE v == <<a, b, c, d, e>>
<1>1. DOMAIN v = 1..5 /\ v[1] = a /\ v[2] = b /\ v[3] = c /\ v[4] = d /\ v[5] = e
  OBVIOUS
<1> HIDE DEF v
<1>2. FirstOf(v) = "ok" <=> \A n \in 1..5 : v[n] = "ok"
  BY <1>1, FirstOfOK
<1> QED
  BY <1>1, <1>2 DEF v

\* What each pipe lets pass, taken on its own.
LEMMA RequiredOK ==
    ASSUME NEW v \in Uploadable \cup Pipeable
    PROVE  Required(v) = "ok" <=> v # None /\ v.files # << >>
<1>1. v # None => (v.many /\ v.files = << >>) \/ 1 \in DOMAIN v.files
  BY UploadAssumption
<1>2. DOMAIN << >> = {}
  OBVIOUS
<1> QED
  BY <1>1, <1>2 DEF Required

LEMMA SizeOK ==
    ASSUME NEW v, v # None, NEW kind
    PROVE  Size(kind, None, v) = "ok" <=> \A n \in DOMAIN v.files : v.files[n].size <= MaxFileSize[kind]
  BY DEF Size, Given, All, SizeLimit

LEMMA TypeOK ==
    ASSUME NEW v, v # None, NEW kind
    PROVE  Type(kind, v) = "ok" <=> \A n \in DOMAIN v.files : v.files[n].mime \in Mimes[kind]
  BY DEF Type, Given, All

LEMMA CountOK ==
    ASSUME NEW v, v # None, NEW kind, Len(v.files) \in Int, MaxFiles[kind] \in Int
    PROVE  Count(kind, 0, v) = "ok" <=> (v.many => Len(v.files) <= MaxFiles[kind])
<1>1. CountLimit(kind, 0) = MaxFiles[kind]
  BY DEF CountLimit
<1>2. Len(v.files) > MaxFiles[kind] <=> ~(Len(v.files) <= MaxFiles[kind])
  OBVIOUS
<1> QED
  BY <1>1, <1>2 DEF Count, Given

LEMMA ExtractOK ==
    ASSUME NEW v, v # None
    PROVE  Extract(v) = "ok" <=>
               \A n \in DOMAIN v.files : v.files[n].mime \in Mimes["excel"] /\ v.files[n].readable
  BY DEF Extract, OneByOne, All

LEMMA ValidationOK ==
    ASSUME NEW v, v # None
    PROVE  Validation(v, "rows") = "ok" <=>
               \A n \in DOMAIN v.files :
                   v.files[n].mime \in Mimes["excel"] /\ Failing(v.files[n]) = {}
  BY FilesAssumption DEF Validation, OneByOne, All

LEMMA PipesOK ==
    ASSUME NEW v \in Uploadable, UploadPipes(v) = "ok"
    PROVE  1 \in DOMAIN v.files /\ Fit(v.files[1])
<1>1. Required(v) = "ok" /\ Size("image", None, v) = "ok" /\ Type("image", v) = "ok"
  BY ThreeOK DEF UploadPipes
<1>2. v # None /\ ~(v.many /\ v.files = << >>)
  BY <1>1 DEF Required
<1>3. 1 \in DOMAIN v.files
  BY <1>2, UploadAssumption
<1>4. \A n \in DOMAIN v.files : v.files[n].size <= MaxFileSize["image"]
  BY <1>1, <1>2 DEF Size, Given, All, SizeLimit
<1>5. \A n \in DOMAIN v.files : v.files[n].mime \in Mimes["image"]
  BY <1>1, <1>2 DEF Type, Given, All
<1> QED
  BY <1>3, <1>4, <1>5 DEF Fit

\* A handler that does not upload goes on or answers, or one that uploads before its first
\* write.
Elsewhere(s) ==
    /\ ~At(s, "upload", "record")
    /\ \/ \E status : Reply(s, status)
       \/ \E pc, d : /\ GoOn(s, pc, d)
                     /\ \/ req[s].route # "upload"
                        \/ d = req[s].data /\ pc \notin {"handler", "record"}

\* A step that photos do not notice; it may be a fault of another handler.
Unseen == faults' \in {faults, faults + 1} /\ UNCHANGED uploadVars

LEMMA ServeUploads ==
    ASSUME NEW s \in Slots, Serve(s)
    PROVE  \/ Unseen /\ Elsewhere(s)
           \/ Crash /\ UNCHANGED uploadVars
           \/ Pipe(s) \/ Put(s) \/ Record(s)
<1>1. CASE Enter(s) /\ UNCHANGED uploadVars
  <2> DEFINE pc == IF Excluded(req[s].route) THEN "guards" ELSE "maintenance"
  <2>1. pc \notin {"handler", "record"}
    OBVIOUS
  <2>2. (\E status : Reply(s, status)) \/ GoOn(s, pc, req[s].data)
    BY <1>1 DEF Enter, Throw
  <2>3. Unseen /\ ~At(s, "upload", "record")
    BY <1>1 DEF Enter, At, Unseen
  <2> HIDE DEF pc
  <2> QED
    BY <2>1, <2>2, <2>3 DEF Elsewhere
<1>2. CASE GiveUp(s) /\ UNCHANGED uploadVars
  BY <1>2 DEF GiveUp, Unseen, Elsewhere, At
<1>3. CASE FindKey(s) /\ UNCHANGED uploadVars
  BY <1>3 DEF FindKey, Refuse, Throw, Fault, Unseen, Elsewhere, At
<1>4. CASE Verify(s) /\ UNCHANGED uploadVars
  BY <1>4 DEF Verify, Refuse, Throw, Unseen, Elsewhere, At
<1>5. CASE Greet(s) /\ UNCHANGED uploadVars
  BY <1>5 DEF Greet, Throw, Unseen, Elsewhere, At
<1>6. CASE CheckMaintenance(s) /\ UNCHANGED uploadVars
  BY <1>6 DEF CheckMaintenance, Throw, Unseen, Elsewhere, At
<1>7. CASE (Login(s) \/ Refresh(s) \/ GetByName(s) \/ UpdateSetting(s)) /\ UNCHANGED uploadVars
  BY <1>7 DEF Login, Refresh, GetByName, UpdateSetting, Throw, Unseen, Elsewhere, At
<1>8. CASE FindSetting(s) /\ UNCHANGED uploadVars
  BY <1>8 DEF FindSetting, Throw, Unseen, Elsewhere, At
<1>9. CASE FindUser(s)
  BY <1>9 DEF FindUser, Throw, Unseen, Elsewhere, At
<1> QED
  BY <1>1, <1>2, <1>3, <1>4, <1>5, <1>6, <1>7, <1>8, <1>9 DEF Serve

LEMMA UploadSteps ==
    ASSUME [Next]_vars
    PROVE  \/ /\ Unseen
              /\ \/ req' = req
                 \/ \E k : Become(k)
                 \/ \E s \in Slots : Elsewhere(s)
                 \/ \E c, route, agent, d : route # "upload" /\ Send(c, route, agent, d)
                 \/ \E s \in Slots : Expire(s)
           \/ Crash /\ UNCHANGED uploadVars
           \/ \E c \in Uploaders : SendUpload(c) \/ DeleteUser(c)
           \/ \E s \in Slots : Pipe(s) \/ Put(s) \/ Record(s)
<1>1. CASE UNCHANGED vars
  BY <1>1 DEF vars, requestVars, Unseen
<1>2. CASE Keys
  <2>1. (\E k : Become(k)) \/ UNCHANGED requestVars
    BY <1>2 DEF Keys, Create, ResetRead, ResetWrite, HandOut, CreateRaw, Switch
  <2>2. UNCHANGED uploadVars
    BY <1>2 DEF Keys
  <2> QED
    BY <2>1, <2>2 DEF Become, requestVars, Unseen
<1>3. CASE Outside
  <2>1. ASSUME NEW c, Hello(c), UNCHANGED uploadVars
        PROVE  Unseen /\ \E d, route, agent, e : route # "upload" /\ Send(d, route, agent, e)
    <3>1. PICK agent, e : Send(c, "hello", agent, e)
      BY <2>1 DEF Hello
    <3>2. Unseen
      BY <2>1, <3>1 DEF Send, Unseen
    <3> QED
      BY <3>1, <3>2
  <2>2. ASSUME Meddle, UNCHANGED uploadVars
        PROVE  Unseen /\ \E c, route, agent, d : route # "upload" /\ Send(c, route, agent, d)
    <3>1. PICK e : Send(Other, "updateSetting", "known", e)
      BY <2>2 DEF Meddle
    <3>2. Unseen
      BY <2>2, <3>1 DEF Send, Unseen
    <3> QED
      BY <3>1, <3>2
  <2>3. CASE (Expiry \/ Remove \/ Seed) /\ UNCHANGED uploadVars
    BY <2>3 DEF Expiry, Remove, Seed, requestVars, Unseen
  <2> QED
    BY <1>3, <2>1, <2>2, <2>3 DEF Outside
<1>4. CASE Administrator
  <2>1. NextRoute # "upload"
    BY DEF NextRoute
  <2>2. PICK e : Send(Admin, NextRoute, "known", e)
    BY <1>4 DEF Administrator, Administer
  <2>3. Unseen
    BY <1>4, <2>2 DEF Administrator, Send, Unseen
  <2> QED
    BY <2>1, <2>2, <2>3
<1>5. CASE \E s \in Slots : Serve(s)
  BY <1>5, ServeUploads
<1>6. CASE Timeout
  BY <1>6 DEF Timeout, Expire, Unseen
<1>7. CASE Restart
  BY <1>7 DEF Restart
<1> QED
  BY <1>1, <1>2, <1>3, <1>4, <1>5, <1>6, <1>7 DEF Next
-----------------------------------------------------------------------------
\* What a handler that uploads has checked and stored.
UploadingOK(pc, d) ==
    /\ d.value \in Uploadable /\ d.user \in Uploaders
    /\ pc \in {"handler", "record"} => 1 \in DOMAIN d.value.files /\ Fit(d.value.files[1])
    /\ pc = "record" => Object(d) \in bucket

\* The photo of a user is an object of the bucket, that of a handler that records it.
InBucket(u, name) ==
    \E o \in bucket : o.user = u /\ o.name = name /\ Fit(o.file)

PhotoInv ==
    /\ SlotsOK /\ faults \in Nat
    /\ \A s \in Slots : req[s].route = "upload" => UploadingOK(req[s].pc, req[s].data)
    /\ photo = [u \in DOMAIN photo |-> photo[u]] /\ DOMAIN photo \subseteq Uploaders
    /\ \A u \in DOMAIN photo : photo[u] # None => InBucket(u, photo[u])

\* Objects stay in the bucket.
LEMMA StaysOK ==
    ASSUME bucket \subseteq bucket', NEW pc, NEW d, UploadingOK(pc, d)
    PROVE  UploadingOK(pc, d)'
  BY DEF UploadingOK, Object

LEMMA InBucketStays ==
    ASSUME bucket \subseteq bucket', NEW u, NEW name, InBucket(u, name)
    PROVE  InBucket(u, name)'
  BY DEF InBucket

LEMMA PhotoInit == Init => PhotoInv
<1> SUFFICES ASSUME Init PROVE PhotoInv
  OBVIOUS
<1>1. req = [s \in Slots |-> Free] /\ faults = 0
  BY DEF Init, RequestInit
<1>2. Free = Slot(None, None, "free", None, None)
  BY DEF Free, Slot
<1>3. SlotsOK /\ \A s \in Slots : req[s].route # "upload"
  BY <1>1, <1>2, SlotFields, RequestAssumption DEF SlotsOK, Routes
<1>4. photo = [u \in Uploaders |-> None]
  BY DEF Init, UploadInit
<1> QED
  BY <1>1, <1>3, <1>4 DEF PhotoInv

\* What a slot works on, as far as uploads are concerned, is what it worked on before.
Follows(p, q) ==
    p.route = "upload" =>
        q.route = "upload" /\ p.data = q.data /\ (p.pc = q.pc \/ p.pc \notin {"handler", "record"})

LEMMA FreeFollows ==
    ASSUME NEW q
    PROVE  Follows(Free, q)
  BY RequestAssumption DEF Follows, Free, Routes

LEMMA UnseenSlots ==
    ASSUME SlotsOK,
           \/ req' = req
           \/ \E k : Become(k)
           \/ \E s \in Slots : Elsewhere(s)
           \/ \E c, route, agent, d : route # "upload" /\ Send(c, route, agent, d)
           \/ \E s \in Slots : Expire(s)
           \/ Die
    PROVE  SlotsOK' /\ \A s \in Slots : Follows(req'[s], req[s])
<1>0. \A q : Follows(q, q)
  BY DEF Follows
<1>1. CASE req' = req
  BY <1>0, <1>1 DEF SlotsOK
<1>2. ASSUME NEW k, Become(k) PROVE SlotsOK' /\ \A s \in Slots : Follows(req'[s], req[s])
  <2>1. ASSUME NEW s \in Slots PROVE Follows(req'[s], req[s])
    <3>1. req[s].route = "hello" \/ req'[s] = req[s]
      BY <1>2, BecomeSlot
    <3>2. req'[s].route = req[s].route
      BY <1>2, BecomeSlot
    <3> QED
      BY <3>1, <3>2 DEF Follows
  <2> QED
    BY <1>2, <2>1, BecomeSlots
<1>3. ASSUME NEW t \in Slots, NEW status, Reply(t, status)
      PROVE  SlotsOK' /\ \A s \in Slots : Follows(req'[s], req[s])
  BY <1>0, <1>3, ReplySlot, FreeFollows
<1>4. ASSUME NEW t \in Slots, NEW pc, NEW d, GoOn(t, pc, d),
             \/ req[t].route # "upload"
             \/ d = req[t].data /\ pc \notin {"handler", "record"}
      PROVE  SlotsOK' /\ \A s \in Slots : Follows(req'[s], req[s])
  <2>1. /\ SlotsOK' /\ \A s \in Slots \ {t} : req'[s] = req[s]
        /\ req'[t] = Slot(req[t].client, req[t].route, pc, req[t].agent, d)
    BY <1>4, GoOnSlot
  <2>2. Follows(req'[t], req[t])
    BY <1>4, <2>1, SlotFields DEF Follows
  <2> QED
    BY <1>0, <2>1, <2>2
<1>5. ASSUME NEW c, NEW route, NEW agent, NEW d, route # "upload", Send(c, route, agent, d)
      PROVE  SlotsOK' /\ \A s \in Slots : Follows(req'[s], req[s])
  <2>1. SlotsOK' /\ \A s \in Slots : req'[s] = req[s] \/ req'[s] = Slot(c, route, "sent", agent, d)
    BY <1>5, SendSlot
  <2>2. \A q : Follows(Slot(c, route, "sent", agent, d), q)
    BY <1>5, SlotFields DEF Follows
  <2> QED
    BY <1>0, <2>1, <2>2
<1>6. ASSUME NEW t \in Slots, Expire(t)
      PROVE  SlotsOK' /\ \A s \in Slots : Follows(req'[s], req[s])
  <2>1. /\ SlotsOK' /\ \A s \in Slots \ {t} : req'[s] = req[s]
        /\ req'[t] = Slot(None, req[t].route, req[t].pc, req[t].agent, req[t].data)
    BY <1>6, ExpireSlot
  <2>2. Follows(req'[t], req[t])
    BY <2>1, SlotFields DEF Follows
  <2> QED
    BY <1>0, <2>1, <2>2
<1>7. CASE Die
  BY <1>7, DieSlot, FreeFollows
<1> QED
  BY <1>1, <1>2, <1>3, <1>4, <1>5, <1>6, <1>7 DEF Elsewhere

LEMMA FollowsOK ==
    ASSUME NEW p, NEW q, Follows(p, q), q.route = "upload" => UploadingOK(q.pc, q.data),
           bucket \subseteq bucket'
    PROVE  p.route = "upload" => UploadingOK(p.pc, p.data)'
  BY DEF Follows, UploadingOK, Object

\* The step of a single handler that uploads.
LEMMA OneUploads ==
    ASSUME PhotoInv, NEW t \in Slots, SlotsOK', \A s \in Slots \ {t} : req'[s] = req[s],
           NEW q, req'[t] = q, q.route = "upload" => UploadingOK(q.pc, q.data)',
           bucket \subseteq bucket'
    PROVE  \A s \in Slots : (req[s].route = "upload" => UploadingOK(req[s].pc, req[s].data))'
<1> SUFFICES ASSUME NEW s \in Slots
             PROVE  (req[s].route = "upload" => UploadingOK(req[s].pc, req[s].data))'
  OBVIOUS
<1> PICK p : p = req[s]
  OBVIOUS
<1>1. p.route = "upload" => UploadingOK(p.pc, p.data)'
  BY StaysOK DEF PhotoInv
<1>2. req'[s] = p \/ req'[s] = q
  OBVIOUS
<1> QED
  BY <1>1, <1>2 DEF UploadingOK, Object

LEMMA PhotoStep == PhotoInv /\ [Next]_vars => PhotoInv'
<1> SUFFICES ASSUME PhotoInv, [Next]_vars PROVE PhotoInv'
  OBVIOUS
<1>1. ASSUME UNCHANGED uploadVars, faults' \in Nat,
             SlotsOK' /\ \A s \in Slots : Follows(req'[s], req[s])
      PROVE  PhotoInv'
  <2>1. ASSUME NEW s \in Slots
        PROVE  (req[s].route = "upload" => UploadingOK(req[s].pc, req[s].data))'
    <3> PICK p, q : p = req'[s] /\ q = req[s]
      OBVIOUS
    <3>1. p.route = "upload" => UploadingOK(p.pc, p.data)'
      BY <1>1, FollowsOK DEF PhotoInv, uploadVars
    <3> QED
      BY <3>1 DEF UploadingOK, Object
  <2> QED
    BY <1>1, <2>1 DEF PhotoInv, uploadVars, InBucket
<1>2. ASSUME Unseen,
             \/ req' = req
             \/ \E k : Become(k)
             \/ \E s \in Slots : Elsewhere(s)
             \/ \E c, route, agent, d : route # "upload" /\ Send(c, route, agent, d)
             \/ \E s \in Slots : Expire(s)
      PROVE  PhotoInv'
  <2>1. UNCHANGED uploadVars /\ faults' \in Nat
    BY <1>2 DEF Unseen, PhotoInv
  <2>2. SlotsOK' /\ \A s \in Slots : Follows(req'[s], req[s])
    BY <1>2, UnseenSlots DEF PhotoInv
  <2> QED
    BY <1>1, <2>1, <2>2
<1>3. ASSUME Crash, UNCHANGED uploadVars PROVE PhotoInv'
  <2>1. faults' \in Nat
    BY <1>3 DEF Crash, Fault, PhotoInv
  <2>2. SlotsOK' /\ \A s \in Slots : Follows(req'[s], req[s])
    BY <1>3, UnseenSlots DEF Crash, PhotoInv
  <2> QED
    BY <1>1, <1>3, <2>1, <2>2
<1>4. ASSUME NEW c \in Uploaders, SendUpload(c) PROVE PhotoInv'
  <2>1. PICK v \in Uploadable :
           Send(c, "upload", "known", [user |-> c, value |-> v, name |-> uploads'])
    BY <1>4 DEF SendUpload
  <2> PICK d : d = [user |-> c, value |-> v, name |-> uploads']
    OBVIOUS
  <2> PICK q : q = Slot(c, "upload", "sent", "known", d)
    OBVIOUS
  <2>2. SlotsOK' /\ \A s \in Slots : req'[s] = req[s] \/ req'[s] = q
    BY <2>1, SendSlot DEF PhotoInv
  <2>3. UploadingOK(q.pc, q.data)
    BY <2>1, SlotFields DEF UploadingOK
  <2>4. ASSUME NEW s \in Slots
        PROVE  (req[s].route = "upload" => UploadingOK(req[s].pc, req[s].data))'
    <3> PICK p : p = req[s]
      OBVIOUS
    <3>1. bucket \subseteq bucket'
      BY <1>4 DEF SendUpload
    <3>2. (p.route = "upload" => UploadingOK(p.pc, p.data)') /\ UploadingOK(q.pc, q.data)'
      BY <2>3, <3>1, StaysOK DEF PhotoInv
    <3>3. req'[s] = p \/ req'[s] = q
      BY <2>2
    <3> QED
      BY <3>2, <3>3 DEF UploadingOK, Object
  <2>5. UNCHANGED <<photo, bucket, faults>>
    BY <1>4, <2>1 DEF SendUpload, Send
  <2> QED
    BY <2>2, <2>4, <2>5 DEF PhotoInv, InBucket
<1>5. ASSUME NEW u \in Uploaders, DeleteUser(u) PROVE PhotoInv'
  <2>1. /\ photo' = [w \in DOMAIN photo \ {u} |-> photo[w]]
        /\ bucket' = bucket /\ req' = req /\ faults' = faults
    BY <1>5 DEF DeleteUser, requestVars
  <2> QED
    BY <2>1 DEF PhotoInv, SlotsOK, UploadingOK, InBucket
<1>6. ASSUME NEW s \in Slots, Pipe(s) PROVE PhotoInv'
  <2> PICK d : d = req[s].data
    OBVIOUS
  <2>1. /\ UNCHANGED <<faults, photo, bucket>> /\ UploadingOK(req[s].pc, d)
        /\ req[s].route = "upload"
    BY <1>6 DEF Pipe, At, PhotoInv, uploadVars
  <2>2. CASE UploadPipes(d.value) = "ok" /\ GoOn(s, "handler", d)
    <3> PICK q : q = Slot(req[s].client, req[s].route, "handler", req[s].agent, d)
      OBVIOUS
    <3>1. SlotsOK' /\ (\A t \in Slots \ {s} : req'[t] = req[t]) /\ req'[s] = q
      BY <2>2, GoOnSlot DEF PhotoInv
    <3>2. UploadingOK("handler", d)
      BY <2>1, <2>2, PipesOK DEF UploadingOK
    <3>3. UploadingOK(q.pc, q.data)'
      BY <2>1, <3>2, SlotFields, StaysOK
    <3>4. \A t \in Slots : (req[t].route = "upload" => UploadingOK(req[t].pc, req[t].data))'
      BY <2>1, <3>1, <3>3, OneUploads
    <3> QED
      BY <2>1, <3>1, <3>4 DEF PhotoInv, InBucket
  <2>3. CASE \E status : Reply(s, status)
    <3>1. ~At(s, "upload", "record")
      BY <1>6 DEF Pipe, At
    <3>2. Elsewhere(s) /\ UNCHANGED uploadVars
      BY <1>6, <2>3, <3>1 DEF Elsewhere, Pipe
    <3> QED
      BY <1>2, <2>1, <3>2 DEF Unseen
  <2> QED
    BY <1>6, <2>2, <2>3 DEF Pipe, Throw
<1>7. ASSUME NEW s \in Slots, Put(s) PROVE PhotoInv'
  <2> PICK d : d = req[s].data
    OBVIOUS
  <2>1. UNCHANGED photo /\ UploadingOK("handler", d) /\ req[s].route = "upload"
    BY <1>7 DEF Put, At, PhotoInv
  <2>2. CASE bucket' = bucket \cup {Object(d)} /\ GoOn(s, "record", d) /\ UNCHANGED faults
    <3> PICK q : q = Slot(req[s].client, req[s].route, "record", req[s].agent, d)
      OBVIOUS
    <3>1. SlotsOK' /\ (\A t \in Slots \ {s} : req'[t] = req[t]) /\ req'[s] = q
      BY <2>2, GoOnSlot DEF PhotoInv
    <3>2. UploadingOK("record", d)'
      BY <2>1, <2>2 DEF UploadingOK, Object
    <3>3. UploadingOK(q.pc, q.data)'
      BY <3>2, SlotFields
    <3>4. \A t \in Slots : (req[t].route = "upload" => UploadingOK(req[t].pc, req[t].data))'
      BY <2>2, <3>1, <3>3, OneUploads
    <3> QED
      BY <2>1, <2>2, <3>1, <3>4 DEF PhotoInv, InBucket
  <2>3. CASE Fault /\ UNCHANGED <<photo, bucket>> /\ \E status : Reply(s, status)
    <3>1. faults' \in Nat
      BY <2>3 DEF Fault, PhotoInv
    <3>2. SlotsOK' /\ (\A t \in Slots \ {s} : req'[t] = req[t]) /\ req'[s] = Free
      BY <2>3, ReplySlot DEF PhotoInv
    <3> PICK q : q = Free
      OBVIOUS
    <3>3. q.route # "upload"
      BY RequestAssumption DEF Free, Routes
    <3>4. \A t \in Slots : (req[t].route = "upload" => UploadingOK(req[t].pc, req[t].data))'
      BY <2>3, <3>2, <3>3, OneUploads
    <3> QED
      BY <2>3, <3>1, <3>2, <3>4 DEF PhotoInv, InBucket
  <2> QED
    BY <1>7, <2>1, <2>2, <2>3 DEF Put, Throw
<1>8. ASSUME NEW s \in Slots, Record(s) PROVE PhotoInv'
  <2> PICK d : d = req[s].data
    OBVIOUS
  <2>1. bucket' = bucket /\ UploadingOK("record", d)
    BY <1>8 DEF Record, At, PhotoInv
  <2>2. /\ faults' \in Nat
        /\ \/ photo' = photo
           \/ d.user \in DOMAIN photo /\ photo' = [photo EXCEPT ![d.user] = d.name]
        /\ \E status : Reply(s, status)
    BY <1>8 DEF Record, Fault, Throw, PhotoInv
  <2>3. SlotsOK' /\ (\A t \in Slots \ {s} : req'[t] = req[t]) /\ req'[s] = Free
    BY <2>2, ReplySlot DEF PhotoInv
  <2> PICK q : q = Free
    OBVIOUS
  <2>4. q.route # "upload"
    BY RequestAssumption DEF Free, Routes
  <2>5. \A t \in Slots : (req[t].route = "upload" => UploadingOK(req[t].pc, req[t].data))'
    BY <2>1, <2>3, <2>4, OneUploads
  <2>6. InBucket(d.user, d.name)
    BY <2>1 DEF InBucket, UploadingOK, Object
  <2>7. /\ photo' = [u \in DOMAIN photo' |-> photo'[u]] /\ DOMAIN photo' \subseteq Uploaders
        /\ \A u \in DOMAIN photo' :
              photo'[u] = None \/ InBucket(u, photo'[u])
    BY <2>2, <2>6 DEF PhotoInv
  <2> QED
    BY <2>1, <2>2, <2>3, <2>5, <2>7 DEF PhotoInv, InBucket
<1> QED
  BY <1>2, <1>3, <1>4, <1>5, <1>6, <1>7, <1>8, UploadSteps

\* Wherever one of the two writes fails, however many uploads overlap, and whoever is deleted:
\* the photo of a user is in the bucket, and an image the pipes allow.
THEOREM PhotoCorrect == Spec => []PhotoStored
<1>1. PhotoInv => PhotoStored
  BY DEF PhotoInv, PhotoStored, InBucket, Fit
<1> QED
  BY <1>1, PhotoInit, PhotoStep, PTL DEF Spec
-----------------------------------------------------------------------------
\* A request is never put into a slot that is in use.
LEMMA SendFree ==
    ASSUME SlotsOK, NEW c, NEW route, NEW agent, NEW d, Send(c, route, agent, d),
           NEW s \in Slots, req[s].pc # "free"
    PROVE  req'[s] = req[s]
<1> DEFINE m == CHOOSE t \in FreeSlots : \A u \in FreeSlots : t <= u
<1>1. FreeSlots \in SUBSET Nat /\ FreeSlots # {}
  BY RequestAssumption DEF Send, FreeSlots
<1>2. \E t \in FreeSlots : \A u \in FreeSlots : t <= u
  BY <1>1, Smallest
<1>3. m \in FreeSlots
  BY <1>2
<1>4. m # s
  BY <1>3 DEF FreeSlots
<1>5. \E q : req' = [req EXCEPT ![m] = q]
  BY DEF Send
<1> HIDE DEF m
<1> QED
  BY <1>4, <1>5 DEF SlotsOK

\* A handler that is about to record its photo goes on to do so.
Keeps(p, q) ==
    q.route = "upload" /\ q.pc = "record" =>
        p.route = "upload" /\ p.pc = "record" /\ p.data = q.data

LEMMA UnseenKeeps ==
    ASSUME SlotsOK, NEW s \in Slots,
           \/ req' = req
           \/ \E k : Become(k)
           \/ \E t \in Slots : Elsewhere(t)
           \/ \E c, route, agent, d : Send(c, route, agent, d)
           \/ \E t \in Slots : Expire(t)
    PROVE  Keeps(req'[s], req[s])
<1>1. CASE req' = req
  BY <1>1 DEF Keeps
<1>2. ASSUME NEW k, Become(k) PROVE Keeps(req'[s], req[s])
  <2>1. req[s].route = "hello" \/ req'[s] = req[s]
    BY <1>2, BecomeSlot
  <2> QED
    BY <2>1 DEF Keeps
<1>3. ASSUME NEW t \in Slots, Elsewhere(t) PROVE Keeps(req'[s], req[s])
  <2>1. \A u \in Slots \ {t} : req'[u] = req[u]
    BY <1>3, ReplySlot, GoOnSlot DEF Elsewhere
  <2> QED
    BY <1>3, <2>1 DEF Elsewhere, Keeps, At
<1>4. ASSUME NEW c, NEW route, NEW agent, NEW d, Send(c, route, agent, d)
      PROVE  Keeps(req'[s], req[s])
  BY <1>4, SendFree DEF Keeps
<1>5. ASSUME NEW t \in Slots, Expire(t) PROVE Keeps(req'[s], req[s])
  <2>1. /\ \A u \in Slots \ {t} : req'[u] = req[u]
        /\ req'[t] = Slot(None, req[t].route, req[t].pc, req[t].agent, req[t].data)
    BY <1>5, ExpireSlot
  <2> QED
    BY <2>1, SlotFields DEF Keeps
<1> QED
  BY <1>1, <1>2, <1>3, <1>4, <1>5

\* Somebody knows of an object of that name.
Known(name) ==
    \/ name \in recorded
    \/ \E s \in Slots :
          req[s].route = "upload" /\ req[s].pc = "record" /\ req[s].data.name = name

LEMMA KnownStays ==
    ASSUME recorded \subseteq recorded', \A s \in Slots : Keeps(req'[s], req[s]), NEW name, Known(name)
    PROVE  Known(name)'
  BY DEF Known, Keeps

OrphanInv == faults = 0 /\ DOMAIN photo = Uploaders => \A o \in bucket : Known(o.name)

LEMMA OrphanStep == PhotoInv /\ OrphanInv /\ [Next]_vars => OrphanInv'
<1> SUFFICES ASSUME PhotoInv, OrphanInv, [Next]_vars, faults' = 0, DOMAIN photo' = Uploaders
             PROVE  \A o \in bucket' : Known(o.name)'
  BY DEF OrphanInv
<1>1. ASSUME UNCHANGED <<faults, bucket, recorded>>, DOMAIN photo = Uploaders,
             \A s \in Slots : Keeps(req'[s], req[s])
      PROVE  \A o \in bucket' : Known(o.name)'
  <2>1. \A o \in bucket : Known(o.name)
    BY <1>1 DEF OrphanInv
  <2> QED
    BY <1>1, <2>1, KnownStays
<1>2. CASE /\ Unseen
           /\ \/ req' = req
              \/ \E k : Become(k)
              \/ \E s \in Slots : Elsewhere(s)
              \/ \E c, route, agent, d : route # "upload" /\ Send(c, route, agent, d)
              \/ \E s \in Slots : Expire(s)
  <2>1. \A s \in Slots : Keeps(req'[s], req[s])
    BY <1>2, UnseenKeeps DEF PhotoInv
  <2>2. faults' = faults
    BY <1>2 DEF Unseen, PhotoInv
  <2> QED
    BY <1>1, <1>2, <2>1, <2>2 DEF Unseen, uploadVars
<1>3. CASE Crash
  BY <1>3 DEF Crash, Fault, PhotoInv
<1>4. ASSUME NEW c \in Uploaders, SendUpload(c) PROVE \A o \in bucket' : Known(o.name)'
  <2>1. PICK d : Send(c, "upload", "known", d)
    BY <1>4 DEF SendUpload
  <2>2. \A s \in Slots : Keeps(req'[s], req[s])
    BY <2>1, UnseenKeeps DEF PhotoInv
  <2> QED
    BY <1>1, <1>4, <2>1, <2>2 DEF SendUpload, Send
<1>5. ASSUME NEW u \in Uploaders, DeleteUser(u) PROVE FALSE
  BY <1>5 DEF DeleteUser
<1>6. ASSUME NEW s \in Slots, Pipe(s) PROVE \A o \in bucket' : Known(o.name)'
  <2>1. /\ UNCHANGED <<faults, photo, bucket, recorded>> /\ req[s].pc = "interceptors"
        /\ (\E status : Reply(s, status)) \/ (\E d : GoOn(s, "handler", d))
    BY <1>6 DEF Pipe, At, Throw, uploadVars
  <2>2. \A t \in Slots \ {s} : req'[t] = req[t]
    BY <2>1, ReplySlot, GoOnSlot DEF PhotoInv
  <2>3. \A t \in Slots : Keeps(req'[t], req[t])
    BY <2>1, <2>2 DEF Keeps
  <2> QED
    BY <1>1, <2>1, <2>3
<1>7. ASSUME NEW s \in Slots, Put(s) PROVE \A o \in bucket' : Known(o.name)'
  <2> PICK d : d = req[s].data
    OBVIOUS
  <2>1. /\ bucket' = bucket \cup {Object(d)} /\ GoOn(s, "record", d)
        /\ UNCHANGED <<faults, photo, recorded>> /\ req[s].pc = "handler" /\ req[s].route = "upload"
    BY <1>7 DEF Put, Fault, At, PhotoInv
  <2>2. /\ \A t \in Slots \ {s} : req'[t] = req[t]
        /\ req'[s] = Slot(req[s].client, req[s].route, "record", req[s].agent, d)
    BY <2>1, GoOnSlot DEF PhotoInv
  <2>3. \A t \in Slots : Keeps(req'[t], req[t])
    BY <2>1, <2>2 DEF Keeps
  <2>4. Known(d.name)'
    BY <2>1, <2>2, SlotFields DEF Known
  <2>5. Object(d).name = d.name
    BY DEF Object
  <2>6. \A o \in bucket : Known(o.name)
    BY <2>1 DEF OrphanInv
  <2>7. \A o \in bucket : Known(o.name)'
    BY <2>1, <2>3, <2>6, KnownStays
  <2> QED
    BY <2>1, <2>4, <2>5, <2>7
<1>8. ASSUME NEW s \in Slots, Record(s) PROVE \A o \in bucket' : Known(o.name)'
  <2> PICK d : d = req[s].data
    OBVIOUS
  <2>1. /\ UNCHANGED <<faults, bucket>> /\ DOMAIN photo = Uploaders
        /\ recorded' = IF d.user \in DOMAIN photo THEN recorded \cup {d.name} ELSE recorded
        /\ \E status : Reply(s, status)
        /\ req[s].route = "upload"
    BY <1>8 DEF Record, Fault, At, PhotoInv
  <2>2. d.user \in Uploaders
    BY <2>1 DEF PhotoInv, UploadingOK
  <2>3. recorded' = recorded \cup {d.name}
    BY <2>1, <2>2
  <2>4. \A t \in Slots \ {s} : req'[t] = req[t]
    BY <2>1, ReplySlot DEF PhotoInv
  <2>5. ASSUME NEW name, Known(name) PROVE Known(name)'
    BY <2>3, <2>4, <2>5 DEF Known
  <2>6. \A o \in bucket : Known(o.name)
    BY <2>1 DEF OrphanInv
  <2> QED
    BY <2>1, <2>5, <2>6
<1> QED
  BY <1>2, <1>3, <1>4, <1>5, <1>6, <1>7, <1>8, UploadSteps

\* While nothing fails and nobody is deleted, no object of the bucket is forgotten, however many
\* timeouts and retries there are.
THEOREM OrphansCorrect == Spec => []OrphansExplained
<1>1. Init => OrphanInv
  BY DEF Init, UploadInit, OrphanInv
<1>2. OrphanInv => OrphansExplained
  BY DEF OrphanInv, Known, OrphansExplained, At
<1> QED
  BY <1>1, <1>2, PhotoInit, PhotoStep, OrphanStep, PTL DEF Spec
-----------------------------------------------------------------------------
\* The bounds of Request.
CountsOK == timeouts \in 0..MaxTimeouts /\ faults \in 0..MaxFaults

LEMMA CountsInit == Init => CountsOK
<1>1. Init => timeouts = 0 /\ faults = 0
  BY DEF Init, RequestInit
<1> QED
  BY <1>1, RequestAssumption DEF CountsOK

LEMMA CountsStep == CountsOK /\ [Next]_vars => CountsOK'
<1> SUFFICES ASSUME CountsOK, [Next]_vars PROVE CountsOK'
  OBVIOUS
<1>1. CASE UNCHANGED <<timeouts, faults>>
  BY <1>1 DEF CountsOK
<1>2. CASE Fault /\ timeouts' = timeouts
  BY <1>2, RequestAssumption DEF Fault, CountsOK
<1>3. ASSUME NEW s \in Slots, Expire(s) PROVE CountsOK'
  BY <1>3, RequestAssumption DEF Expire, CountsOK
<1>4. CASE UNCHANGED vars
  BY <1>1, <1>4 DEF vars, requestVars
<1>5. CASE Keys
  BY <1>1, <1>5 DEF Keys, Create, ResetRead, ResetWrite, HandOut, CreateRaw, Switch, Become, requestVars
<1>6. CASE Outside
  BY <1>1, <1>6 DEF Outside, Hello, SendUpload, DeleteUser, Meddle, Expiry, Remove, Seed, Send, requestVars
<1>7. CASE Administrator
  BY <1>1, <1>7 DEF Administrator, Administer, Send
<1>8. ASSUME NEW s \in Slots, Serve(s) PROVE CountsOK'
  <2>1. CASE Put(s) \/ Record(s)
    BY <1>1, <1>2, <2>1 DEF Put, Record
  <2>2. CASE FindKey(s) \/ Verify(s)
    BY <1>1, <1>2, <2>2 DEF FindKey, Verify, Crash, Die
  <2>3. CASE ~(Put(s) \/ Record(s) \/ FindKey(s) \/ Verify(s))
    BY <1>1, <1>8, <2>3 DEF Serve, Enter, GiveUp, Greet, CheckMaintenance, Login, Refresh,
       GetByName, FindSetting, UpdateSetting, FindUser, Pipe
  <2> QED
    BY <2>1, <2>2, <2>3
<1>9. CASE Timeout
  BY <1>3, <1>9 DEF Timeout
<1>10. CASE Restart
  BY <1>2, <1>10 DEF Restart, Crash, Die
<1> QED
  BY <1>4, <1>5, <1>6, <1>7, <1>8, <1>9, <1>10 DEF Next
-----------------------------------------------------------------------------
\* What a request of each kind carries.
Proper(route, d, n) ==
    /\ route = "updateSetting" => d.type \in Types /\ d.value \in Values
    /\ route = "upload" => d.name \in 1..n

\* A slot that goes on, is freed, or takes a new request.
Moves(p, q, n) ==
    \/ /\ p.route = q.route /\ p.client \in {q.client, None}
       /\ p.route # "hello" => p.data = q.data
    \/ p = Free
    \/ p.client \in Clients /\ p.route \in Routes /\ Proper(p.route, p.data, n)

LEMMA ServeMoves ==
    ASSUME SlotsOK, NEW t \in Slots, Serve(t)
    PROVE  SlotsOK' /\ \A s \in Slots : Moves(req'[s], req[s], uploads')
<1>0. \A q : Moves(q, q, uploads') /\ Moves(Free, q, uploads')
  BY DEF Moves
<1>1. ASSUME NEW status, Reply(t, status)
      PROVE  SlotsOK' /\ \A s \in Slots : Moves(req'[s], req[s], uploads')
  BY <1>0, <1>1, ReplySlot
<1>2. ASSUME NEW pc, NEW d, GoOn(t, pc, d), d = req[t].data \/ req[t].route = "hello"
      PROVE  SlotsOK' /\ \A s \in Slots : Moves(req'[s], req[s], uploads')
  <2>1. /\ SlotsOK' /\ \A s \in Slots \ {t} : req'[s] = req[s]
        /\ req'[t] = Slot(req[t].client, req[t].route, pc, req[t].agent, d)
    BY <1>2, GoOnSlot
  <2>2. Moves(req'[t], req[t], uploads')
    BY <1>2, <2>1, SlotFields DEF Moves
  <2> QED
    BY <1>0, <2>1, <2>2
<1>3. CASE Crash
  BY <1>0, <1>3, DieSlot DEF Crash
<1>4. CASE FindKey(t)
  BY <1>1, <1>2, <1>3, <1>4 DEF FindKey, Refuse, Throw, At
<1>5. CASE Verify(t)
  BY <1>1, <1>2, <1>3, <1>5 DEF Verify, Refuse, Throw, At
<1>6. CASE GoesOn(t)
  BY <1>2, <1>6 DEF GoesOn
<1> QED
  BY <1>1, <1>4, <1>5, <1>6, ServeSteps

LEMMA SentMoves ==
    ASSUME SlotsOK, NEW c \in Clients, NEW route \in Routes, NEW agent, NEW d,
           Send(c, route, agent, d), Proper(route, d, uploads')
    PROVE  SlotsOK' /\ \A s \in Slots : Moves(req'[s], req[s], uploads')
<1>1. SlotsOK' /\ \A s \in Slots : req'[s] = req[s] \/ req'[s] = Slot(c, route, "sent", agent, d)
  BY SendSlot
<1>2. \A q : Moves(q, q, uploads')
  BY DEF Moves
<1>3. \A q : Moves(Slot(c, route, "sent", agent, d), q, uploads')
  BY SlotFields DEF Moves
<1> QED
  BY <1>1, <1>2, <1>3

LEMMA SlotMoves ==
    ASSUME SlotsOK, uploads \in Nat, [Next]_vars
    PROVE  SlotsOK' /\ \A s \in Slots : Moves(req'[s], req[s], uploads')
<1> DEFINE Goal == SlotsOK' /\ \A s \in Slots : Moves(req'[s], req[s], uploads')
<1>0. \A q : Moves(q, q, uploads') /\ Moves(Free, q, uploads')
  BY DEF Moves
<1>1. CASE UNCHANGED requestVars
  BY <1>0, <1>1 DEF SlotsOK, requestVars
<1>2. ASSUME NEW k, Become(k) PROVE Goal
  <2>1. ASSUME NEW s \in Slots PROVE Moves(req'[s], req[s], uploads')
    <3>1. req'[s].client = req[s].client /\ req'[s].route = req[s].route
      BY <1>2, BecomeSlot
    <3>2. req[s].route # "hello" => req'[s] = req[s]
      BY <1>2, BecomeSlot
    <3> QED
      BY <3>1, <3>2 DEF Moves
  <2> QED
    BY <1>2, <2>1, BecomeSlots
<1>3. CASE UNCHANGED vars
  BY <1>1, <1>3 DEF vars
<1>4. CASE Keys
  BY <1>1, <1>2, <1>4 DEF Keys, Create, ResetRead, ResetWrite, HandOut, CreateRaw, Switch
<1>5. ASSUME NEW c \in Clients, Hello(c) PROVE Goal
  <2>1. PICK agent, d : Send(c, "hello", agent, d)
    BY <1>5 DEF Hello
  <2>2. "hello" \in Routes /\ Proper("hello", d, uploads')
    BY DEF Routes, Proper
  <2> QED
    BY <2>1, <2>2, SentMoves
<1>6. ASSUME NEW c \in Clients, SendUpload(c) PROVE Goal
  <2>1. PICK d : Send(c, "upload", "known", d) /\ d.name = uploads' /\ uploads' = uploads + 1
    BY <1>6 DEF SendUpload
  <2>2. "upload" \in Routes /\ Proper("upload", d, uploads')
    BY <2>1 DEF Routes, Proper
  <2> QED
    BY <2>1, <2>2, SentMoves
<1>7. CASE Meddle
  <2>1. PICK o \in Offers :
           Send(Other, "updateSetting", "known", [id |-> stored, type |-> o.type, value |-> o.value])
    BY <1>7 DEF Meddle
  <2> DEFINE d == [id |-> stored, type |-> o.type, value |-> o.value]
  <2>2. "updateSetting" \in Routes /\ Proper("updateSetting", d, uploads')
    BY <2>1, MaintenanceAssumption DEF Routes, Proper, Setting
  <2>3. Other \in Clients
    BY GatewayAssumption
  <2> QED
    BY <2>1, <2>2, <2>3, SentMoves
<1>8. CASE Outside
  <2>1. Machines \subseteq Clients /\ Uploaders \subseteq Clients
    BY GatewayAssumption
  <2> QED
    BY <1>1, <1>5, <1>6, <1>7, <1>8, <2>1 DEF Outside, DeleteUser, Expiry, Remove, Seed
<1>9. CASE Administrator
  <2>1. PICK d : Send(Admin, NextRoute, "known", d) /\ d.type = "BOOLEAN" /\ d.value = "false"
    BY <1>9 DEF Administrator, Administer
  <2>2. NextRoute \in Routes /\ NextRoute # "upload"
    BY DEF NextRoute, Routes
  <2>3. Proper(NextRoute, d, uploads')
    BY <2>1, <2>2 DEF Proper, Types, Values, BooleanTexts
  <2>4. Admin \in Clients
    BY GatewayAssumption
  <2> QED
    BY <2>1, <2>2, <2>3, <2>4, SentMoves
<1>10. ASSUME NEW s \in Slots, Serve(s) PROVE Goal
  BY <1>10, ServeMoves
<1>11. ASSUME NEW t \in Slots, Expire(t) PROVE Goal
  <2>1. /\ SlotsOK' /\ \A s \in Slots \ {t} : req'[s] = req[s]
        /\ req'[t] = Slot(None, req[t].route, req[t].pc, req[t].agent, req[t].data)
    BY <1>11, ExpireSlot
  <2>2. Moves(req'[t], req[t], uploads')
    BY <2>1, SlotFields DEF Moves
  <2> QED
    BY <1>0, <2>1, <2>2
<1>12. CASE Timeout
  BY <1>11, <1>12 DEF Timeout
<1>13. CASE Restart
  BY <1>0, <1>13, DieSlot DEF Restart, Crash
<1> QED
  BY <1>3, <1>4, <1>8, <1>9, <1>10, <1>12, <1>13 DEF Next
-----------------------------------------------------------------------------
\* A caller at work has a key and an issue.
BusyOK ==
    \A t \in Callers : task[t].pc # "idle" => task[t].key \in Issue /\ task[t].issue \in Issue

KeysTyped == TasksOK /\ issues \in Issue /\ KeysTypeOK /\ BusyOK

RowsOK(k) == DOMAIN k \subseteq Issue /\ k \in [DOMAIN k -> Row]

LEMMA InsertedRows ==
    ASSUME RowsOK(keys), NEW n \in Issue
    PROVE  RowsOK(Inserted(n))
<1> DEFINE new == Inserted(n)
<1>1. NewRow(n) \in Row
  BY DEF NewRow, Row
<1>2. DOMAIN new = DOMAIN keys \cup {n} /\ new = [k \in DOMAIN new |-> new[k]]
  BY DEF Inserted
<1>3. \A k \in DOMAIN new : new[k] \in Row
  BY <1>1 DEF Inserted, RowsOK
<1> HIDE DEF new
<1>4. new \in [DOMAIN new -> Row] /\ DOMAIN new \subseteq Issue
  BY <1>2, <1>3 DEF RowsOK
<1>5. RowsOK(new)
  BY <1>4 DEF RowsOK
<1> QED
  BY <1>5 DEF new

LEMMA ChangedRows ==
    ASSUME RowsOK(keys), NEW key \in DOMAIN keys, NEW row \in Row
    PROVE  RowsOK([keys EXCEPT ![key] = row])
  BY DEF RowsOK

LEMMA SwitchedRows ==
    ASSUME RowsOK(keys), NEW key \in DOMAIN keys, NEW b \in BOOLEAN
    PROVE  RowsOK(Switched(key, b))
<1>0. keys[key] \in Row
  BY DEF RowsOK
<1>1. [keys[key] EXCEPT !.isActive = b] \in Row
  BY <1>0 DEF Row
<1>2. Switched(key, b) = [keys EXCEPT ![key] = [keys[key] EXCEPT !.isActive = b]]
  BY DEF Switched
<1> QED
  BY <1>1, <1>2, ChangedRows

LEMMA RenewedRows ==
    ASSUME RowsOK(keys), NEW key \in DOMAIN keys, NEW n \in Issue
    PROVE  RowsOK([keys EXCEPT ![key] = Renewed(@, n)])
<1>1. keys[key] \in Row
  BY DEF RowsOK
<1>2. ASSUME NEW row \in Row PROVE Renewed(row, n) \in Row
  BY DEF Renewed, Row
<1> QED
  BY <1>1, <1>2, ChangedRows

LEMMA DeletedRows ==
    ASSUME RowsOK(keys), NEW key
    PROVE  RowsOK(Deleted(key))
<1> DEFINE new == Deleted(key)
<1>1. DOMAIN new = DOMAIN keys \ {key} /\ new = [k \in DOMAIN new |-> new[k]]
  BY DEF Deleted
<1>2. \A k \in DOMAIN new : new[k] \in Row
  BY DEF Deleted, RowsOK
<1> HIDE DEF new
<1>3. RowsOK(new)
  BY <1>1, <1>2 DEF RowsOK
<1> QED
  BY <1>3 DEF new

LEMMA NoRowsOK == RowsOK(<< >>)
<1>1. << >> = [k \in {} |-> NewRow(k)]
  OBVIOUS
<1>2. [k \in {} |-> NewRow(k)] \in [{} -> Row]
  OBVIOUS
<1> QED
  BY <1>1, <1>2, NoRows DEF RowsOK

\* A caller that goes on, with a key and an issue it has or is given.
LEMMA TypedTask ==
    ASSUME TasksOK, BusyOK, NEW t \in Callers, NEW pc \in {"idle", "write", "answer"}, NEW key, NEW n,
           task' = [task EXCEPT ![t] = Task(pc, key, n)],
           pc # "idle" => key \in Issue /\ n \in Issue,
           \A u \in Callers : task[u].pc \in {"idle", "write", "answer"}
    PROVE  TasksOK' /\ BusyOK' /\ \A u \in Callers : task'[u].pc \in {"idle", "write", "answer"}
<1>1. TasksOK' /\ task'[t] = Task(pc, key, n) /\ \A u \in Callers \ {t} : task'[u] = task[u]
  BY TaskStep
<1>2. /\ Task(pc, key, n).pc = pc /\ Task(pc, key, n).key = key /\ Task(pc, key, n).issue = n
  BY DEF Task
<1>3. ASSUME NEW u \in Callers
      PROVE  /\ task'[u].pc \in {"idle", "write", "answer"}
             /\ task'[u].pc # "idle" => task'[u].key \in Issue /\ task'[u].issue \in Issue
  BY <1>1, <1>2 DEF BusyOK
<1> QED
  BY <1>1, <1>3 DEF BusyOK, Issue

LEMMA KeysTypedInit == Init => KeysTyped
<1> SUFFICES ASSUME Init PROVE KeysTyped
  OBVIOUS
<1>1. PICK seeded : KeysInit(seeded)
  BY DEF Init
<1>2. RowsOK([key \in {Raw} |-> NewRow(Raw)])
  BY RawIssue DEF RowsOK, NewRow, Row
<1>3. RowsOK(keys)
  BY <1>1, <1>2, NoRowsOK DEF KeysInit
<1>4. task = [t \in Callers |-> Task("idle", None, None)]
  BY <1>1 DEF KeysInit, NoTask, Task
<1>5. TasksOK /\ BusyOK /\ \A t \in Callers : task[t].pc = "idle"
  BY <1>4 DEF TasksOK, BusyOK, Task
<1> QED
  BY <1>1, <1>3, <1>5, RawIssue, ApiKeysAssumption DEF KeysInit, KeysTyped, KeysTypeOK, RowsOK

LEMMA KeysTypedStep == KeysTyped /\ [Next]_vars => KeysTyped'
<1> SUFFICES ASSUME KeysTyped, [Next]_vars PROVE KeysTyped'
  OBVIOUS
<1> DEFINE PcsOK == \A t \in Callers : task[t].pc \in {"idle", "write", "answer"}
           IssuedOK == issued \subseteq [key: Issue, issue: Issue]
           SwitchesOK == switches \in 0..MaxSwitches
<1>0. /\ TasksOK /\ BusyOK /\ PcsOK /\ IssuedOK /\ SwitchesOK /\ issues \in Issue /\ RowsOK(keys)
  BY DEF KeysTyped, KeysTypeOK, RowsOK
<1> SUFFICES TasksOK' /\ BusyOK' /\ PcsOK' /\ IssuedOK' /\ SwitchesOK' /\ issues' \in Issue /\ RowsOK(keys')
  BY DEF KeysTyped, KeysTypeOK, RowsOK, Issue
<1>1. ASSUME NEW t \in Callers, Create(t)
      PROVE  TasksOK' /\ BusyOK' /\ PcsOK' /\ IssuedOK' /\ SwitchesOK' /\ issues' \in Issue /\ RowsOK(keys')
  <2> PICK n : n = issues + 1
    OBVIOUS
  <2>1. /\ issues' = n /\ n \in Issue /\ issued' = issued /\ switches' = switches
        /\ keys' = Inserted(n) /\ task' = [task EXCEPT ![t] = Task("answer", n, n)]
    BY <1>0, <1>1, NextIssue DEF Create, Become, Task
  <2>2. TasksOK' /\ BusyOK' /\ PcsOK'
    BY <1>0, <2>1, TypedTask
  <2> QED
    BY <1>0, <2>1, <2>2, InsertedRows
<1>2. ASSUME NEW t \in Callers, NEW k \in Issue, ResetRead(t, k)
      PROVE  TasksOK' /\ BusyOK' /\ PcsOK' /\ IssuedOK' /\ SwitchesOK' /\ issues' \in Issue /\ RowsOK(keys')
  <2> PICK n : n = issues + 1
    OBVIOUS
  <2>1. /\ issues' = n /\ n \in Issue /\ issued' = issued /\ switches' = switches /\ keys' = keys
        /\ task' = [task EXCEPT ![t] = Task("write", k, n)]
    BY <1>0, <1>2, NextIssue DEF ResetRead, Task
  <2>2. TasksOK' /\ BusyOK' /\ PcsOK'
    BY <1>0, <2>1, TypedTask
  <2> QED
    BY <1>0, <2>1, <2>2
<1>3. ASSUME NEW t \in Callers, ResetWrite(t)
      PROVE  TasksOK' /\ BusyOK' /\ PcsOK' /\ IssuedOK' /\ SwitchesOK' /\ issues' \in Issue /\ RowsOK(keys')
  <2> PICK k, n : k = task[t].key /\ n = task[t].issue
    OBVIOUS
  <2>1. /\ UNCHANGED <<issues, issued, switches>> /\ task[t].pc = "write"
        /\ keys' = IF k \in DOMAIN keys THEN [keys EXCEPT ![k] = Renewed(@, n)] ELSE keys
        /\ task' = [task EXCEPT ![t].pc = "answer"]
    BY <1>3 DEF ResetWrite, Become
  <2>2. k \in Issue /\ n \in Issue
    BY <1>0, <2>1 DEF BusyOK
  <2>3. task' = [task EXCEPT ![t] = Task("answer", k, n)]
    <3>1. task[t] = Task(task[t].pc, k, n)
      BY <1>0 DEF TasksOK
    <3>2. [task[t] EXCEPT !.pc = "answer"] = Task("answer", k, n)
      BY <3>1 DEF Task
    <3> QED
      BY <2>1, <3>2
  <2>4. TasksOK' /\ BusyOK' /\ PcsOK'
    BY <1>0, <2>2, <2>3, TypedTask
  <2>5. RowsOK(keys')
    BY <1>0, <2>1, <2>2, RenewedRows
  <2> QED
    BY <1>0, <2>1, <2>4, <2>5
<1>4. ASSUME NEW t \in Callers, HandOut(t)
      PROVE  TasksOK' /\ BusyOK' /\ PcsOK' /\ IssuedOK' /\ SwitchesOK' /\ issues' \in Issue /\ RowsOK(keys')
  <2>1. /\ UNCHANGED <<issues, switches, keys>> /\ task[t].pc = "answer"
        /\ issued' = issued \cup {[key |-> task[t].key, issue |-> task[t].issue]}
        /\ task' = [task EXCEPT ![t] = Task("idle", None, None)]
    BY <1>4 DEF HandOut, NoTask, Task
  <2>2. task[t].key \in Issue /\ task[t].issue \in Issue
    BY <1>0, <2>1 DEF BusyOK
  <2>3. TasksOK' /\ BusyOK' /\ PcsOK'
    BY <1>0, <2>1, TypedTask
  <2> QED
    BY <1>0, <2>1, <2>2, <2>3
<1>5. CASE CreateRaw
  <2>1. UNCHANGED <<issued, issues, task>> /\ keys' = Inserted(Raw) /\ SwitchesOK'
    BY <1>0, <1>5, ApiKeysAssumption DEF CreateRaw, Become
  <2> QED
    BY <1>0, <2>1, RawIssue, InsertedRows DEF TasksOK, BusyOK
<1>6. CASE Switch
  <2>1. UNCHANGED <<issued, issues, task>> /\ SwitchesOK'
    BY <1>0, <1>6, ApiKeysAssumption DEF Switch
  <2>2. \/ \E key \in DOMAIN keys, b \in BOOLEAN : keys' = Switched(key, b)
        \/ \E key \in DOMAIN keys : keys' = Deleted(key)
        \/ keys' = << >>
    BY <1>6 DEF Switch, Become, DeletedAll
  <2>3. RowsOK(keys')
    BY <1>0, <2>2, SwitchedRows, DeletedRows, NoRowsOK
  <2> QED
    BY <1>0, <2>1, <2>3 DEF TasksOK, BusyOK
<1>7. CASE TasksLost
  <2>1. task' = [t \in Callers |-> Task("idle", None, None)] /\ UNCHANGED <<keys, issued, issues, switches>>
    BY <1>7 DEF TasksLost, NoTask, Task
  <2>2. TasksOK' /\ BusyOK' /\ PcsOK'
    BY <2>1 DEF TasksOK, BusyOK, Task
  <2> QED
    BY <1>0, <2>1, <2>2
<1>8. CASE UNCHANGED keyVars
  BY <1>0, <1>8 DEF keyVars, TasksOK, BusyOK
<1> QED
  BY <1>1, <1>2, <1>3, <1>4, <1>5, <1>6, <1>7, <1>8, KeySteps
-----------------------------------------------------------------------------
\* A setting that is stored is a row.
LEMMA StoredTyped ==
    ASSUME NEW n, NEW id \in 1..n, NEW type \in Types, NEW value \in Values
    PROVE  Stored(id, type, value) \in [id: 1..n, type: Types, value: Values]
  BY DEF Stored

\* What the slots of both kinds write is of its type.
WritesOK(n) == \A s \in Slots : Proper(req[s].route, req[s].data, n)

ClientsOK == \A s \in Slots : req[s].route \in Routes \cup {None} /\ req[s].client \in Clients \cup {None}

\* A request goes on naming what exists.
LEMMA WritesStep ==
    ASSUME ClientsOK, WritesOK(uploads), uploads \in Nat, uploads' \in Nat, uploads <= uploads',
           \A s \in Slots : Moves(req'[s], req[s], uploads')
    PROVE  ClientsOK' /\ WritesOK(uploads)'
<1> SUFFICES ASSUME NEW s \in Slots
             PROVE  /\ req'[s].route \in Routes \cup {None} /\ req'[s].client \in Clients \cup {None}
                    /\ Proper(req'[s].route, req'[s].data, uploads')
  BY DEF ClientsOK, WritesOK, Proper, Routes, Types, Values, BooleanTexts
<1> PICK p, q : p = req'[s] /\ q = req[s]
  OBVIOUS
<1>1. q.route \in Routes \cup {None} /\ q.client \in Clients \cup {None} /\ Proper(q.route, q.data, uploads)
  BY DEF ClientsOK, WritesOK
<1>2. Proper(q.route, q.data, uploads')
  BY <1>1 DEF Proper
<1>3. CASE p.route = q.route /\ p.client \in {q.client, None} /\ (p.route # "hello" => p.data = q.data)
  BY <1>1, <1>2, <1>3 DEF Proper
<1>4. CASE p = Free
  BY <1>4, RequestAssumption DEF Free, Proper, Routes
<1>5. CASE p.client \in Clients /\ p.route \in Routes /\ Proper(p.route, p.data, uploads')
  BY <1>5
<1> QED
  BY <1>3, <1>4, <1>5 DEF Moves

StoredOK == stored \in Nat \ {0} /\ MaintenanceTypeOK

LEMMA StoredInit == Init => StoredOK
<1> SUFFICES ASSUME Init PROVE StoredOK
  OBVIOUS
<1>1. PICK plan \in Plans : MaintenanceInit(plan.setting)
  BY DEF Init
<1>2. stored = 1 /\ token = None /\ known = None /\ password = "live"
  BY <1>1 DEF MaintenanceInit
<1>3. setting = None \/ setting \in [id: 1..1, type: Types, value: Values]
  <2>1. CASE plan.setting = None
    BY <1>1, <2>1 DEF MaintenanceInit
  <2>2. CASE plan.setting # None
    <3>1. plan.setting \in Setting
      BY <2>2, GatewayAssumption
    <3>2. plan.setting.type \in Types /\ plan.setting.value \in Values
      BY <3>1 DEF Setting
    <3>3. 1 \in 1..1
      OBVIOUS
    <3>4. setting = Stored(1, plan.setting.type, plan.setting.value)
      BY <1>1, <2>2 DEF MaintenanceInit
    <3> QED
      BY <3>2, <3>3, <3>4, StoredTyped
  <2> QED
    BY <2>1, <2>2
<1> QED
  BY <1>2, <1>3 DEF StoredOK, MaintenanceTypeOK

LEMMA StoredStep == StoredOK /\ WritesOK(uploads) /\ [Next]_vars => StoredOK'
<1> SUFFICES ASSUME StoredOK, WritesOK(uploads), [Next]_vars PROVE StoredOK'
  OBVIOUS
<1>0. /\ stored \in Nat \ {0} /\ token \in {None, "live", "expired"} /\ password \in {"live", "expired"}
      /\ setting = None \/ setting \in [id: 1..stored, type: Types, value: Values]
      /\ known = None \/ known \in 1..stored
  BY DEF StoredOK, MaintenanceTypeOK
<1>1. CASE UNCHANGED maintenanceVars
  BY <1>1 DEF StoredOK, MaintenanceTypeOK, maintenanceVars
<1>2. ASSUME NEW s \in Slots, Login(s) \/ Refresh(s) \/ CheckMaintenance(s) PROVE StoredOK'
  <2>1. UNCHANGED <<setting, stored, known, password>> /\ token' \in {token, None, "live"}
    BY <1>2 DEF Login, Refresh, CheckMaintenance, maintenanceVars
  <2> QED
    BY <1>0, <2>1 DEF StoredOK, MaintenanceTypeOK
<1>3. ASSUME NEW s \in Slots, GetByName(s) \/ FindSetting(s) PROVE StoredOK'
  <2>1. /\ UNCHANGED <<setting, stored, token, password>>
        /\ known' = known \/ known' = None \/ (setting # None /\ known' = setting.id)
    BY <1>3 DEF GetByName, FindSetting
  <2>2. setting # None => setting.id \in 1..stored
    BY <1>0
  <2>3. known' = None \/ known' \in 1..stored'
    BY <1>0, <2>1, <2>2
  <2> QED
    BY <1>0, <2>1, <2>3 DEF StoredOK, MaintenanceTypeOK
<1>4. ASSUME NEW s \in Slots, UpdateSetting(s) PROVE StoredOK'
  <2> PICK d : d = req[s].data
    OBVIOUS
  <2>1. d.type \in Types /\ d.value \in Values
    BY <1>4 DEF UpdateSetting, At, WritesOK, Proper
  <2>2. /\ UNCHANGED <<stored, token, known, password>>
        /\ \/ setting' = setting
           \/ setting # None /\ setting.id = d.id /\ setting' = Stored(d.id, d.type, d.value)
    BY <1>4 DEF UpdateSetting
  <2>3. CASE setting # None /\ setting.id = d.id /\ setting' = Stored(d.id, d.type, d.value)
    <3>1. d.id \in 1..stored
      BY <1>0, <2>3
    <3>2. setting' \in [id: 1..stored, type: Types, value: Values]
      BY <2>1, <2>3, <3>1, StoredTyped
    <3> QED
      BY <1>0, <2>2, <3>2 DEF StoredOK, MaintenanceTypeOK
  <2>4. CASE setting' = setting
    BY <1>0, <2>2, <2>4 DEF StoredOK, MaintenanceTypeOK
  <2> QED
    BY <2>2, <2>3, <2>4
<1>5. CASE Seed
  <2>1. stored' = stored + 1 /\ setting' = Stored(stored', "BOOLEAN", "false") /\ UNCHANGED <<token, known, password>>
    BY <1>5 DEF Seed
  <2>0. stored \in Nat /\ stored' = stored + 1
    BY <1>0, <2>1
  <2>2. stored' \in 1..stored' /\ "BOOLEAN" \in Types /\ "false" \in Values
    <3>1. stored' \in 1..stored'
      BY <2>0
    <3> QED
      BY <3>1 DEF Types, Values, BooleanTexts
  <2>3. setting' \in [id: 1..stored', type: Types, value: Values]
    BY <2>1, <2>2, StoredTyped
  <2>4. known' = None \/ known' \in 1..stored'
    BY <1>0, <2>0, <2>1
  <2>5. stored' \in Nat \ {0}
    BY <2>0
  <2> QED
    BY <1>0, <2>1, <2>3, <2>4, <2>5 DEF StoredOK, MaintenanceTypeOK
<1>6. CASE Meddle \/ Remove \/ Expiry
  <2>1. /\ UNCHANGED <<stored, known>> /\ setting' \in {setting, None}
        /\ token' \in {token, "expired"} /\ password' \in {password, "expired"}
    BY <1>6 DEF Meddle, Remove, Expiry
  <2> QED
    BY <1>0, <2>1 DEF StoredOK, MaintenanceTypeOK
<1>7. ASSUME NEW s \in Slots, Serve(s) PROVE StoredOK'
  BY <1>1, <1>2, <1>3, <1>4, <1>7 DEF Serve
<1>8. CASE UNCHANGED vars
  BY <1>1, <1>8 DEF vars
<1>9. CASE Keys \/ Administrator \/ Timeout \/ Restart
  BY <1>1, <1>9 DEF Keys, Administrator, Administer, Timeout, Restart
<1>10. CASE Outside
  BY <1>1, <1>5, <1>6, <1>10 DEF Outside
<1> QED
  BY <1>7, <1>8, <1>9, <1>10 DEF Next
-----------------------------------------------------------------------------
PhotosOK == UploadTypeOK /\ photo = [u \in DOMAIN photo |-> photo[u]]

LEMMA PhotosInit == Init => PhotosOK
<1>1. Init => photo = [u \in Uploaders |-> None] /\ uploads = 0 /\ recorded = {}
  BY DEF Init, UploadInit
<1> QED
  BY <1>1, UploadAssumption DEF PhotosOK, UploadTypeOK

LEMMA PhotosStep ==
    PhotosOK /\ WritesOK(uploads) /\ [Next]_vars => PhotosOK' /\ uploads' >= uploads
<1> SUFFICES ASSUME PhotosOK, WritesOK(uploads), [Next]_vars PROVE PhotosOK' /\ uploads' >= uploads
  OBVIOUS
<1>0. /\ DOMAIN photo \subseteq Uploaders /\ photo = [u \in DOMAIN photo |-> photo[u]]
      /\ \A u \in DOMAIN photo : photo[u] = None \/ photo[u] \in recorded
      /\ recorded \subseteq 1..uploads /\ uploads \in 0..MaxUploads /\ uploads \in Nat
  BY UploadAssumption DEF PhotosOK, UploadTypeOK
<1>1. CASE UNCHANGED <<photo, recorded, uploads>>
  BY <1>0, <1>1 DEF PhotosOK, UploadTypeOK
<1>2. ASSUME NEW c \in Uploaders, SendUpload(c) PROVE PhotosOK' /\ uploads' >= uploads
  <2>1. uploads < MaxUploads /\ uploads' = uploads + 1 /\ UNCHANGED <<photo, recorded>>
    BY <1>2 DEF SendUpload
  <2>2. uploads' \in 0..MaxUploads /\ recorded' \subseteq 1..uploads' /\ uploads' >= uploads
    BY <1>0, <2>1, UploadAssumption
  <2> QED
    BY <1>0, <2>1, <2>2 DEF PhotosOK, UploadTypeOK
<1>3. ASSUME NEW u \in Uploaders, DeleteUser(u) PROVE PhotosOK' /\ uploads' >= uploads
  <2>1. photo' = [w \in DOMAIN photo \ {u} |-> photo[w]] /\ UNCHANGED <<recorded, uploads>>
    BY <1>3 DEF DeleteUser
  <2>2. /\ DOMAIN photo' \subseteq Uploaders /\ photo' = [w \in DOMAIN photo' |-> photo'[w]]
        /\ \A w \in DOMAIN photo' : photo'[w] = None \/ photo'[w] \in recorded'
    BY <1>0, <2>1
  <2> QED
    BY <1>0, <2>1, <2>2 DEF PhotosOK, UploadTypeOK
<1>4. ASSUME NEW s \in Slots, Record(s) PROVE PhotosOK' /\ uploads' >= uploads
  <2> PICK d : d = req[s].data
    OBVIOUS
  <2>1. d.name \in 1..uploads
    BY <1>4 DEF Record, At, WritesOK, Proper
  <2>2. uploads' = uploads
    BY <1>4 DEF Record
  <2>3. CASE UNCHANGED <<photo, recorded>>
    BY <1>0, <1>1, <2>2, <2>3
  <2>4. CASE d.user \in DOMAIN photo /\ photo' = [photo EXCEPT ![d.user] = d.name] /\ recorded' = recorded \cup {d.name}
    <3>1. /\ DOMAIN photo' = DOMAIN photo /\ photo' = [w \in DOMAIN photo' |-> photo'[w]]
          /\ \A w \in DOMAIN photo' : photo'[w] = None \/ photo'[w] \in recorded'
      BY <1>0, <2>4
    <3> QED
      BY <1>0, <2>1, <2>2, <2>4, <3>1 DEF PhotosOK, UploadTypeOK
  <2> QED
    BY <1>4, <2>3, <2>4 DEF Record
<1>5. ASSUME NEW s \in Slots, Serve(s) PROVE PhotosOK' /\ uploads' >= uploads
  BY <1>1, <1>4, <1>5, <1>0 DEF Serve, FindUser, Pipe, Put, uploadVars
<1>6. CASE UNCHANGED vars
  BY <1>0, <1>1, <1>6 DEF vars, uploadVars
<1>7. CASE Keys \/ Administrator \/ Timeout \/ Restart
  BY <1>0, <1>1, <1>7 DEF Keys, Administrator, Timeout, Restart, uploadVars
<1>8. CASE Outside
  BY <1>0, <1>1, <1>2, <1>3, <1>8 DEF Outside, uploadVars
<1> QED
  BY <1>5, <1>6, <1>7, <1>8 DEF Next
-----------------------------------------------------------------------------
GatewayTyped ==
    SlotsOK /\ CountsOK /\ ClientsOK /\ WritesOK(uploads) /\ KeysTyped /\ StoredOK /\ PhotosOK

LEMMA GatewayTypedInit == Init => GatewayTyped
<1> SUFFICES ASSUME Init PROVE GatewayTyped
  OBVIOUS
<1>1. req = [s \in Slots |-> Free]
  BY DEF Init, RequestInit
<1>2. Free = Slot(None, None, "free", None, None)
  BY DEF Free, Slot
<1>3. SlotsOK /\ ClientsOK
  BY <1>1, <1>2, SlotFields DEF SlotsOK, ClientsOK
<1>4. WritesOK(uploads)
  BY <1>1, <1>2, SlotFields, RequestAssumption DEF WritesOK, Proper, Routes
<1> QED
  BY <1>3, <1>4, CountsInit, KeysTypedInit, StoredInit, PhotosInit DEF GatewayTyped

LEMMA GatewayTypedStep == GatewayTyped /\ [Next]_vars => GatewayTyped'
<1> SUFFICES ASSUME GatewayTyped, [Next]_vars PROVE GatewayTyped'
  OBVIOUS
<1>1. CountsOK' /\ KeysTyped' /\ StoredOK' /\ PhotosOK' /\ uploads' >= uploads
  BY CountsStep, KeysTypedStep, StoredStep, PhotosStep DEF GatewayTyped
<1>2. uploads \in Nat /\ uploads' \in Nat
  BY <1>1, UploadAssumption DEF GatewayTyped, PhotosOK, UploadTypeOK
<1>3. SlotsOK' /\ \A s \in Slots : Moves(req'[s], req[s], uploads')
  BY <1>2, SlotMoves DEF GatewayTyped
<1>4. ClientsOK' /\ WritesOK(uploads)'
  BY <1>1, <1>2, <1>3, WritesStep DEF GatewayTyped
<1> QED
  BY <1>1, <1>3, <1>4 DEF GatewayTyped

\* Whatever the clients, the callers, the administrators and the faults do: a row, a slot and a
\* photo name what exists, a request of each route carries what its handler expects, and every
\* counter stays within its bound.
THEOREM GatewayTypesCorrect == Spec => []GatewayTypeOK
<1>1. GatewayTyped => GatewayTypeOK
  BY DEF GatewayTyped, GatewayTypeOK, KeysTyped, StoredOK, PhotosOK, ClientsOK, CountsOK
<1> QED
  BY <1>1, GatewayTypedInit, GatewayTypedStep, PTL DEF Spec
-----------------------------------------------------------------------------
\* What PipesExact says of one value.
FitAll(kind, v) ==
    /\ v # None /\ v.files # << >>
    /\ \A n \in DOMAIN v.files : v.files[n].mime \in Mimes[kind] /\ v.files[n].size <= MaxFileSize[kind]

LEMMA UploadPipesExact ==
    ASSUME NEW v \in Pipeable
    PROVE  UploadPipes(v) = "ok" <=> FitAll("image", v)
<1>1. UploadPipes(v) = "ok" <=>
         Required(v) = "ok" /\ Size("image", None, v) = "ok" /\ Type("image", v) = "ok"
  BY ThreeOK DEF UploadPipes
<1>2. CASE v = None
  BY <1>1, <1>2, RequiredOK DEF FitAll
<1>3. CASE v # None
  BY <1>1, <1>3, RequiredOK, SizeOK, TypeOK DEF FitAll
<1> QED
  BY <1>2, <1>3

LEMMA ImportPipesExact ==
    ASSUME NEW v \in Pipeable
    PROVE  ImportPipes(v) = "ok" <=>
               FitAll("excel", v) /\ \A n \in DOMAIN v.files :
                                        v.files[n].readable /\ Failing(v.files[n]) = {}
<1>1. ImportPipes(v) = "ok" <=>
         /\ Required(v) = "ok" /\ Size("excel", None, v) = "ok" /\ Type("excel", v) = "ok"
         /\ Extract(v) = "ok" /\ Validation(v, "rows") = "ok"
  BY FiveOK DEF ImportPipes
<1>2. CASE v = None
  BY <1>1, <1>2, RequiredOK DEF FitAll
<1>3. CASE v # None
  BY <1>1, <1>3, RequiredOK, SizeOK, TypeOK, ExtractOK, ValidationOK DEF FitAll
<1> QED
  BY <1>2, <1>3

LEMMA ArrayPipesExact ==
    ASSUME NEW v \in Pipeable, NEW kind \in Kinds
    PROVE  ArrayPipes(kind, None, 0, v) = "ok" <=>
               FitAll(kind, v) /\ (v.many => Len(v.files) <= MaxFiles[kind])
<1>1. ArrayPipes(kind, None, 0, v) = "ok" <=>
         /\ Required(v) = "ok" /\ Count(kind, 0, v) = "ok"
         /\ Size(kind, None, v) = "ok" /\ Type(kind, v) = "ok"
  BY FourOK DEF ArrayPipes
<1>2. CASE v = None
  BY <1>1, <1>2, RequiredOK DEF FitAll
<1>3. CASE v # None
  <2>1. Len(v.files) \in Int /\ MaxFiles[kind] \in Int
    BY <1>3, UploadAssumption, FilesAssumption
  <2> QED
    BY <1>1, <1>3, <2>1, RequiredOK, SizeOK, TypeOK, CountOK DEF FitAll
<1> QED
  BY <1>2, <1>3

\* Whatever limits are configured, and however many files there are and of whatever size and
\* type: the pipes of a route let pass what every check, taken on its own, allows.
THEOREM PipesCorrect == Spec => []PipesExact
<1>1. PipesExact
  <2> SUFFICES ASSUME NEW v \in Pipeable
               PROVE  /\ (UploadPipes(v) = "ok") = FitAll("image", v)
                      /\ (ImportPipes(v) = "ok") =
                            (FitAll("excel", v) /\ \A n \in DOMAIN v.files :
                                                     v.files[n].readable /\ Failing(v.files[n]) = {})
                      /\ \A kind \in Kinds :
                            (ArrayPipes(kind, None, 0, v) = "ok") =
                               (FitAll(kind, v) /\ (v.many => Len(v.files) <= MaxFiles[kind]))
    BY Zenon DEF PipesExact, FitAll
  <2>1. FitAll("image", v) \in BOOLEAN /\ FitAll("excel", v) \in BOOLEAN
    BY DEF FitAll
  <2>2. (UploadPipes(v) = "ok") = FitAll("image", v)
    BY <2>1, UploadPipesExact
  <2>3. (ImportPipes(v) = "ok") =
            (FitAll("excel", v) /\ \A n \in DOMAIN v.files :
                                     v.files[n].readable /\ Failing(v.files[n]) = {})
    BY <2>1, ImportPipesExact
  <2>4. ASSUME NEW kind \in Kinds
        PROVE  (ArrayPipes(kind, None, 0, v) = "ok") =
                  (FitAll(kind, v) /\ (v.many => Len(v.files) <= MaxFiles[kind]))
    BY ArrayPipesExact
  <2> QED
    BY <2>2, <2>3, <2>4
<1> QED
  BY <1>1, PTL
-----------------------------------------------------------------------------
(* One answer each *)

LEMMA PipesVerdict == \A v : UploadPipes(v) # "ok" => UploadPipes(v) # None
<1> SUFFICES ASSUME NEW v, UploadPipes(v) # "ok" PROVE UploadPipes(v) # None
  OBVIOUS
<1> PICK a, b, c : a = Required(v) /\ b = Size("image", None, v) /\ c = Type("image", v)
  OBVIOUS
<1>1. /\ a # "ok" => a # None
      /\ b # "ok" => b # None
      /\ c # "ok" => c # None
  BY RequestAssumption DEF Required, Size, Type, Given, Statuses
<1>2. UploadPipes(v) = FirstOf(<<a, b, c>>)
  BY DEF UploadPipes
<1> DEFINE w == <<a, b, c>>
           First(n) == w[n] # "ok" /\ \A m \in 1..(n - 1) : w[m] = "ok"
<1>3. DOMAIN w = 1..3 /\ w[1] = a /\ w[2] = b /\ w[3] = c
  OBVIOUS
<1>4. ~(a = "ok" /\ b = "ok" /\ c = "ok")
  BY <1>2, ThreeOK
<1> HIDE DEF w
<1>5. \E n \in DOMAIN w : First(n)
  <2>1. CASE a # "ok"
    <3>1. First(1)
      BY <1>3, <2>1
    <3> QED
      BY <1>3, <3>1
  <2>2. CASE a = "ok" /\ b # "ok"
    <3>1. First(2)
      BY <1>3, <2>2
    <3> QED
      BY <1>3, <3>1
  <2>3. CASE a = "ok" /\ b = "ok" /\ c # "ok"
    <3>1. First(3)
      BY <1>3, <2>3
    <3> QED
      BY <1>3, <3>1
  <2> QED
    BY <1>4, <2>1, <2>2, <2>3
<1>6. FirstOf(w) = w[CHOOSE n \in DOMAIN w : First(n)]
  BY <1>3, <1>4 DEF FirstOf
<1>7. First(CHOOSE n \in DOMAIN w : First(n)) /\ (CHOOSE n \in DOMAIN w : First(n)) \in 1..3
  BY <1>3, <1>5
<1>8. \A n \in 1..3 : First(n) => w[n] # None
  <2> SUFFICES ASSUME NEW n \in 1..3, First(n) PROVE w[n] # None
    OBVIOUS
  <2>1. n = 1 \/ n = 2 \/ n = 3
    OBVIOUS
  <2> QED
    BY <1>1, <1>3, <2>1
<1>9. FirstOf(w) # None
  BY <1>6, <1>7, <1>8
<1> QED
  BY <1>2, <1>9 DEF w

\* A handler answers, goes on with the slot it has, or takes the process with it.
Answers(s) == \E status : status # None /\ Reply(s, status)
Goes(s) == req[s].pc # "free" /\ \E pc, d : pc # "free" /\ GoOn(s, pc, d)

LEMMA ThrowAnswers ==
    ASSUME NEW s
    PROVE  /\ \A status : (status # None \/ status = Error) /\ Throw(s, status) => Answers(s)
           /\ \A status : status # None /\ Reply(s, status) => Answers(s)
           /\ \A reason : Refuse(s, reason) => Answers(s)
           /\ None \notin Statuses
<1>1. \A status : status # None \/ status = Error => Caught(status) # None
  BY RequestAssumption DEF Caught, Statuses
<1>2. \A status : (status # None \/ status = Error) /\ Throw(s, status) => Answers(s)
  BY <1>1 DEF Throw, Answers
<1>3. \A reason : (IF reason \in Reasons THEN reason ELSE "401 invalid") # None
  BY ReasonsAssumption
<1>4. \A reason : Refuse(s, reason) => Answers(s)
  BY <1>2, <1>3, Zenon DEF Refuse
<1> QED
  BY <1>2, <1>4, RequestAssumption DEF Answers

LEMMA ServeAnswers ==
    ASSUME NEW s \in Slots, Serve(s)
    PROVE  /\ timeouts' = timeouts
           /\ Answers(s) \/ Goes(s) \/ Die
<1>0. /\ \A status : (status # None \/ status = Error) /\ Throw(s, status) => Answers(s)
      /\ \A status : status # None /\ Reply(s, status) => Answers(s)
      /\ \A reason : Refuse(s, reason) => Answers(s)
      /\ None \notin Statuses
  BY ThrowAnswers
<1>1. CASE Enter(s)
  <2>1. (IF Limited(s) \/ ~HasAgent(s) THEN Throw(s, IF Limited(s) THEN "429" ELSE "403")
         ELSE GoOn(s, IF Excluded(req[s].route) THEN "guards" ELSE "maintenance", req[s].data))
        /\ timeouts' = timeouts /\ req[s].pc = "sent"
    BY <1>1 DEF Enter
  <2>2. (IF Limited(s) THEN "429" ELSE "403") # None
    BY <1>0 DEF Statuses
  <2>3. CASE Limited(s) \/ ~HasAgent(s)
    BY <1>0, <2>1, <2>2, <2>3, Zenon
  <2>4. CASE ~(Limited(s) \/ ~HasAgent(s))
    BY <2>1, <2>4 DEF Goes
  <2> QED
    BY <2>1, <2>3, <2>4
<1>2. CASE GiveUp(s)
  BY <1>0, <1>2 DEF Statuses, GiveUp
<1>3. CASE Greet(s)
  BY <1>0, <1>3 DEF Statuses, Greet
<1>4. CASE CheckMaintenance(s)
  BY <1>0, <1>4 DEF Statuses, CheckMaintenance, Goes
<1>5. CASE Login(s) \/ GetByName(s) \/ UpdateSetting(s)
  BY <1>0, <1>5 DEF Statuses, Login, GetByName, UpdateSetting
<1>6. CASE Refresh(s)
  BY <1>0, <1>6 DEF Statuses, Refresh
<1>7. CASE FindSetting(s)
  BY <1>0, <1>7 DEF Statuses, FindSetting, At, Goes
<1>8. CASE FindUser(s)
  BY <1>0, <1>8 DEF Statuses, FindUser, At, Goes
<1>9. CASE Pipe(s)
  BY <1>0, <1>9, PipesVerdict DEF Statuses, Pipe, At, Goes
<1>10. CASE Put(s)
  BY <1>0, <1>10 DEF Statuses, Put, At, Goes
<1>11. CASE Record(s)
  BY <1>0, <1>11 DEF Statuses, Record
<1>12. CASE FindKey(s)
  BY <1>0, <1>12 DEF Statuses, FindKey, At, Goes, Crash
<1>13. CASE Verify(s)
  BY <1>0, <1>13 DEF Statuses, Verify, At, Goes, Crash
<1> QED
  BY <1>1, <1>2, <1>3, <1>4, <1>5, <1>6, <1>7, <1>8, <1>9, <1>10, <1>11, <1>12, <1>13 DEF Serve

\* What a step does to requests, their answers and the clock.
LEMMA AnswerSteps ==
    ASSUME [Next]_vars
    PROVE  /\ active' = active
           /\ \/ \E s \in Slots : Expire(s)
              \/ /\ timeouts' = timeouts
                 /\ \/ UNCHANGED <<req, answer>>
                    \/ \E k : Become(k)
                    \/ \E s \in Slots : Answers(s) \/ Goes(s)
                    \/ \E c \in active : \E route, agent, data : Send(c, route, agent, data)
                    \/ Die
<1>0. active' = active
  BY DEF Next, vars
<1>1. CASE UNCHANGED vars
  BY <1>0, <1>1 DEF vars, requestVars
<1>2. CASE Keys
  <2>1. (\E k : Become(k)) \/ UNCHANGED requestVars
    BY <1>2 DEF Keys, Create, ResetRead, ResetWrite, HandOut, CreateRaw, Switch
  <2> QED
    BY <1>0, <2>1 DEF Become, requestVars
<1>3. CASE Outside
  <2>1. ASSUME NEW c \in active, Hello(c)
        PROVE  timeouts' = timeouts /\ \E d \in active : \E route, agent, e : Send(d, route, agent, e)
    <3>1. PICK agent, e : Send(c, "hello", agent, e)
      BY <2>1 DEF Hello
    <3> QED
      BY <3>1 DEF Send
  <2>2. ASSUME NEW c \in active, SendUpload(c)
        PROVE  timeouts' = timeouts /\ \E d \in active : \E route, agent, e : Send(d, route, agent, e)
    <3>1. PICK e : Send(c, "upload", "known", e)
      BY <2>2 DEF SendUpload
    <3> QED
      BY <3>1 DEF Send
  <2>3. ASSUME Other \in active, Meddle
        PROVE  timeouts' = timeouts /\ \E d \in active : \E route, agent, e : Send(d, route, agent, e)
    <3>1. PICK e : Send(Other, "updateSetting", "known", e)
      BY <2>3 DEF Meddle
    <3> QED
      BY <2>3, <3>1 DEF Send
  <2>4. CASE Expiry \/ Remove \/ Seed \/ \E u : DeleteUser(u)
    BY <1>0, <2>4 DEF Expiry, Remove, Seed, DeleteUser, requestVars
  <2> QED
    BY <1>0, <1>3, <2>1, <2>2, <2>3, <2>4 DEF Outside
<1>4. CASE Administrator
  <2>1. PICK e : Send(Admin, NextRoute, "known", e)
    BY <1>4 DEF Administrator, Administer
  <2>2. Admin \in active /\ timeouts' = timeouts
    BY <1>4, <2>1 DEF Administrator, Send
  <2> QED
    BY <1>0, <2>1, <2>2
<1>5. ASSUME NEW s \in Slots, Serve(s)
      PROVE  timeouts' = timeouts /\ (Answers(s) \/ Goes(s) \/ Die)
  BY <1>5, ServeAnswers
<1>6. CASE Timeout
  BY <1>0, <1>6 DEF Timeout
<1>7. CASE Restart
  BY <1>0, <1>7 DEF Restart, Crash, Die
<1> QED
  BY <1>0, <1>1, <1>2, <1>3, <1>4, <1>5, <1>6, <1>7 DEF Next

\* Who waits is owed one answer, by one handler; handlers that have timed out work for
\* nobody.
Orphan(q) == q.client = None /\ q.pc # "free"

Orphans == {s \in Slots : Orphan(req[s])}

PlanFits ==
    /\ active \subseteq Clients /\ IsFiniteSet(active)
    /\ Cardinality(active) + MaxTimeouts <= Cardinality(Slots)

AnswerInv ==
    /\ SlotsOK /\ PlanFits /\ OneAnswerEach
    /\ answer = [c \in Clients |-> answer[c]]
    /\ \A s \in Slots : /\ req[s].client \in active \cup {None}
                        /\ req[s].pc = "free" => req[s].client = None

OrphansFew ==
    /\ timeouts \in 0..MaxTimeouts
    /\ Cardinality(Orphans) <= timeouts

LEMMA FreeSlot == Free.client = None /\ Free.pc = "free" /\ ~Orphan(Free)
  BY DEF Free, Orphan

LEMMA AnswersInit == Init => AnswerInv /\ OrphansFew
<1> SUFFICES ASSUME Init PROVE AnswerInv /\ OrphansFew
  OBVIOUS
<1>1. req = [s \in Slots |-> Free] /\ timeouts = 0 /\ answer = [c \in Clients |-> "none yet"]
  BY DEF Init, RequestInit
<1>2. Free = Slot(None, None, "free", None, None)
  BY DEF Free, Slot
<1>3. SlotsOK
  <2>1. \A s \in Slots : req[s] = Slot(None, None, "free", None, None)
    BY <1>1, <1>2
  <2>2. req = [s \in Slots |-> req[s]]
    BY <1>1
  <2> QED
    BY <2>1, <2>2, SlotFields DEF SlotsOK
<1>4. PlanFits
  BY GatewayAssumption DEF Init, PlanFits
<1>5. OneAnswerEach
  BY <1>1, FreeSlot, RequestAssumption DEF OneAnswerEach, Waiting, Statuses
<1>6. Orphans = {}
  BY <1>1, FreeSlot DEF Orphans
<1>7. AnswerInv
  <2>1. \A s \in Slots : req[s].client = None
    BY <1>1, FreeSlot
  <2>2. answer = [c \in Clients |-> answer[c]]
    BY <1>1
  <2> QED
    BY <1>3, <1>4, <1>5, <2>1, <2>2 DEF AnswerInv
<1>8. OrphansFew
  <2>1. Cardinality(Orphans) = 0
    BY <1>6, FS_EmptySet
  <2>2. timeouts = 0
    BY <1>1
  <2>3. 0 \in 0..MaxTimeouts
    BY RequestAssumption
  <2> QED
    BY <2>1, <2>2, <2>3 DEF OrphansFew
<1> QED
  BY <1>7, <1>8

\* A step after which every handler works for whom it worked for.
LEMMA SameClients ==
    ASSUME AnswerInv, SlotsOK', active' = active, answer' = answer,
           \A s \in Slots : /\ req'[s].client = req[s].client
                            /\ req'[s].pc = "free" <=> req[s].pc = "free"
    PROVE  AnswerInv' /\ Orphans' = Orphans
<1>1. \A c : Waiting(c)' <=> Waiting(c)
  BY DEF Waiting
<1>2. OneAnswerEach'
  BY <1>1 DEF AnswerInv, OneAnswerEach
<1>3. Orphans' = Orphans
  BY DEF Orphans, Orphan
<1> QED
  BY <1>2, <1>3 DEF AnswerInv, PlanFits

LEMMA ToldOne ==
    ASSUME answer = [c \in Clients |-> answer[c]], NEW d \in Clients \cup {None}, NEW status,
           answer' = Told(d, status), None \notin Clients
    PROVE  /\ answer' = [c \in Clients |-> answer'[c]]
           /\ \A c \in Clients : answer'[c] = IF c = d THEN status ELSE answer[c]
  BY DEF Told

LEMMA ReplyAnswers ==
    ASSUME AnswerInv, active' = active, NEW t \in Slots, NEW status, status # None, Reply(t, status)
    PROVE  AnswerInv' /\ Orphans' \subseteq Orphans
<1> PICK d : d = req[t].client
  OBVIOUS
<1>1. /\ SlotsOK'
      /\ \A s \in Slots \ {t} : req'[s] = req[s]
      /\ req'[t] = Free
  BY ReplySlot DEF AnswerInv
<1>2. d \in Clients \cup {None} /\ None \notin Clients /\ answer' = Told(d, status)
  BY RequestAssumption DEF AnswerInv, PlanFits, Reply
<1>3. /\ answer' = [c \in Clients |-> answer'[c]]
      /\ \A c \in Clients : answer'[c] = IF c = d THEN status ELSE answer[c]
  BY <1>2, ToldOne DEF AnswerInv
<1>4. \A c \in Clients : Waiting(c)' <=> Waiting(c) /\ c # d
  BY <1>1, <1>2, FreeSlot DEF Waiting, AnswerInv, OneAnswerEach
<1>5. OneAnswerEach'
  <2>1. \A c \in Clients : answer'[c] = None <=> Waiting(c)'
    BY <1>3, <1>4 DEF AnswerInv, OneAnswerEach
  <2> QED
    BY <1>1, <2>1, FreeSlot DEF AnswerInv, OneAnswerEach
<1>6. Orphans' \subseteq Orphans
  BY <1>1, FreeSlot DEF Orphans
<1> QED
  BY <1>1, <1>3, <1>5, <1>6, FreeSlot DEF AnswerInv, PlanFits

LEMMA ExpireAnswers ==
    ASSUME AnswerInv, active' = active, NEW t \in Slots, Expire(t)
    PROVE  AnswerInv' /\ Orphans' \subseteq Orphans \cup {t}
<1> PICK d : d = req[t].client
  OBVIOUS
<1>1. /\ SlotsOK'
      /\ \A s \in Slots \ {t} : req'[s] = req[s]
      /\ req'[t].client = None /\ req'[t].pc = req[t].pc
  BY ExpireSlot, SlotFields DEF AnswerInv
<1>2. d \in Clients /\ None \notin Clients /\ answer' = Told(d, "408") /\ "408" # None
  BY RequestAssumption DEF AnswerInv, PlanFits, Expire, Statuses
<1>3. /\ answer' = [c \in Clients |-> answer'[c]]
      /\ \A c \in Clients : answer'[c] = IF c = d THEN "408" ELSE answer[c]
  BY <1>2, ToldOne DEF AnswerInv
<1>4. \A c \in Clients : Waiting(c)' <=> Waiting(c) /\ c # d
  BY <1>1, <1>2 DEF Waiting, AnswerInv, OneAnswerEach
<1>5. OneAnswerEach'
  <2>1. \A c \in Clients : answer'[c] = None <=> Waiting(c)'
    BY <1>2, <1>3, <1>4 DEF AnswerInv, OneAnswerEach
  <2> QED
    BY <1>1, <2>1 DEF AnswerInv, OneAnswerEach
<1>6. Orphans' \subseteq Orphans \cup {t}
  BY <1>1 DEF Orphans
<1> QED
  BY <1>1, <1>3, <1>5, <1>6 DEF AnswerInv, PlanFits

\* The slot a request is given was free.
LEMMA SendOne ==
    ASSUME SlotsOK, NEW c, NEW route, NEW agent, NEW data, Send(c, route, agent, data)
    PROVE  \E t \in FreeSlots :
               /\ \A s \in Slots \ {t} : req'[s] = req[s]
               /\ req'[t] = Slot(c, route, "sent", agent, data)
<1> PICK t : t = CHOOSE s \in FreeSlots : \A u \in FreeSlots : s <= u
  OBVIOUS
<1>1. FreeSlots # {} /\ FreeSlots \in SUBSET Nat
  BY RequestAssumption DEF Send, FreeSlots
<1>2. \E s \in FreeSlots : \A u \in FreeSlots : s <= u
  BY <1>1, Smallest
<1>3. t \in FreeSlots
  BY <1>2
<1> DEFINE new == Slot(c, route, "sent", agent, data)
<1>4. req' = [req EXCEPT ![t] = new]
  BY DEF Send, Slot
<1> HIDE DEF new
<1>5. t \in Slots
  BY <1>3 DEF FreeSlots
<1>6. req'[t] = new /\ \A s \in Slots \ {t} : req'[s] = req[s]
  BY <1>4, <1>5 DEF SlotsOK
<1> QED
  BY <1>3, <1>6 DEF new

LEMMA SendAnswers ==
    ASSUME AnswerInv, active' = active, NEW c \in active, NEW route, NEW agent, NEW data,
           Send(c, route, agent, data)
    PROVE  AnswerInv' /\ Orphans' = Orphans
<1>1. PICK t \in FreeSlots : /\ \A s \in Slots \ {t} : req'[s] = req[s]
                             /\ req'[t] = Slot(c, route, "sent", agent, data)
  BY SendOne DEF AnswerInv
<1>2. t \in Slots /\ req[t].pc = "free" /\ req[t].client = None
  BY DEF FreeSlots, AnswerInv
<1>3. req'[t].client = c /\ req'[t].pc = "sent" /\ SlotsOK'
  BY <1>1, SlotFields, SendSlot DEF AnswerInv
<1>4. c \in Clients /\ None \notin Clients /\ ~Waiting(c) /\ answer' = [answer EXCEPT ![c] = None]
  BY RequestAssumption DEF AnswerInv, PlanFits, Send
<1>5. /\ answer' = [e \in Clients |-> answer'[e]]
      /\ \A e \in Clients : answer'[e] = IF e = c THEN None ELSE answer[e]
  BY <1>4 DEF AnswerInv
<1>6. \A e \in Clients : Waiting(e)' <=> Waiting(e) \/ e = c
  BY <1>1, <1>2, <1>3, <1>4 DEF Waiting
<1>7. OneAnswerEach'
  <2>1. \A e \in Clients : answer'[e] = None <=> Waiting(e)'
    BY <1>5, <1>6 DEF AnswerInv, OneAnswerEach
  <2>2. \A s \in Slots \ {t} : req[s].client # c
    BY <1>4 DEF Waiting
  <2>3. ASSUME NEW s \in Slots, NEW u \in Slots, req'[s].client # None, req'[s].client = req'[u].client
        PROVE  s = u
    BY <1>1, <1>3, <2>2, <2>3 DEF AnswerInv, OneAnswerEach
  <2> QED
    BY <2>1, <2>3 DEF OneAnswerEach
<1>8. Orphans' = Orphans
  BY <1>1, <1>2, <1>3, <1>4 DEF Orphans, Orphan
<1>9. \A s \in Slots : /\ req'[s].client \in active \cup {None}
                       /\ req'[s].pc = "free" => req'[s].client = None
  BY <1>1, <1>3 DEF AnswerInv
<1> QED
  BY <1>3, <1>5, <1>7, <1>8, <1>9 DEF AnswerInv, PlanFits

LEMMA DieAnswers ==
    ASSUME AnswerInv, active' = active, Die
    PROVE  AnswerInv' /\ Orphans' = {}
<1>1. SlotsOK' /\ \A s \in Slots : req'[s] = Free
  BY DieSlot
<1>2. answer' = [c \in Clients |-> answer'[c]]
  BY DEF Die
<1>3. \A c \in Clients : answer'[c] # None
  <2> SUFFICES ASSUME NEW c \in Clients PROVE answer'[c] # None
    OBVIOUS
  <2>1. "lost" # None
    BY RequestAssumption DEF Statuses
  <2>2. answer'[c] = IF Waiting(c) THEN "lost" ELSE answer[c]
    BY DEF Die
  <2> QED
    BY <2>1, <2>2 DEF AnswerInv, OneAnswerEach
<1>4. OneAnswerEach'
  BY <1>1, <1>3, FreeSlot, RequestAssumption DEF OneAnswerEach, Waiting
<1> QED
  BY <1>1, <1>2, <1>4, FreeSlot DEF AnswerInv, PlanFits, Orphans

LEMMA SlotsFinite == IsFiniteSet(Orphans) /\ Cardinality(Orphans) \in Nat
  BY RequestAssumption, FS_Subset, FS_CardinalityType DEF Orphans

LEMMA AnswersStep == AnswerInv /\ OrphansFew /\ [Next]_vars => (AnswerInv /\ OrphansFew)'
<1> SUFFICES ASSUME AnswerInv, OrphansFew, [Next]_vars PROVE (AnswerInv /\ OrphansFew)'
  OBVIOUS
<1>1. \A O \in SUBSET Orphans : Cardinality(O) <= Cardinality(Orphans)
  BY SlotsFinite, FS_Subset
<1>2. ASSUME AnswerInv', Orphans' \subseteq Orphans, timeouts' = timeouts
      PROVE  (AnswerInv /\ OrphansFew)'
  <2>1. Cardinality(Orphans') <= Cardinality(Orphans) /\ Cardinality(Orphans') \in Nat
    BY <1>1, <1>2, SlotsFinite, FS_Subset, FS_CardinalityType
  <2> QED
    BY <1>2, <2>1, SlotsFinite, RequestAssumption DEF OrphansFew
<1>3. active' = active
  BY AnswerSteps
<1>4. ASSUME NEW t \in Slots, Expire(t) PROVE (AnswerInv /\ OrphansFew)'
  <2>1. AnswerInv' /\ Orphans' \subseteq Orphans \cup {t}
    BY <1>3, <1>4, ExpireAnswers
  <2>2. IsFiniteSet(Orphans \cup {t}) /\ Cardinality(Orphans \cup {t}) <= Cardinality(Orphans) + 1
    BY SlotsFinite, FS_AddElement
  <2>3. Cardinality(Orphans \cup {t}) \in Nat
    BY <2>2, FS_CardinalityType
  <2>4. Cardinality(Orphans') <= Cardinality(Orphans \cup {t}) /\ Cardinality(Orphans') \in Nat
    BY <2>1, <2>2, FS_Subset, FS_CardinalityType
  <2>5. timeouts < MaxTimeouts /\ timeouts' = timeouts + 1
    BY <1>4 DEF Expire
  <2> QED
    BY <2>1, <2>2, <2>3, <2>4, <2>5, SlotsFinite, RequestAssumption DEF OrphansFew
<1>5. CASE timeouts' = timeouts /\ UNCHANGED <<req, answer>>
  <2>1. AnswerInv' /\ Orphans' = Orphans
    BY <1>3, <1>5, SameClients DEF AnswerInv, SlotsOK
  <2> QED
    BY <1>2, <1>5, <2>1
<1>6. ASSUME timeouts' = timeouts, NEW k, Become(k) PROVE (AnswerInv /\ OrphansFew)'
  <2>1. \A s \in Slots : req'[s].client = req[s].client /\ req'[s].pc = req[s].pc
    BY <1>6, BecomeSlot DEF AnswerInv
  <2>2. SlotsOK' /\ answer' = answer
    BY <1>6, BecomeSlots DEF AnswerInv, Become
  <2>3. AnswerInv' /\ Orphans' = Orphans
    BY <1>3, <2>1, <2>2, SameClients
  <2> QED
    BY <1>2, <1>6, <2>3
<1>7. ASSUME timeouts' = timeouts, NEW t \in Slots, Answers(t) PROVE (AnswerInv /\ OrphansFew)'
  <2>1. PICK status : status # None /\ Reply(t, status)
    BY <1>7 DEF Answers
  <2>2. AnswerInv' /\ Orphans' \subseteq Orphans
    BY <1>3, <2>1, ReplyAnswers
  <2> QED
    BY <1>2, <1>7, <2>2
<1>8. ASSUME timeouts' = timeouts, NEW t \in Slots, Goes(t) PROVE (AnswerInv /\ OrphansFew)'
  <2>1. PICK pc, d : pc # "free" /\ GoOn(t, pc, d)
    BY <1>8 DEF Goes
  <2>2. /\ SlotsOK' /\ answer' = answer
        /\ \A s \in Slots \ {t} : req'[s] = req[s]
        /\ req'[t].client = req[t].client /\ req'[t].pc = pc
    <3>1. /\ SlotsOK' /\ \A s \in Slots \ {t} : req'[s] = req[s]
          /\ req'[t] = Slot(req[t].client, req[t].route, pc, req[t].agent, d)
      BY <2>1, GoOnSlot DEF AnswerInv
    <3>2. answer' = answer
      BY <2>1 DEF GoOn
    <3> QED
      BY <3>1, <3>2, SlotFields
  <2>3. req[t].pc # "free"
    BY <1>8 DEF Goes
  <2>4. AnswerInv' /\ Orphans' = Orphans
    BY <1>3, <2>1, <2>2, <2>3, SameClients
  <2> QED
    BY <1>2, <1>8, <2>4
<1>9. ASSUME timeouts' = timeouts, NEW c \in active, NEW route, NEW agent, NEW d, Send(c, route, agent, d)
      PROVE  (AnswerInv /\ OrphansFew)'
  <2>1. AnswerInv' /\ Orphans' = Orphans
    BY <1>3, <1>9, SendAnswers
  <2> QED
    BY <1>2, <1>9, <2>1
<1>10. CASE timeouts' = timeouts /\ Die
  <2>1. AnswerInv' /\ Orphans' = {}
    BY <1>3, <1>10, DieAnswers
  <2> QED
    BY <1>2, <1>10, <2>1
<1> QED
  BY <1>4, <1>5, <1>6, <1>7, <1>8, <1>9, <1>10, AnswerSteps

\* Every request is answered once, however many handlers run, time out and die.
THEOREM OneAnswer == Spec => []OneAnswerEach
<1>1. AnswerInv => OneAnswerEach
  BY DEF AnswerInv
<1> QED
  BY <1>1, AnswersInit, AnswersStep, PTL DEF Spec

\* The bound on the slots leaves out no behaviour: whoever waits for nothing finds a free one.
SlotsSuffice == \A c \in active : ~Waiting(c) => FreeSlots # {}

LEMMA EnoughSlots == AnswerInv /\ OrphansFew => SlotsSuffice
<1> SUFFICES ASSUME AnswerInv, OrphansFew, NEW c \in active, ~Waiting(c), FreeSlots = {} PROVE FALSE
  BY DEF SlotsSuffice
<1> DEFINE Busy == {s \in Slots : req[s].client # None}
           f == [s \in Busy |-> req[s].client]
<1>1. Slots = Orphans \cup Busy
  BY DEF FreeSlots, Orphans, Orphan
<1>2. f \in [Busy -> active \ {c}]
  BY DEF AnswerInv, Waiting
<1>3. \A s, t \in Busy : f[s] = f[t] => s = t
  BY DEF AnswerInv, OneAnswerEach
<1>4. IsFiniteSet(Busy) /\ Cardinality(Busy) \in Nat
  BY RequestAssumption, FS_Subset, FS_CardinalityType
<1>5. /\ IsFiniteSet(active \ {c}) /\ Cardinality(active \ {c}) = Cardinality(active) - 1
      /\ Cardinality(active) \in Nat /\ Cardinality(active \ {c}) \in Nat
  BY FS_RemoveElement, FS_CardinalityType DEF AnswerInv, PlanFits
<1> HIDE DEF f
<1>6. ~(Cardinality(active \ {c}) < Cardinality(Busy))
  <2> HIDE DEF Busy
  <2> QED
    BY <1>2, <1>3, <1>4, <1>5, FS_PigeonHole
<1> HIDE DEF Busy
<1>7. Cardinality(Orphans \cup Busy) = Cardinality(Orphans) + Cardinality(Busy) - Cardinality(Orphans \cap Busy)
  BY <1>4, SlotsFinite, FS_Union
<1>8. Cardinality(Orphans \cap Busy) \in Nat
  BY <1>4, FS_Subset, FS_CardinalityType
<1>9. Cardinality(Slots) <= Cardinality(Orphans) + Cardinality(Busy)
  BY <1>1, <1>4, <1>7, <1>8, SlotsFinite
<1>10. Cardinality(Orphans) <= MaxTimeouts
  BY SlotsFinite, RequestAssumption DEF OrphansFew
<1>11. Cardinality(active) + MaxTimeouts <= Cardinality(Slots) /\ Cardinality(Slots) \in Nat
  BY RequestAssumption, FS_CardinalityType DEF AnswerInv, PlanFits
<1> QED
  BY <1>4, <1>5, <1>6, <1>9, <1>10, <1>11, SlotsFinite, RequestAssumption

\* Slots bounds no behaviour: a client that waits for nothing always finds a free slot for
\* its next request, whatever the handlers it was not answered by are still doing.
THEOREM SlotsAreEnough == Spec => []SlotsSuffice
  BY AnswersInit, AnswersStep, EnoughSlots, PTL DEF Spec
=============================================================================
