------------------------------- MODULE Gateway -------------------------------
(***************************************************************************)
(* The running program: the requests of /hello-api-key, of an              *)
(* administrator in a maintenance, and of users who upload their photo     *)
(* share the middlewares, the timeout and the process; ApiKeyService is    *)
(* called beside them.                                                     *)
(***************************************************************************)
EXTENDS ApiKeys, Maintenance, Upload

CONSTANTS Machines, \* the clients that hold API keys
          Plans     \* who is active in one behaviour, and what is stored when it starts

VARIABLE active \* the clients of this behaviour

vars == <<requestVars, keyVars, maintenanceVars, uploadVars, active>>

ASSUME GatewayAssumption ==
    /\ Machines \cup Uploaders \cup {Admin, Other} \subseteq Clients
    /\ \A plan \in Plans :
          /\ plan.active \subseteq Clients /\ IsFiniteSet(plan.active)
          /\ Cardinality(plan.active) + MaxTimeouts <= Cardinality(Slots)
          /\ \/ plan.setting = None
             \/ plan.setting \in Setting /\ CheckValue(plan.setting.value, plan.setting.type)

Init ==
    /\ RequestInit /\ UploadInit
    /\ \E plan \in Plans :
          /\ KeysInit(plan.seeded) /\ MaintenanceInit(plan.setting)
          /\ active = plan.active

Keys ==
    /\ active \cap Machines # {}
    /\ \/ \E t \in Callers : Create(t) \/ ResetWrite(t) \/ HandOut(t)
       \/ \E t \in Callers, key \in Issue : ResetRead(t, key)
       \/ CreateRaw \/ Switch
    /\ UNCHANGED <<maintenanceVars, uploadVars>>

Outside ==
    \/ \E c \in active \cap Machines : Hello(c) /\ UNCHANGED <<maintenanceVars, uploadVars>>
    \/ \E c \in active \cap Uploaders : SendUpload(c) /\ UNCHANGED <<keyVars, maintenanceVars>>
    \/ \E u \in active \cap Uploaders : DeleteUser(u) /\ UNCHANGED <<keyVars, maintenanceVars>>
    \/ Other \in active /\ (Meddle \/ Expiry \/ Remove \/ Seed) /\ UNCHANGED <<keyVars, uploadVars>>

Administrator == Admin \in active /\ Administer /\ UNCHANGED <<keyVars, uploadVars>>

Serve(s) ==
    \/ (Enter(s) \/ GiveUp(s)) /\ UNCHANGED <<keyVars, maintenanceVars, uploadVars>>
    \/ (FindKey(s) \/ Verify(s) \/ Greet(s)) /\ UNCHANGED <<maintenanceVars, uploadVars>>
    \/ /\ CheckMaintenance(s) \/ Login(s) \/ Refresh(s) \/ GetByName(s) \/ FindSetting(s) \/ UpdateSetting(s)
       /\ UNCHANGED <<keyVars, uploadVars>>
    \/ (FindUser(s) \/ Pipe(s) \/ Put(s) \/ Record(s)) /\ UNCHANGED <<keyVars, maintenanceVars>>

Timeout == \E s \in Slots : Expire(s) /\ UNCHANGED <<keyVars, maintenanceVars, uploadVars>>

Restart == Crash /\ TasksLost /\ UNCHANGED <<maintenanceVars, uploadVars>>

Next ==
    /\ \/ Keys \/ Outside \/ Administrator
       \/ \E s \in Slots : Serve(s)
       \/ Timeout \/ Restart
    /\ UNCHANGED active

\* A handler that runs is scheduled, clients give up on a request that hangs, and the
\* administrator tries again as long as maintenance is on.
Spec ==
    /\ Init /\ [][Next]_vars
    /\ \A s \in Slots : WF_vars(Serve(s) /\ UNCHANGED active)
    /\ WF_vars(Administrator /\ UNCHANGED active)

\* Types: the rows, the slots and the photos name what exists.
GatewayTypeOK ==
    /\ KeysTypeOK /\ MaintenanceTypeOK /\ UploadTypeOK
    /\ \A s \in Slots : req[s].route \in Routes \cup {None} /\ req[s].client \in Clients \cup {None}
    /\ timeouts \in 0..MaxTimeouts /\ faults \in 0..MaxFaults

\* A maintenance can be ended: an administrator who keeps trying, whose token may expire
\* whose password may expire and whose row may be removed and seeded again, while another
\* stores what pleases them, gets through to the update on routes the middleware leaves
\* alone (MiddlewareModule.configure).
MaintenanceEnds == On /\ Admin \in active ~> ~On
=============================================================================
