----------------------------- MODULE Maintenance -----------------------------
(***************************************************************************)
(* The maintenance setting, the middleware that reads it for every route   *)
(* it is not excluded from, and the routes by which an administrator can   *)
(* end a maintenance: log in, refresh, find the setting by its name,       *)
(* update it.  A log-in, of an administrator who is not locked out, and a  *)
(* refresh are single steps here; LoginAttempt and Session detail them.    *)
(***************************************************************************)
EXTENDS Request, SettingValue

CONSTANTS Admin,      \* the administrator who wants maintenance to end
          Other,      \* one who stores what pleases them
          Offers,     \* what the other one stores
          MaxUpdates, \* bound: what happens to the setting besides
          MaxExpiries \* bound: times a token or the password expires

VARIABLES setting,  \* the row named maintenance, or None
          stored,     \* the number of rows of that name that there ever were
          updates,  \* the number of things that happened to it besides
          token,    \* the administrator's access token: None, "live" or "expired"
          known,    \* the id of the setting the administrator has found
          password, \* "live" or "expired"
          expiries  \* the number of times one of them expired

maintenanceVars == <<setting, stored, updates, token, known, password, expiries>>

ASSUME MaintenanceAssumption ==
    Offers \subseteq Setting

Stored(id, type, value) == [id |-> id, type |-> type, value |-> value]

\* The seed may not have been run: then there is no such row.
MaintenanceInit(s) ==
    /\ setting = IF s = None THEN None ELSE Stored(1, s.type, s.value)
    /\ stored = 1 /\ updates = 0 /\ expiries = 0
    /\ token = None /\ known = None /\ password = "live"

\* MaintenanceMiddleware: without the row, getValue throws a TypeError.
On == setting # None /\ Truthy(GetValue([type |-> setting.type, value |-> setting.value]))

CheckMaintenance(s) ==
    /\ req[s].pc = "maintenance"
    /\ \/ setting = None /\ Throw(s, Error)
       \/ On /\ Throw(s, "503")
       \/ setting # None /\ ~On /\ GoOn(s, "guards", req[s].data)
    /\ UNCHANGED <<timeouts, faults, maintenanceVars>>
-----------------------------------------------------------------------------
(* The administrator: what to send next, from what the answers said *)

NextRoute ==
    CASE token = None -> "login"
      [] token = "expired" -> "refresh"
      [] token = "live" /\ known = None -> "getSetting"
      [] OTHER -> "updateSetting"

Administer ==
    /\ On
    /\ Send(Admin, NextRoute, "known", [id |-> known, type |-> "BOOLEAN", value |-> "false"])
    /\ UNCHANGED maintenanceVars

\* The other one sends updates, with a token of their own, to the row there is.
Meddle ==
    \E o \in Offers :
        /\ updates < MaxUpdates /\ updates' = updates + 1
        /\ Send(Other, "updateSetting", "known", [id |-> stored, type |-> o.type, value |-> o.value])
        /\ UNCHANGED <<setting, stored, token, known, password, expiries>>

Expiry ==
    /\ expiries < MaxExpiries /\ expiries' = expiries + 1
    /\ \/ token = "live" /\ token' = "expired" /\ UNCHANGED password
       \/ password = "live" /\ password' = "expired" /\ UNCHANGED token
    /\ UNCHANGED <<setting, stored, updates, known, requestVars>>

\* The removal of the settings, and their seed: a unique name, a new id.
Remove ==
    /\ setting # None /\ updates < MaxUpdates /\ updates' = updates + 1
    /\ setting' = None
    /\ UNCHANGED <<stored, token, known, password, expiries, requestVars>>

Seed ==
    /\ setting = None
    /\ stored' = stored + 1
    /\ setting' = Stored(stored', "BOOLEAN", "false")
    /\ UNCHANGED <<updates, token, known, password, expiries, requestVars>>
-----------------------------------------------------------------------------
(* The handlers *)

\* A password that has expired is told of, and the tokens are handed out all the same.
Login(s) ==
    /\ At(s, "login", "guards")
    /\ token' = "live"
    /\ Reply(s, "200")
    /\ UNCHANGED <<timeouts, faults, setting, stored, updates, known, password, expiries>>

\* A refresh is refused when the password has expired, or the refresh token has: then
\* the administrator logs in again.
Refresh(s) ==
    /\ At(s, "refresh", "guards")
    /\ \/ token' = None /\ Throw(s, IF password = "expired" THEN "403" ELSE "401")
       \/ password = "live" /\ token' = "live" /\ Reply(s, "200")
    /\ UNCHANGED <<timeouts, faults, setting, stored, updates, known, password, expiries>>

\* SettingPutToRequestByNameGuard and SettingNotFoundGuard, then the row.
GetByName(s) ==
    /\ At(s, "getSetting", "guards")
    /\ \/ setting = None /\ Throw(s, "404") /\ UNCHANGED known
       \/ setting # None /\ known' = setting.id /\ Reply(s, "200")
    /\ UNCHANGED <<timeouts, faults, setting, stored, updates, token, password, expiries>>

\* The guards of the update: the token, then the row by its id.
FindSetting(s) ==
    LET mine == req[s].client = Admin
        there == setting # None /\ setting.id = req[s].data.id
    IN /\ At(s, "updateSetting", "guards")
       /\ \/ mine /\ token # "live" /\ Throw(s, "401") /\ UNCHANGED known
          \/ /\ ~mine \/ token = "live"
             /\ ~there
             /\ Throw(s, "404")
             /\ known' = IF mine THEN None ELSE known
          \/ /\ ~mine \/ token = "live"
             /\ there
             /\ GoOn(s, "handler", req[s].data)
             /\ UNCHANGED known
       /\ UNCHANGED <<timeouts, faults, setting, stored, updates, token, password, expiries>>

\* An update that would check the value against the type of the row as it is.
UpdateSettingAsIs(s) ==
    LET d == req[s].data
        type == IF setting = None THEN d.type ELSE setting.type
    IN /\ At(s, "updateSetting", "handler")
       /\ \/ ~CheckValue(d.value, type) /\ Throw(s, "400") /\ UNCHANGED setting
          \/ /\ CheckValue(d.value, type)
             /\ setting' = IF setting # None /\ setting.id = d.id
                             THEN Stored(d.id, d.type, d.value) ELSE setting
             /\ Reply(s, "200")
       /\ UNCHANGED <<timeouts, faults, stored, updates, token, known, password, expiries>>

\* SettingAdminController.update: the value is checked against the type sent with it, and
\* both are written at once, if the row is still there.
UpdateSetting(s) ==
    LET d == req[s].data
    IN /\ At(s, "updateSetting", "handler")
       /\ \/ ~CheckValue(d.value, d.type) /\ Throw(s, "400") /\ UNCHANGED setting
          \/ /\ CheckValue(d.value, d.type)
             /\ setting' = IF setting # None /\ setting.id = d.id
                             THEN Stored(d.id, d.type, d.value) ELSE setting
             /\ Reply(s, "200")
       /\ UNCHANGED <<timeouts, faults, stored, updates, token, known, password, expiries>>
-----------------------------------------------------------------------------
(* Properties *)

MaintenanceTypeOK ==
    /\ setting = None \/ setting \in [id: 1..stored, type: Types, value: Values]
    /\ token \in {None, "live", "expired"} /\ password \in {"live", "expired"}
    /\ known = None \/ known \in 1..stored

\* Whatever two administrators stored, in whatever order their requests were checked and
\* written: the value fits the type it is stored with, so that getValue returns what the
\* type says (SettingService.checkValue and updateOneById).
SettingFits == setting # None => CheckValue(setting.value, setting.type)
=============================================================================
