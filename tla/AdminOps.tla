------------------------------ MODULE AdminOps ------------------------------
(***************************************************************************)
(* What administrators and managers do to rows of the server: revoke a     *)
(* machine (lib/queries/machines.ts), offboard a user (offboard.ts), change *)
(* a role (app/manager/admin/users/actions.ts), open a developer's page     *)
(* (app/manager/_drilldown/render.tsx), dismiss an anomaly                 *)
(* (manager-dismissed.ts) and acknowledge an alert (manager-alerts.ts);     *)
(* beside the redeems that give a machine to an account that exists.        *)
(*                                                                         *)
(* Transactions run at READ COMMITTED: what one read may have changed when  *)
(* it writes.  A transaction's writes and its commit are one step, since it *)
(* holds the locks of its first write until then.  Any step may fail.      *)
(***************************************************************************)
EXTENDS CentralSchema

CONSTANTS
  AdminCalls,          \* requests: [n, op, by, on, with]
  AdminSchedules,      \* the sets of requests that may come together
  Keys, KeyOwner,      \* machine keys, and the user each is for
  PrefixOf,            \* the eight characters of a key that a request names
  FirstRoles,          \* the roles of the users at first
  LiveAtFirst,         \* the keys that exist at first
  AutoEvents, EventOrg, EventOn,  \* auto-provisions logged: their org and day
  NotifyOff,           \* the organisations that turned notifications off
  DismissDays, BannerDays, AdminDays   \* the last: how many days go by

Operations == {"revoke", "offboard", "role", "drilldown", "dismiss", "ack", "redeem"}

ASSUME AdminAssumption ==
  /\ \A c \in AdminCalls : c.op \in Operations
  /\ AdminSchedules \subseteq SUBSET AdminCalls
  /\ KeyOwner \in [Keys -> Users] /\ LiveAtFirst \subseteq Keys
  /\ FirstRoles \in [Users -> UserRoles]
  /\ EventOrg \in [AutoEvents -> Orgs] /\ EventOn \in [AutoEvents -> Nat]
  /\ NotifyOff \subseteq Orgs
  /\ {DismissDays, BannerDays, AdminDays} \subseteq Nat /\ AdminDays >= 1

(* What a request names: the session's user, a user by its id (an id that     *)
(* does not exist is answered like one that departed), a role of the form's    *)
(* enum; a redeem mints a key of its own (key_id is UNIQUE), for the account   *)
(* it finds.                                                                *)
ASSUME RequestsAssumption ==
  /\ \A c \in AdminCalls : c.op # "redeem" => c.by \in Users
  /\ \A c \in AdminCalls : c.op \notin {"revoke", "ack"} => c.on \in Users
  /\ \A c \in AdminCalls : c.op = "role" => c.with \in UserRoles
  /\ \A c \in AdminCalls : c.op = "redeem" =>
       c.with \in Keys \ LiveAtFirst /\ KeyOwner[c.with] = c.on
  /\ \A c, d \in AdminCalls :
       c.op = "redeem" /\ d.op = "redeem" /\ c.with = d.with => c = d

VARIABLES
  asked,          \* the requests of this behaviour
  day,
  accounts,       \* accounts[u]: the role of a user, and whether it was anonymised
  machines,       \* machines[k]: "none", "live" or "revoked"
  lateKeys,       \* the keys a redeem had under way for a user that departed
  adminAudit,     \* the requests that left a row of onboarding_audit_log
  revokedBy,      \* history: the request whose UPDATE revoked a key
  departedBy,     \* history: the request whose UPDATE anonymised a user
  overtaken,      \* history: the requests whose target changed after they read it
  drilldowns,     \* rows of manager_drilldown_audit
  notified,       \* rows of manager_notifications: the request behind each
  shown,          \* the requests answered with a developer's data
  dismissals, acks,
  adminCalls,     \* adminCalls[c]: where a request is
  found           \* found[c]: the key a revocation has read

accountVars == <<accounts, machines, lateKeys>>
auditVars == <<adminAudit, revokedBy, departedBy, overtaken>>
viewVars == <<drilldowns, notified, shown>>
alertVars == <<dismissals, acks>>
adminVars == <<role, asked, day, accountVars, auditVars, viewVars, alertVars, adminCalls, found>>

AdminInit ==
  /\ role \in Roles /\ asked \in AdminSchedules
  /\ day = 1
  /\ accounts = [u \in Users |-> [role |-> FirstRoles[u], departed |-> FALSE]]
  /\ machines = [k \in Keys |-> IF k \in LiveAtFirst THEN "live" ELSE "none"]
  /\ lateKeys = {}
  /\ adminAudit = {} /\ overtaken = {}
  /\ revokedBy = [k \in Keys |-> None] /\ departedBy = [u \in Users |-> None]
  /\ drilldowns = {} /\ notified = {} /\ shown = {}
  /\ dismissals = {} /\ acks = {}
  /\ adminCalls = [c \in AdminCalls |-> "idle"]
  /\ found = [c \in AdminCalls |-> None]

-----------------------------------------------------------------------------
AdminAt(c, pc) == adminCalls[c] = pc
AdminGoto(c, pc) == adminCalls' = [adminCalls EXCEPT ![c] = pc]
SameOrg(u, v) == OrgOf[u] = OrgOf[v]

(* The token of a session is filled from the row of its address at every     *)
(* request: an anonymised user has no row, a changed role counts at once.    *)
SessionRole(u) == IF accounts[u].departed THEN None ELSE accounts[u].role
Manages(u) == SessionRole(u) \in {"manager", "admin"}

(* What each entry point asks of the session before its first statement.     *)
RevokeAllowed(c) == SessionRole(c.by) = "admin"
RoleChangeAllowed(c) == SessionRole(c.by) = "admin"
OffboardAllowed(c) == SessionRole(c.by) = "admin" /\ c.by # c.on
DrilldownAllowed(c) == Manages(c.by) /\ c.with \in DrilldownReasons
DismissAllowed(c) == Manages(c.by)
AckAllowed(c) == Manages(c.by)

Allowed(c) ==
  CASE c.op = "revoke" -> RevokeAllowed(c)
    [] c.op = "role" -> RoleChangeAllowed(c)
    [] c.op = "offboard" -> OffboardAllowed(c)
    [] c.op = "drilldown" -> DrilldownAllowed(c)
    [] c.op = "dismiss" -> DismissAllowed(c)
    [] c.op = "ack" -> AckAllowed(c)

Authorise(c) ==
  /\ c \in asked /\ AdminAt(c, "idle") /\ c.op # "redeem"
  /\ AdminGoto(c, IF Allowed(c) THEN "allowed" ELSE "refused")
  /\ UNCHANGED <<role, asked, day, found, accountVars, auditVars, viewVars, alertVars>>

(* A statement fails, or the connection: the transaction is rolled back.     *)
AdminFail(c) ==
  /\ adminCalls[c] \in {"allowed", "read"}
  /\ AdminGoto(c, "failed")
  /\ UNCHANGED <<role, asked, day, found, accountVars, auditVars, viewVars, alertVars>>

-----------------------------------------------------------------------------
(* revokeMachineCore.                                                       *)

(* Mutant of MatchingKeys: the organisation is not compared. *)
MatchingKeysAnywhere(c) == {k \in Keys : machines[k] # "none" /\ PrefixOf[k] = c.on}

MatchingKeys(c) ==
  {k \in Keys : /\ machines[k] # "none" /\ PrefixOf[k] = c.on
                /\ SameOrg(KeyOwner[k], c.by)}

(* Mutant of FindMachine: a revoked key is revoked again. *)
FindAnyMachine(c) ==
  /\ AdminAt(c, "allowed") /\ c.op = "revoke"
  /\ \/ \E k \in Keys : /\ MatchingKeys(c) = {k}
                        /\ found' = [found EXCEPT ![c] = k] /\ AdminGoto(c, "read")
     \/ /\ ~\E k \in Keys : MatchingKeys(c) = {k}
        /\ AdminGoto(c, "done") /\ UNCHANGED found
  /\ UNCHANGED <<role, asked, day, accountVars, auditVars, viewVars, alertVars>>

(* No key of the organisation, more than one, or one that is revoked: done.  *)
FindMachine(c) ==
  /\ AdminAt(c, "allowed") /\ c.op = "revoke"
  /\ \/ \E k \in Keys : /\ MatchingKeys(c) = {k} /\ machines[k] = "live"
                        /\ found' = [found EXCEPT ![c] = k] /\ AdminGoto(c, "read")
     \/ /\ ~\E k \in Keys : MatchingKeys(c) = {k} /\ machines[k] = "live"
        /\ AdminGoto(c, "done") /\ UNCHANGED found
  /\ UNCHANGED <<role, asked, day, accountVars, auditVars, viewVars, alertVars>>

(* An UPDATE of user_machines WHERE revoked_at IS NULL, and who overtakes whom. *)
Live(ks) == {k \in ks : machines[k] = "live"}
RevokeKeys(c, ks) ==
  /\ machines' = [k \in Keys |-> IF k \in Live(ks) THEN "revoked" ELSE machines[k]]
  /\ revokedBy' = [k \in Keys |-> IF k \in Live(ks) THEN c ELSE revokedBy[k]]
RevocationsOf(ks) == {d \in AdminCalls : d.op = "revoke" /\ AdminAt(d, "read") /\ found[d] \in ks}
DeparturesOf(u) == {d \in AdminCalls : d.op = "offboard" /\ AdminAt(d, "read") /\ d.on = u}

(* The UPDATE skips a key revoked meanwhile; the audit row is written anyway. *)
RevokeMachine(c) ==
  /\ AdminAt(c, "read") /\ c.op = "revoke"
  /\ RevokeKeys(c, {found[c]})
  /\ overtaken' = overtaken \cup (RevocationsOf(Live({found[c]})) \ {c})
  /\ adminAudit' = adminAudit \cup {c}
  /\ AdminGoto(c, "done")
  /\ UNCHANGED <<role, asked, day, found, accounts, lateKeys, departedBy, viewVars, alertVars>>

-----------------------------------------------------------------------------
(* offboardUserCore and updateUserRoleImpl.                                 *)

FindUser(c) ==
  /\ AdminAt(c, "allowed") /\ c.op = "offboard"
  /\ IF SameOrg(c.on, c.by) /\ ~accounts[c.on].departed
       THEN AdminGoto(c, "read") ELSE AdminGoto(c, "done")
  /\ UNCHANGED <<role, asked, day, found, accountVars, auditVars, viewVars, alertVars>>

(* Mutant of MachinesOf: the machines are not revoked. *)
NoMachinesOf(u) == {}

(* Everything in one transaction: a role that may not update the audit log,   *)
(* or the reason of a drill-down, has all of it rolled back.                 *)
MachinesOf(u) == {k \in Keys : KeyOwner[k] = u}
RedeemsUnderWay(u) ==
  {c \in AdminCalls : c.op = "redeem" /\ c.on = u /\ AdminAt(c, "read")}
OffboardUser(c) ==
  /\ AdminAt(c, "read") /\ c.op = "offboard"
  /\ IF MayUpdate("onboarding_audit_log") /\ MayUpdateDrilldown("reason_text")
       THEN /\ accounts' = [accounts EXCEPT ![c.on] = [role |-> "member", departed |-> TRUE]]
            /\ departedBy' = IF accounts[c.on].departed THEN departedBy
                                                       ELSE [departedBy EXCEPT ![c.on] = c]
            /\ RevokeKeys(c, MachinesOf(c.on))
            /\ overtaken' = overtaken \cup RevocationsOf(Live(MachinesOf(c.on)))
                                     \cup (DeparturesOf(c.on) \ {c})
            /\ lateKeys' = lateKeys \cup {r.with : r \in RedeemsUnderWay(c.on)}
            /\ drilldowns' = {IF r.target = c.on THEN [r EXCEPT !.reasonText = FALSE] ELSE r :
                                r \in drilldowns}
            /\ adminAudit' = adminAudit \cup {c}
            /\ AdminGoto(c, "done")
       ELSE AdminGoto(c, "failed") /\ UNCHANGED <<accountVars, drilldowns, auditVars>>
  /\ UNCHANGED <<role, asked, day, found, notified, shown, alertVars>>

(* One UPDATE; a user that is gone may be given a role.                      *)
UpdateUserRole(c) ==
  /\ AdminAt(c, "allowed") /\ c.op = "role"
  /\ accounts' = IF SameOrg(c.on, c.by) THEN [accounts EXCEPT ![c.on].role = c.with]
                                        ELSE accounts
  /\ AdminGoto(c, "done")
  /\ UNCHANGED <<role, asked, day, found, machines, lateKeys, auditVars, viewVars, alertVars>>

(* A redeem finds the account by its address, without a lock, and inserts a   *)
(* machine for it; the insert waits for an offboarding that holds the row.   *)
RedeemFindsUser(c) ==
  /\ c \in asked /\ AdminAt(c, "idle") /\ c.op = "redeem"
  /\ IF accounts[c.on].departed THEN AdminGoto(c, "done") ELSE AdminGoto(c, "read")
  /\ UNCHANGED <<role, asked, day, found, accountVars, auditVars, viewVars, alertVars>>
RedeemInsertsMachine(c) ==
  /\ AdminAt(c, "read") /\ c.op = "redeem"
  /\ machines' = [machines EXCEPT ![c.with] = "live"]
  /\ AdminGoto(c, "done")
  /\ UNCHANGED <<role, asked, day, found, accounts, lateKeys, auditVars, viewVars, alertVars>>

-----------------------------------------------------------------------------
(* loadDrilldownData.                                                       *)

(* The developer's row must be of the manager's organisation.               *)
FindDeveloper(c) ==
  /\ AdminAt(c, "allowed") /\ c.op = "drilldown"
  /\ IF SameOrg(c.on, c.by)
       THEN AdminGoto(c, "read") ELSE AdminGoto(c, "refused")
  /\ UNCHANGED <<role, asked, day, found, accountVars, auditVars, viewVars, alertVars>>

(* The audit row and the data in one transaction.  A second view of the same  *)
(* developer, for the same reason, on the same day refreshes the row.        *)
DrilldownOf(c) ==
  [manager |-> c.by, target |-> c.on, reason |-> c.with, reasonText |-> c.with = "other",
   ip |-> TRUE, day |-> day]

(* Mutant of Audited: the reason is not in the key. *)
AuditedForAnyReason(c) ==
  \E r \in drilldowns : r.manager = c.by /\ r.target = c.on /\ r.day = day

Audited(c) == \E r \in drilldowns : DrilldownKey(r) = DrilldownKey(DrilldownOf(c))
ViewDeveloper(c) ==
  /\ AdminAt(c, "read") /\ c.op = "drilldown"
  /\ shown' = shown \cup {c}
  /\ IF Audited(c)
       THEN UNCHANGED drilldowns /\ AdminGoto(c, "done")
       ELSE /\ drilldowns' = drilldowns \cup {DrilldownOf(c)}
            /\ AdminGoto(c, IF OrgOf[c.by] \in NotifyOff THEN "done" ELSE "after")
  /\ UNCHANGED <<role, asked, day, found, accountVars, auditVars, notified, alertVars>>

(* After the answer, the developer is notified; a failure is swallowed.      *)
NotifyDeveloper(c) ==
  /\ AdminAt(c, "after")
  /\ \/ notified' = notified \cup {c}
     \/ UNCHANGED notified
  /\ AdminGoto(c, "done")
  /\ UNCHANGED <<role, asked, day, found, accountVars, auditVars, drilldowns, shown, alertVars>>

-----------------------------------------------------------------------------
(* performDismissAnomaly, acknowledgeAlert and the alert they answer.        *)

DismissalOf(c) ==
  [org |-> OrgOf[c.by], manager |-> c.by, target |-> c.on, kind |-> c.with,
   on |-> day, until |-> day + DismissDays]
DismissAnomaly(c) ==
  /\ AdminAt(c, "allowed") /\ c.op = "dismiss"
  /\ IF SameOrg(c.on, c.by)
       THEN /\ dismissals' = {d \in dismissals : DismissalKey(d) # DismissalKey(DismissalOf(c))}
                               \cup {DismissalOf(c)}
            /\ AdminGoto(c, "done")
       ELSE UNCHANGED dismissals /\ AdminGoto(c, "refused")
  /\ UNCHANGED <<role, asked, day, found, accountVars, auditVars, viewVars, acks>>

AcknowledgeAlert(c) ==
  /\ AdminAt(c, "allowed") /\ c.op = "ack"
  /\ acks' = acks \cup [manager : {c.by}, event : {e \in AutoEvents \cap {c.on} :
                                                     EventOn[e] <= day /\ EventOrg[e] = OrgOf[c.by]}]
  /\ AdminGoto(c, "done")
  /\ UNCHANGED <<role, asked, day, found, accountVars, auditVars, viewVars, dismissals>>

(* The events of the last week that the manager has not acknowledged.        *)
FirstAutoProvisionAlert(m) ==
  {e \in AutoEvents : /\ EventOrg[e] = OrgOf[m]
                      /\ EventOn[e] <= day /\ EventOn[e] >= day - BannerDays
                      /\ [manager |-> m, event |-> e] \notin acks}

NextAdminDay ==
  /\ day < AdminDays
  /\ day' = day + 1
  /\ UNCHANGED <<role, asked, found, accountVars, auditVars, viewVars, alertVars, adminCalls>>

AdminStep(c) ==
  \/ Authorise(c) \/ AdminFail(c)
  \/ FindMachine(c) \/ RevokeMachine(c)
  \/ FindUser(c) \/ OffboardUser(c) \/ UpdateUserRole(c)
  \/ RedeemFindsUser(c) \/ RedeemInsertsMachine(c)
  \/ FindDeveloper(c) \/ ViewDeveloper(c) \/ NotifyDeveloper(c)
  \/ DismissAnomaly(c) \/ AcknowledgeAlert(c)

AdminNext == NextAdminDay \/ \E c \in AdminCalls : AdminStep(c)
AdminSpec == AdminInit /\ [][AdminNext]_adminVars

-----------------------------------------------------------------------------
(* Properties.                                                              *)

AdminTypeOK ==
  /\ role \in Roles /\ asked \in AdminSchedules /\ day \in 1 .. AdminDays
  /\ accounts \in [Users -> [role : UserRoles, departed : BOOLEAN]]
  /\ machines \in [Keys -> {"none", "live", "revoked"}] /\ lateKeys \subseteq Keys
  /\ {adminAudit, overtaken, notified, shown} \subseteq SUBSET AdminCalls
  /\ revokedBy \in [Keys -> Nullable(AdminCalls)]
  /\ departedBy \in [Users -> Nullable(AdminCalls)]
  /\ drilldowns \subseteq DrilldownRow
  /\ UniqueIn(drilldowns, DrilldownKey) /\ UniqueIn(dismissals, DismissalKey)
  /\ acks \subseteq [manager : Users, event : AutoEvents]
  /\ adminCalls \in [AdminCalls -> {"idle", "allowed", "read", "after", "done", "refused",
                                    "failed"}]
  /\ found \in [AdminCalls -> Nullable(Keys)]

(* A user that departed has no live key but one a redeem had under way when   *)
(* it departed (offboard.ts:141): the keys there were are all revoked with    *)
(* it, and no later redeem finds the account.                                *)
DepartedKeysAreLate ==
  \A k \in Keys : machines[k] = "live" /\ accounts[KeyOwner[k]].departed => k \in lateKeys

(* Audit and effect name each other: a key is revoked, and a user departed,   *)
(* by a request that left its row; and every row is of the request whose       *)
(* UPDATE changed the row it names, or of one that had read that row when      *)
(* another's UPDATE changed it, and no later one (machines.ts:140,           *)
(* offboard.ts:139).                                                        *)
AuditMatches ==
  /\ \A u \in Users : accounts[u].departed =>
       departedBy[u] \in adminAudit /\ departedBy[u].op = "offboard" /\ departedBy[u].on = u
  /\ \A k \in Keys : machines[k] = "revoked" =>
       /\ revokedBy[k] \in adminAudit
       /\ \/ revokedBy[k].op = "revoke" /\ found[revokedBy[k]] = k
          \/ revokedBy[k].op = "offboard" /\ revokedBy[k].on = KeyOwner[k]
  /\ \A c \in adminAudit :
       /\ c.op = "revoke" =>
            /\ machines[found[c]] = "revoked"
            /\ revokedBy[found[c]] = c \/ c \in overtaken
       /\ c.op = "offboard" =>
            accounts[c.on].departed /\ (departedBy[c.on] = c \/ c \in overtaken)

(* A key is revoked once and has one row that says so: a second revocation is   *)
(* a no-op (.specs/machine-revocation-ui.md:46, :86, :106).                  *)
OneRowPerRevocation ==
  \A c, d \in adminAudit :
    c.op = "revoke" /\ d.op = "revoke" /\ found[c] = found[d] => c = d

(* No developer's data is shown without a row that says who looked and why,   *)
(* however the views overlap, and a row is announced once at most            *)
(* (drilldown-audit.ts:108, render.tsx:319-387).                             *)
ViewsAreAudited ==
  /\ \A c \in shown : \E r \in drilldowns :
       r.manager = c.by /\ r.target = c.on /\ r.reason = c.with
  /\ notified \subseteq shown
  /\ Cardinality(notified) <= Cardinality(drilldowns)

(* Nobody acts on a row of another organisation (machines.ts:113,            *)
(* offboard.ts:143, manager-dismissed.ts:112, manager-alerts.ts:230).        *)
TenantsApart ==
  /\ \A c \in adminAudit : c.op = "revoke" =>
       \E k \in Keys : PrefixOf[k] = c.on /\ SameOrg(KeyOwner[k], c.by) /\ machines[k] = "revoked"
  /\ \A c \in adminAudit : c.op = "offboard" => SameOrg(c.on, c.by)
  /\ \A k \in Keys : machines[k] = "revoked" =>
       \E c \in adminAudit : SameOrg(KeyOwner[k], c.by)
  /\ \A r \in drilldowns : SameOrg(r.manager, r.target)
  /\ \A d \in dismissals : SameOrg(d.manager, d.target)
  /\ \A a \in acks : EventOrg[a.event] = OrgOf[a.manager]
=============================================================================
