---------------------------- MODULE CentralSchema ----------------------------
(***************************************************************************)
(* The tables of the central server (apps/server/lib/db/schema.ts): what a *)
(* row of each may be (column types, NULLs, CHECKs), which columns identify *)
(* it, and which statements the role the server connects as may run on it  *)
(* (lib/db/migrate.ts and the GRANTs of the migrations).                   *)
(*                                                                         *)
(* A timestamp is the day it falls on; money and token counts are natural  *)
(* numbers in units small enough to be exact; identifiers are members of   *)
(* the sets below.  Columns no property tells apart are left out.          *)
(***************************************************************************)
EXTENDS Optional, Integers, FiniteSets

CONSTANTS
  Orgs, Teams, Users,
  TeamOrg,        \* TeamOrg[t]: the organisation of a team
  OrgOf,          \* OrgOf[u]: the organisation of a user
  TeamOf,         \* TeamOf[u]: the team of a user, or None
  Sessions        \* session ids

ASSUME SchemaAssumption ==
  /\ TeamOrg \in [Teams -> Orgs]
  /\ OrgOf \in [Users -> Orgs]
  /\ TeamOf \in [Users -> Teams \cup {None}]
  /\ None \notin Orgs \cup Teams \cup Users \cup Sessions

VARIABLE role     \* the role of the server's connections: "owner" or "app_runtime"

Roles == {"owner", "app_runtime"}
Nullable(S) == S \cup {None}

-----------------------------------------------------------------------------
(* The rows of each table.                                                  *)

UserRoles == {"member", "manager", "admin"}
OrgRow == [id : Orgs]
TeamRow == [id : Teams, org : Orgs]
UserRow == [id : Users, org : Orgs, team : Nullable(Teams), role : UserRoles,
            departed : BOOLEAN]
Provenances == {"manual-token", "sso-auto", "pre-v2-unknown"}
MachineRow == [user : Users, key : Nat, createdOn : Int, revoked : BOOLEAN,
               via : Provenances]
SessionRow == [user : Users, session : Sessions, startedOn : Int,
               input : Nat, output : Nat, cacheRead : Nat, cacheCreation : Nat,
               cost : Int, otelCost : Nullable(Nat), turns : Nat,
               rating : Nullable(-1 .. 1),
               hit : Nullable(Int), outIn : Nullable(Int), subagent : Nullable(Int),
               project : STRING]
ModelRow == [user : Users, session : Sessions, model : STRING,
             input : Nat, output : Nat, cost : Int]
ToolRow == [user : Users, session : Sessions, tool : STRING, count : Nat]
CalibrationRow == [user : Users, family : STRING, rate : Nat, samples : Nat,
                   otel : Nat, local : Nat]
IngestionRow == [user : Nullable(Users), receivedOn : Int, ip : BOOLEAN,
                 accepted : Nat, skipped : Nat, rejected : Nat]
OutcomeRow == [user : Users, session : Sessions, commits : Nullable(Nat),
               added : Nullable(Nat), removed : Nullable(Nat),
               reverts : Nullable(Nat), merged : Nullable(Nat),
               status : Nullable(STRING)]

ManualOutcomes == {"accepted", "token-invalid", "token-expired", "token-revoked",
  "token-exhausted", "email-mismatch", "rate-limited", "validation-error", "infra-error"}
SsoOutcomes == {"accepted-sso-auto", "rejected-public-domain",
  "rejected-multiple-matches", "rejected-no-match", "rejected-race", "rejected-csrf",
  "rejected-replay", "rejected-cross-idp", "rejected-pre-existing-binding",
  "email-not-verified"}
AuditActions == {"invite-created", "invite-revoked", "machine-revoked", "user-offboarded"}
InviteRow == [prefix : STRING, org : Orgs, team : Nullable(Teams),
              pattern : Nullable(STRING), maxUses : Nat \ {0}, used : Nat,
              createdOn : Int, expiresOn : Int, revoked : BOOLEAN,
              createdBy : Nullable(Users)]
RedemptionRow == [id : Nat, prefix : STRING, user : Nullable(Users),
                  outcome : ManualOutcomes \cup SsoOutcomes,
                  method : {"manual-token", "sso-auto"}, receivedOn : Int]
AuditRow == [id : Nat, org : Orgs, actor : Nullable(Users), action : AuditActions,
             target : STRING, occurredOn : Int]
AuthEventRow == [provider : STRING, email : STRING, outcome : SsoOutcomes,
                 occurredOn : Int]

DrilldownReasons == {"training-check", "quota-investigation", "cost-investigation", "other"}
AnomalyKinds == {"spend-spike-30d", "spend-spike-wow", "dropoff-wow", "knowledge-sharing"}
RunStatuses == {"running", "ok", "failed"}
TeamMetricsRow == [org : Orgs, team : Teams, day : Int,
                   hit : Nullable(Int), goodPct : Nullable(Int),
                   subagentPct : Nullable(Int), composite : Nullable(Int),
                   sessions : Nat, devs : Nat]
TeamOutcomesRow == [org : Orgs, team : Teams, day : Int, commits : Nat,
                    added : Nat, removed : Nat, reverts : Nat,
                    merged : Nullable(Nat), tokens : Nat, cost : Int, sessions : Nat]
DrilldownRow == [manager : Users, target : Users, reason : DrilldownReasons,
                 reasonText : BOOLEAN, ip : BOOLEAN, day : Int]
AnomalyRow == [org : Orgs, team : Teams, target : Users, kind : AnomalyKinds, day : Int]
DismissalRow == [org : Orgs, manager : Users, target : Users, kind : AnomalyKinds,
                 on : Int, until : Int]
OrgSettingsRow == [org : Orgs, notify : BOOLEAN]
CronRow == [job : STRING, day : Int, status : RunStatuses]
NotificationRow == [target : Users, day : Int, reason : DrilldownReasons]
AckRow == [manager : Users, event : Nat]

-----------------------------------------------------------------------------
(* Primary keys and UNIQUE constraints.                                     *)

UniqueIn(rows, Key(_)) == \A r, s \in rows : Key(r) = Key(s) => r = s

SessionKey(r) == <<r.user, r.session>>
ModelKey(r) == <<r.user, r.session, r.model>>
ToolKey(r) == <<r.user, r.session, r.tool>>
CalibrationKey(r) == <<r.user, r.family>>
TeamDayKey(r) == <<r.org, r.team, r.day>>
DrilldownKey(r) == <<r.manager, r.target, r.day, r.reason>>
DismissalKey(r) == <<r.org, r.manager, r.target, r.kind>>

(* An invite a pattern makes available to sign-ins lives at most so long. *)
SsoInviteDays == 180
InviteChecks(i) == i.pattern = None \/ i.expiresOn <= i.createdOn + SsoInviteDays

-----------------------------------------------------------------------------
(* Privileges.                                                              *)

AUDIT_TABLES_APPEND_ONLY ==
  {"auth_event_log", "onboarding_redemption_log", "onboarding_audit_log"}

(* What the role may not do.  The drill-down audit lets app_runtime update    *)
(* two columns only; reason_text is not one of them.                         *)
MayDelete(table) ==
  \/ role = "owner"
  \/ table \notin AUDIT_TABLES_APPEND_ONLY \cup {"manager_drilldown_audit"}
MayUpdate(table) == role = "owner" \/ table \notin AUDIT_TABLES_APPEND_ONLY
MayUpdateDrilldown(column) == role = "owner" \/ column \in {"viewed_at", "ip_address_trunc"}
=============================================================================
