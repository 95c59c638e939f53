------------------------------ MODULE CronJobs ------------------------------
(***************************************************************************)
(* The scheduled jobs of the central server and their rows of cron_runs:   *)
(* the two daily rollups (lib/cron/manager-v2/aggregate-team-metrics.ts,   *)
(* lib/cron/manager-v3/aggregate-team-outcomes.ts), the anomaly detector   *)
(* (detect-anomalies.ts), the clean-up of IP addresses                     *)
(* (cleanup-audit-ips.ts) and the retention prune (retention-prune.ts),    *)
(* beside the reporters' pushes.                                           *)
(*                                                                         *)
(* A job commits statement by statement, and any two jobs, two runs of one *)
(* job and the pushes interleave between statements.  The statement of a   *)
(* rollup reads a snapshot when it starts and writes when it ends.  A      *)
(* session is its owner, its day and how many versions of it were pushed;  *)
(* a rollup row keeps the versions it was computed from, which its columns  *)
(* are a function of (ManagerViews).  The rows of the tables that only     *)
(* grow are the days they were written on.                                 *)
(***************************************************************************)
EXTENDS CentralSchema, ManagerMetrics, Sequences

CONSTANTS
  CronCalls, JobOf,   \* requests to the cron routes, and the job of each
  Schedules,          \* the sets of requests, and of sessions pushed, that may come
                      \*   together in one behaviour
  OwnerOf, StartedOn, \* the user and the day of a session
  EvaluatedFrom,      \* the version of a session from which its git outcome is evaluated
  MinActiveDevs,      \* MIN_ACTIVE_DEVS
  WeekDays, MonthDays, RollingDays, BackfillDays, RetentionDays, IpDays,
  NotificationDays,   \* the jobs' windows, in days
  LoggedTables,       \* the growing tables, and the jobs' runs, whose rows are
  LoggedJobs,         \*   followed
  MaxCronFaults,      \* statements that fail and crashes of the server
  MaxDay, MaxVersion

Jobs == {"metrics", "outcomes", "detect", "cleanup", "prune"}
Rollups == {"metrics", "outcomes"}
DailyJobs == {"detect", "cleanup", "prune"}   \* the others every few minutes

(* Mutant of DirectDeleteTables: the table added last is forgotten. *)
DirectDeleteTablesWithoutV3 ==
  << "team_metrics_daily", "ingestion_log", "onboarding_redemption_log", "auth_event_log",
     "manager_drilldown_audit", "manager_anomalies", "manager_dismissed_anomalies",
     "onboarding_audit_log" >>

(* DIRECT_DELETE_TABLES, in the order they are deleted from. *)
DirectDeleteTables ==
  << "team_metrics_daily", "team_outcomes_daily", "ingestion_log",
     "onboarding_redemption_log", "auth_event_log", "manager_drilldown_audit",
     "manager_anomalies", "manager_dismissed_anomalies", "onboarding_audit_log" >>
GrowingTables == {"ingestion_log", "onboarding_redemption_log", "auth_event_log",
  "manager_drilldown_audit", "manager_dismissed_anomalies", "onboarding_audit_log"}

ASSUME CronAssumption ==
  /\ JobOf \in [CronCalls -> Jobs]
  /\ Schedules \subseteq SUBSET (CronCalls \cup Sessions)
  /\ OwnerOf \in [Sessions -> Users]
  /\ \A u \in Users : TeamOf[u] # None => TeamOrg[TeamOf[u]] = OrgOf[u]
  /\ LoggedTables \subseteq GrowingTables \cup {"manager_notifications"}
  /\ LoggedJobs \subseteq Jobs

(* The rollups look back less than what is retained: 90 days and 12 months. *)
ASSUME WindowsAssumption ==
  /\ StartedOn \in [Sessions -> Nat]
  /\ EvaluatedFrom \in [Sessions -> Nat]
  /\ {MinActiveDevs, WeekDays, MonthDays, RollingDays, BackfillDays, RetentionDays,
      IpDays, NotificationDays, MaxCronFaults, MaxDay, MaxVersion} \subseteq Nat
  /\ RollingDays <= BackfillDays /\ BackfillDays <= RetentionDays
  /\ RetentionDays >= 1 /\ MaxDay >= 1

VARIABLES
  scheduled,      \* the requests and the pushes of this behaviour
  today,
  sessionsAgg,    \* sessionsAgg[s]: the version stored, 0 without a row
  rollups,        \* rollups[j]: the rows of the job's table
  anomalies,      \* manager_anomalies
  logged,         \* logged[t]: the days of the rows of a growing table
  ipsOn,          \* the days of the drill-down audit rows that keep an IP address
  cronRuns,       \* the rows of cron_runs no call will update any more
  cronCalls,      \* cronCalls[c]: the state of a request
  cronFaults

cronVars == <<role, scheduled, today, sessionsAgg, rollups, anomalies, logged, ipsOn, cronRuns,
              cronCalls, cronFaults>>
tablesVars == <<sessionsAgg, rollups, anomalies, logged, ipsOn>>

Resting == [pc |-> "idle", on |-> 0, since |-> [o \in Orgs |-> 0], rows |-> {}, at |-> 0]

Log(days, table, day) == IF table \in LoggedTables THEN days \cup {day} ELSE days

CronInit ==
  /\ role \in Roles /\ scheduled \in Schedules
  /\ today = 1
  /\ sessionsAgg = [s \in Sessions |-> 0]
  /\ rollups = [j \in Rollups |-> {}]
  /\ anomalies = {}
  /\ logged = [t \in LoggedTables |-> {1}]
  /\ ipsOn = Log({}, "manager_drilldown_audit", 1)
  /\ cronRuns = {}
  /\ cronCalls = [c \in CronCalls |-> Resting]
  /\ cronFaults = 0

-----------------------------------------------------------------------------
(* What the statements compute.                                             *)

Stored == {s \in Sessions : sessionsAgg[s] > 0}
SessionOrg(s) == OrgOf[OwnerOf[s]]
SessionTeam(s) == TeamOf[OwnerOf[s]]

(* The sessions a rollup counts: all of them, or those with an evaluated      *)
(* outcome whose owner is in a team.                                         *)
Contributes(j, s) ==
  \/ j = "metrics"
  \/ /\ j = "outcomes" /\ SessionTeam(s) # None
     /\ EvaluatedFrom[s] <= sessionsAgg[s]
InRecentDays(j, since) ==
  {s \in Stored : Contributes(j, s) /\ StartedOn[s] >= since[SessionOrg(s)]}

(* GROUP BY org_id, team_id, day.  The organisation is the team's.           *)
GroupOf(j, since, team, day) ==
  {<<s, sessionsAgg[s]>> : s \in {s \in InRecentDays(j, since) :
                                    SessionTeam(s) = team /\ StartedOn[s] = day}}
GroupRows(j, since) ==
  {[team |-> g[1], day |-> g[2], of |-> GroupOf(j, since, g[1], g[2])] :
     g \in {<<SessionTeam(s), StartedOn[s]>> : s \in InRecentDays(j, since)}}

(* ON CONFLICT (org_id, team_id, day) DO UPDATE. *)
SameGroup(r, q) == r.team = q.team /\ r.day = q.day

(* Mutant of Upsert: the conflict clause is left out. *)
UpsertBlind(old, new) == old \cup new

(* Mutant of Upsert: ON CONFLICT DO NOTHING. *)
UpsertDoNothing(old, new) == old \cup {r \in new : ~\E q \in old : SameGroup(r, q)}

Upsert(old, new) == {r \in old : ~\E q \in new : SameGroup(r, q)} \cup new

(* An organisation with no row yet is backfilled. *)
WindowStart(j, org) ==
  LET populated == \E r \in rollups[j] : TeamOrg[r.team] = org
  IN today - (IF populated THEN RollingDays ELSE BackfillDays) + 1

(* The spend of a user in a range of days; a version costs one. *)
SpendIn(u, days) ==
  MapThenSumSet(LAMBDA s : sessionsAgg[s],
    {s \in Stored : OwnerOf[s] = u /\ StartedOn[s] \in days})
ActiveDevs(t, days) ==
  {u \in Users : TeamOf[u] = t /\ \E s \in Stored : OwnerOf[s] = u /\ StartedOn[s] \in days}

(* The anomalies of a day, in the teams with enough active members. *)
Analyze(day) ==
  LET back(n) == day - n .. MaxDay
      active(t) == ActiveDevs(t, back(MonthDays))
      month(t) == [u \in active(t) |-> SpendIn(u, back(MonthDays))]
      spikes(t, u) ==
        {k \in {"spend-spike-30d", "spend-spike-wow"} :
           \/ k = "spend-spike-30d" /\ DetectSpike(month(t), u)
           \/ k = "spend-spike-wow"
              /\ DetectWowSpike(SpendIn(u, back(WeekDays)),
                                SpendIn(u, back(2 * WeekDays) \ back(WeekDays)))}
  IN UNION {[team : {g[1]}, target : {g[2]}, kind : spikes(g[1], g[2]), day : {day}] :
              g \in {g \in Teams \X Users : /\ Cardinality(active(g[1])) >= MinActiveDevs
                                            /\ g[2] \in active(g[1])}}

-----------------------------------------------------------------------------
(* The steps of a run.                                                      *)

SetCronCall(c, call) == cronCalls' = [cronCalls EXCEPT ![c] = call]
CronGoto(c, pc) == SetCronCall(c, [cronCalls[c] EXCEPT !.pc = pc])
CronAt(c, pc) == cronCalls[c].pc = pc

(* Mutant of Cutoff: a day too late. *)
CutoffInclusive(c) == cronCalls[c].on - RetentionDays + 1

Cutoff(c) == cronCalls[c].on - RetentionDays

(* The state of a request that has been answered. *)
Answered(c) ==
  [Resting EXCEPT !.on = IF JobOf[c] \in DailyJobs THEN cronCalls[c].on ELSE 0]

FirstStep == [metrics |-> "probe", outcomes |-> "probe", detect |-> "analyze",
              cleanup |-> "ips", prune |-> "sessions"]

(* A row in state running is inserted, to be updated when the run ends. *)
StartCronRun(c) ==
  /\ c \in scheduled /\ CronAt(c, "idle")
  /\ JobOf[c] \in DailyJobs => cronCalls[c].on < today
  /\ SetCronCall(c, [Resting EXCEPT !.pc = FirstStep[JobOf[c]], !.on = today])
  /\ UNCHANGED <<role, scheduled, today, tablesVars, cronRuns, cronFaults>>

ResolveWindowStarts(c) ==
  /\ CronAt(c, "probe")
  /\ SetCronCall(c, [cronCalls[c] EXCEPT !.pc = "select",
                       !.since = [o \in Orgs |-> WindowStart(JobOf[c], o)]])
  /\ UNCHANGED <<role, scheduled, today, tablesVars, cronRuns, cronFaults>>

(* The INSERT ... SELECT takes its snapshot.  A group of users without a team *)
(* violates the NOT NULL of team_id and fails the statement.                 *)
SelectGroups(c) ==
  LET rows == GroupRows(JobOf[c], cronCalls[c].since) IN
  /\ CronAt(c, "select")
  /\ IF \E r \in rows : r.team = None
       THEN CronGoto(c, "failed")
       ELSE SetCronCall(c, [cronCalls[c] EXCEPT !.pc = "upsert", !.rows = rows])
  /\ UNCHANGED <<role, scheduled, today, tablesVars, cronRuns, cronFaults>>

(* It writes, after any other run that held the rows, and commits. *)
UpsertGroups(c) ==
  /\ CronAt(c, "upsert")
  /\ rollups' = [rollups EXCEPT ![JobOf[c]] = Upsert(@, cronCalls[c].rows)]
  /\ SetCronCall(c, [cronCalls[c] EXCEPT !.pc = "ok", !.rows = {}])
  /\ UNCHANGED <<role, scheduled, today, sessionsAgg, anomalies, logged, ipsOn, cronRuns, cronFaults>>

AnalyzeTeams(c) ==
  /\ CronAt(c, "analyze")
  /\ SetCronCall(c, [cronCalls[c] EXCEPT !.pc = "insert", !.rows = Analyze(cronCalls[c].on)])
  /\ UNCHANGED <<role, scheduled, today, tablesVars, cronRuns, cronFaults>>

(* One INSERT ... ON CONFLICT DO NOTHING for each anomaly. *)
InsertAnomaly(c) ==
  /\ CronAt(c, "insert")
  /\ IF cronCalls[c].rows = {}
       THEN CronGoto(c, "ok") /\ UNCHANGED anomalies
       ELSE \E a \in cronCalls[c].rows :
              /\ anomalies' = anomalies \cup {a}
              /\ SetCronCall(c, [cronCalls[c] EXCEPT !.rows = @ \ {a}])
  /\ UNCHANGED <<role, scheduled, today, sessionsAgg, rollups, logged, ipsOn, cronRuns, cronFaults>>

ClearAuditIps(c) ==
  /\ CronAt(c, "ips")
  /\ ipsOn' = {d \in ipsOn : d >= today - IpDays}
  /\ CronGoto(c, "notifications")
  /\ UNCHANGED <<role, scheduled, today, sessionsAgg, rollups, anomalies, logged, cronRuns, cronFaults>>

Later(days, day) == {d \in days : d >= day}
PruneNotifications(c) ==
  /\ CronAt(c, "notifications")
  /\ logged' = [t \in LoggedTables |-> IF t = "manager_notifications"
                  THEN Later(logged[t], today - NotificationDays) ELSE logged[t]]
  /\ CronGoto(c, "ok")
  /\ UNCHANGED <<role, scheduled, today, sessionsAgg, rollups, anomalies, ipsOn, cronRuns, cronFaults>>

(* The sessions and the rows that hang on them, in one transaction. *)
PruneSessionGroup(c) ==
  /\ CronAt(c, "sessions")
  /\ sessionsAgg' = [s \in Sessions |->
                       IF StartedOn[s] < Cutoff(c) THEN 0 ELSE sessionsAgg[s]]
  /\ SetCronCall(c, [cronCalls[c] EXCEPT !.pc = "delete", !.at = 1])
  /\ UNCHANGED <<role, scheduled, today, rollups, anomalies, logged, ipsOn, cronRuns, cronFaults>>

(* One statement per table; the role may not be allowed to run it. *)
PruneTable(c) ==
  LET table == DirectDeleteTables[cronCalls[c].at]
      keep(rows) == {r \in rows : r.day >= Cutoff(c)}
  IN
  /\ CronAt(c, "delete") /\ cronCalls[c].at <= Len(DirectDeleteTables)
  /\ IF MayDelete(table)
       THEN /\ rollups' = [j \in Rollups |->
                 IF table = [metrics |-> "team_metrics_daily",
                             outcomes |-> "team_outcomes_daily"][j]
                   THEN keep(rollups[j]) ELSE rollups[j]]
            /\ anomalies' = IF table = "manager_anomalies" THEN keep(anomalies)
                                                           ELSE anomalies
            /\ logged' = [t \in LoggedTables |->
                            IF t = table THEN Later(logged[t], Cutoff(c)) ELSE logged[t]]
            /\ ipsOn' = IF table = "manager_drilldown_audit" THEN Later(ipsOn, Cutoff(c))
                                                             ELSE ipsOn
            /\ SetCronCall(c, [cronCalls[c] EXCEPT !.at = @ + 1])
       ELSE CronGoto(c, "failed") /\ UNCHANGED <<rollups, anomalies, logged, ipsOn>>
  /\ UNCHANGED <<role, scheduled, today, sessionsAgg, cronRuns, cronFaults>>

(* Old runs go last, those still in state running excepted. *)
PruneCronRuns(c) ==
  /\ CronAt(c, "delete") /\ cronCalls[c].at > Len(DirectDeleteTables)
  /\ cronRuns' = {r \in cronRuns : r.day >= Cutoff(c) \/ r.status = "running"}
  /\ CronGoto(c, "ok")
  /\ UNCHANGED <<role, scheduled, today, tablesVars, cronFaults>>

(* The rows of runs that have ended one way or another. *)
Recorded(calls, status) ==
  {[job |-> JobOf[c], day |-> cronCalls[c].on, status |-> status] :
     c \in {c \in calls : JobOf[c] \in LoggedJobs}}

(* Something fails: a bounded number of times. *)
Fault == cronFaults < MaxCronFaults /\ cronFaults' = cronFaults + 1

(* The row of the run is updated; nobody updates it after that. *)
EndRun(c, status) ==
  /\ cronRuns' = cronRuns \cup Recorded({c}, status)
  /\ SetCronCall(c, Answered(c))
  /\ UNCHANGED <<role, scheduled, today, tablesVars>>
FinishCronRun(c) == CronAt(c, "ok") /\ EndRun(c, "ok") /\ UNCHANGED cronFaults
FailCronRun(c) == CronAt(c, "failed") /\ EndRun(c, "failed") /\ UNCHANGED cronFaults

(* The bookkeeping of a failed run fails too, which is swallowed. *)
LoseCronRun(c) == Fault /\ CronAt(c, "failed") /\ EndRun(c, "running")

(* A statement fails: the catch block is reached. *)
CronThrow(c) ==
  /\ Fault /\ ~CronAt(c, "idle") /\ ~CronAt(c, "failed")
  /\ SetCronCall(c, [cronCalls[c] EXCEPT !.pc = "failed", !.rows = {}])
  /\ UNCHANGED <<role, scheduled, today, tablesVars, cronRuns>>

-----------------------------------------------------------------------------
(* Everything else.                                                         *)

(* The server dies: the rows of its runs stay in state running. *)
CronCrash ==
  /\ Fault /\ \E c \in CronCalls : ~CronAt(c, "idle")
  /\ cronRuns' = cronRuns \cup Recorded({c \in CronCalls : ~CronAt(c, "idle")}, "running")
  /\ cronCalls' = [c \in CronCalls |-> Answered(c)]
  /\ UNCHANGED <<role, scheduled, today, tablesVars>>

(* A reporter pushes a session that is new or has changed. *)
PushSession(s) ==
  /\ s \in scheduled /\ StartedOn[s] <= today /\ sessionsAgg[s] < MaxVersion
  /\ sessionsAgg' = [sessionsAgg EXCEPT ![s] = @ + 1]
  /\ UNCHANGED <<role, scheduled, today, rollups, anomalies, logged, ipsOn, cronRuns, cronCalls, cronFaults>>

(* Every day requests, sign-ins, views and administrators' acts are logged.   *)
(* No run goes on past a second midnight.                                    *)
NextDay ==
  /\ today < MaxDay
  /\ \A c \in CronCalls : ~CronAt(c, "idle") => cronCalls[c].on = today
  /\ today' = today + 1
  /\ logged' = [t \in LoggedTables |-> logged[t] \cup {today'}]
  /\ ipsOn' = Log(ipsOn, "manager_drilldown_audit", today')
  /\ UNCHANGED <<role, scheduled, sessionsAgg, rollups, anomalies, cronRuns, cronCalls, cronFaults>>

(* A step of a run that does what it is meant to. *)
CronStep(c) ==
  \/ ResolveWindowStarts(c) \/ SelectGroups(c) \/ UpsertGroups(c)
  \/ AnalyzeTeams(c) \/ InsertAnomaly(c)
  \/ ClearAuditIps(c) \/ PruneNotifications(c)
  \/ PruneSessionGroup(c) \/ PruneTable(c) \/ PruneCronRuns(c)
  \/ FinishCronRun(c) \/ FailCronRun(c)

CronNext ==
  \/ \E c \in CronCalls : StartCronRun(c) \/ CronStep(c) \/ CronThrow(c) \/ LoseCronRun(c)
  \/ \E s \in Sessions : PushSession(s)
  \/ CronCrash
  \/ NextDay

(* The routes of the rollups are called for ever, and a run that nothing      *)
(* interrupts goes on.  What the other jobs owe, no property needs.          *)
CronFairness ==
  \A c \in {c \in CronCalls : JobOf[c] \in Rollups} : WF_cronVars(StartCronRun(c) \/ CronStep(c))

CronSpec == CronInit /\ [][CronNext]_cronVars /\ CronFairness

-----------------------------------------------------------------------------
(* Properties.                                                              *)

CronCallType ==
  [pc : {"idle", "probe", "select", "upsert", "analyze", "insert", "ips",
         "notifications", "sessions", "delete", "ok", "failed"},
   on : 0 .. MaxDay, since : [Orgs -> Int],
   rows : SUBSET ([team : Teams, day : Nat, of : SUBSET (Sessions \X Nat)]
                  \cup [team : Teams, target : Users, kind : AnomalyKinds, day : 0 .. MaxDay]),
   at : 0 .. Len(DirectDeleteTables) + 1]

(* Every variable has its type; a rollup never has two rows of a team and a   *)
(* day (the primary keys of the two tables).                                 *)
CronTypeOK ==
  /\ role \in Roles /\ scheduled \in Schedules /\ today \in 1 .. MaxDay
  /\ sessionsAgg \in [Sessions -> 0 .. MaxVersion]
  /\ \A j \in Rollups : \A r \in rollups[j] :
       /\ r.team \in Teams /\ r.day \in Nat /\ r.of \subseteq Sessions \X Nat
       /\ \A q \in rollups[j] : SameGroup(r, q) => r = q
  /\ anomalies \subseteq [team : Teams, target : Users, kind : AnomalyKinds, day : 1 .. MaxDay]
  /\ logged \in [LoggedTables -> SUBSET (1 .. MaxDay)] /\ ipsOn \subseteq 1 .. MaxDay
  /\ cronRuns \subseteq [job : Jobs, day : 1 .. MaxDay, status : RunStatuses]
  /\ cronCalls \in [CronCalls -> CronCallType] /\ cronFaults \in 0 .. MaxCronFaults

(* The prune deletes only what is older than the window that is retained,     *)
(* whichever run it is and however old its cutoff has become               *)
(* (retention-prune.ts:63, the floor of twelve months).                      *)
RecentRowsKept == [][
  /\ \A s \in Sessions : sessionsAgg'[s] = 0 /\ sessionsAgg[s] > 0
       => StartedOn[s] < today - RetentionDays
  /\ \A t \in LoggedTables \ {"manager_notifications"} :
       \A d \in logged[t] \ logged'[t] : d < today - RetentionDays
  /\ \A a \in anomalies \ anomalies' : a.day < today - RetentionDays
  /\ \A r \in cronRuns \ cronRuns' : r.day < today - RetentionDays
  /\ \A j \in Rollups : \A r \in rollups[j] :
       (\E q \in rollups'[j] : SameGroup(r, q)) \/ r.day < today - RetentionDays
  ]_cronVars

(* Rows older than the window when a prune began are gone when it ends ok:    *)
(* no table is forgotten (data-retention-policy REQ-1).  Sessions are        *)
(* excepted: a late push may store one again.                                *)
PruneLeavesNothing ==
  \A c \in CronCalls :
    (JobOf[c] = "prune" /\ CronAt(c, "ok")) =>
      /\ \A t \in LoggedTables \ {"manager_notifications"} :
           \A d \in logged[t] : d >= Cutoff(c)
      /\ \A a \in anomalies : a.day >= Cutoff(c)
      /\ \A j \in Rollups : \A r \in rollups[j] : r.day >= Cutoff(c)

(* Once the pushes have stopped, the rollups of the days that are still in    *)
(* the rolling window come to be computed from what is stored, whatever       *)
(* failed, crashed or overlapped (aggregate-team-metrics.ts:107).            *)
RollupCurrent(j) ==
  \A t \in Teams, d \in today - RollingDays + 1 .. today :
    LET group == GroupOf(j, [o \in Orgs |-> today - RollingDays + 1], t, d)
    IN group # {} => [team |-> t, day |-> d, of |-> group] \in rollups[j]
RollupsCatchUp ==
  <>[](\A j \in Rollups : (\E c \in scheduled \cap CronCalls : JobOf[c] = j) => RollupCurrent(j))
=============================================================================
