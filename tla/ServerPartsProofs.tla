-------------------------- MODULE ServerPartsProofs --------------------------
(***************************************************************************)
(* Proofs about the parts of the server that MCServer composes, each of its  *)
(* own specification: the jobs (CronJobs), what administrators do (AdminOps), *)
(* the invite console (InviteConsole), the limiters (RateLimits) and the     *)
(* guards of a request (AccessGuards).                                      *)
(***************************************************************************)
EXTENDS CronJobs, AdminOps, InviteConsole, RateLimits, AccessGuards, FiniteSetTheorems, WellFoundedInduction, TLAPS

-----------------------------------------------------------------------------
(* Proofs about CronJobs, for every schedule of requests and pushes, every   *)
(* number of organisations and sessions, and every window that              *)
(* WindowsAssumption allows.                                               *)

LEMMA Windows ==
  /\ {MinActiveDevs, WeekDays, MonthDays, RollingDays, BackfillDays, RetentionDays,
      IpDays, NotificationDays, MaxCronFaults, MaxDay, MaxVersion} \subseteq Int
  /\ RollingDays <= BackfillDays /\ BackfillDays <= RetentionDays
  /\ RetentionDays >= 1 /\ MaxDay >= 1
BY WindowsAssumption

LEMMA StepCases ==
  ASSUME [CronNext]_cronVars
  PROVE  \/ \E c \in CronCalls : StartCronRun(c) \/ CronStep(c) \/ CronThrow(c) \/ LoseCronRun(c)
         \/ \E s \in Sessions : PushSession(s)
         \/ CronCrash
         \/ NextDay
         \/ UNCHANGED cronVars
BY DEF CronNext

(* Which step removes rows, and from which table. *)
LEMMA Removers ==
  ASSUME NEW c \in CronCalls,
         StartCronRun(c) \/ CronStep(c) \/ CronThrow(c) \/ LoseCronRun(c)
  PROVE  /\ logged' = logged \/ PruneNotifications(c) \/ PruneTable(c)
         /\ anomalies' = anomalies \/ InsertAnomaly(c) \/ PruneTable(c)
         /\ rollups' = rollups \/ UpsertGroups(c) \/ PruneTable(c)
         /\ sessionsAgg' = sessionsAgg \/ PruneSessionGroup(c)
         /\ \/ cronRuns' = cronRuns
            \/ PruneCronRuns(c) \/ FinishCronRun(c) \/ FailCronRun(c) \/ LoseCronRun(c)
         /\ ipsOn' = ipsOn \/ ClearAuditIps(c) \/ PruneTable(c)
         /\ role' = role /\ scheduled' = scheduled /\ today' = today
<1> USE DEF tablesVars
<1>1. CASE StartCronRun(c) \/ CronThrow(c) \/ LoseCronRun(c)
  BY <1>1 DEF StartCronRun, CronThrow, LoseCronRun, EndRun
<1>2. CASE ResolveWindowStarts(c) \/ SelectGroups(c) \/ UpsertGroups(c)
  BY <1>2 DEF ResolveWindowStarts, SelectGroups, UpsertGroups
<1>3. CASE AnalyzeTeams(c) \/ InsertAnomaly(c)
  BY <1>3 DEF AnalyzeTeams, InsertAnomaly
<1>4. CASE ClearAuditIps(c) \/ PruneNotifications(c)
  BY <1>4 DEF ClearAuditIps, PruneNotifications
<1>5. CASE PruneSessionGroup(c) \/ PruneTable(c) \/ PruneCronRuns(c)
  BY <1>5 DEF PruneSessionGroup, PruneTable, PruneCronRuns
<1>6. CASE FinishCronRun(c) \/ FailCronRun(c)
  BY <1>6 DEF FinishCronRun, FailCronRun, EndRun
<1> QED BY <1>1, <1>2, <1>3, <1>4, <1>5, <1>6 DEF CronStep

-----------------------------------------------------------------------------
(* What a run holds where it is.                                            *)

RollupRow == [team : Teams, day : Nat, of : SUBSET (Sessions \X Nat)]
Findings(date) == [team : Teams, target : Users, kind : AnomalyKinds, day : {date}]

(* A run goes on past one midnight at most; what it is about to write is not   *)
(* older than its windows allow.                                            *)
CallFits(c, call, date) ==
  /\ call \in CronCallType /\ call.on <= date
  /\ call.pc # "idle" => call.on \in {date - 1, date} /\ call.on >= 1
  /\ call.pc \in {"probe", "select", "upsert"} => JobOf[c] \in Rollups
  /\ call.pc \in {"analyze", "insert"} => JobOf[c] = "detect"
  /\ call.pc \in {"ips", "notifications"} => JobOf[c] = "cleanup"
  /\ call.pc = "select" => \A o \in Orgs : call.since[o] > call.on - BackfillDays
  /\ call.pc = "upsert" =>
       /\ call.rows \subseteq RollupRow
       /\ \A r \in call.rows : r.day > call.on - BackfillDays
       /\ \A q, r \in call.rows : SameGroup(q, r) => q = r
  /\ call.pc = "insert" => call.rows \subseteq Findings(call.on)
  /\ call.pc = "delete" => call.at \in 1 .. Len(DirectDeleteTables) + 1

CallsFit == \A c \in CronCalls : CallFits(c, cronCalls[c], today)

(* The tables, and what no statement of a job looks at. *)
TablesFit ==
  /\ role \in Roles /\ scheduled \in Schedules /\ today \in 1 .. MaxDay
  /\ sessionsAgg \in [Sessions -> 0 .. MaxVersion]
  /\ rollups \in [Rollups -> SUBSET RollupRow]
  /\ \A j \in Rollups : \A q, r \in rollups[j] : SameGroup(q, r) => q = r
  /\ anomalies \subseteq [team : Teams, target : Users, kind : AnomalyKinds, day : 1 .. MaxDay]
  /\ logged \in [LoggedTables -> SUBSET (1 .. MaxDay)] /\ ipsOn \subseteq 1 .. MaxDay
  /\ cronRuns \subseteq [job : Jobs, day : 1 .. MaxDay, status : RunStatuses]
  /\ cronCalls \in [CronCalls -> CronCallType] /\ cronFaults \in 0 .. MaxCronFaults

CronFit == TablesFit /\ CallsFit

LEMMA DeleteTables ==
  /\ Len(DirectDeleteTables) = 9
  /\ GrowingTables \cup {"manager_anomalies", "team_metrics_daily", "team_outcomes_daily"}
       \subseteq {DirectDeleteTables[i] : i \in 1 .. 9}
<1>1. Len(DirectDeleteTables) = 9
  BY DEF DirectDeleteTables
<1>2. /\ DirectDeleteTables[1] = "team_metrics_daily"
      /\ DirectDeleteTables[2] = "team_outcomes_daily"
      /\ DirectDeleteTables[3] = "ingestion_log"
      /\ DirectDeleteTables[4] = "onboarding_redemption_log"
      /\ DirectDeleteTables[5] = "auth_event_log"
      /\ DirectDeleteTables[6] = "manager_drilldown_audit"
      /\ DirectDeleteTables[7] = "manager_anomalies"
      /\ DirectDeleteTables[8] = "manager_dismissed_anomalies"
      /\ DirectDeleteTables[9] = "onboarding_audit_log"
  BY DEF DirectDeleteTables
<1> HIDE DEF DirectDeleteTables
<1> QED BY <1>1, <1>2 DEF GrowingTables

(* The statement of a rollup: one row for each team and day with a session,    *)
(* none older than the window it is given.                                  *)
LEMMA GroupRowsFit ==
  ASSUME NEW j, NEW since, sessionsAgg \in [Sessions -> 0 .. MaxVersion],
         \A r \in GroupRows(j, since) : r.team # None
  PROVE  /\ GroupRows(j, since) \subseteq RollupRow
         /\ \A r \in GroupRows(j, since) : \E o \in Orgs : r.day >= since[o]
         /\ \A q, r \in GroupRows(j, since) : SameGroup(q, r) => q = r
<1>1. ASSUME NEW r \in GroupRows(j, since)
      PROVE  /\ r = [team |-> r.team, day |-> r.day, of |-> GroupOf(j, since, r.team, r.day)]
             /\ \E s \in InRecentDays(j, since) : r.team = SessionTeam(s) /\ r.day = StartedOn[s]
  BY <1>1 DEF GroupRows
<1>2. ASSUME NEW s \in InRecentDays(j, since)
      PROVE  /\ s \in Sessions /\ SessionTeam(s) \in Teams \cup {None}
             /\ SessionOrg(s) \in Orgs /\ StartedOn[s] >= since[SessionOrg(s)]
             /\ StartedOn[s] \in Nat
  BY <1>2, CronAssumption, SchemaAssumption, WindowsAssumption
     DEF InRecentDays, Stored, SessionTeam, SessionOrg
<1>3. ASSUME NEW team, NEW date PROVE GroupOf(j, since, team, date) \in SUBSET (Sessions \X Nat)
  BY Windows DEF GroupOf, InRecentDays, Stored
<1>4. ASSUME NEW r \in GroupRows(j, since)
      PROVE  r \in RollupRow /\ \E o \in Orgs : r.day >= since[o]
  BY <1>1, <1>2, <1>3 DEF RollupRow
<1>5. ASSUME NEW q \in GroupRows(j, since), NEW r \in GroupRows(j, since), SameGroup(q, r)
      PROVE  q = r
  BY <1>1, <1>5 DEF SameGroup
<1> QED BY <1>4, <1>5

(* Upsert keeps one row of a group, the new one where there is one. *)
LEMMA UpsertFits ==
  ASSUME NEW old \in SUBSET RollupRow, NEW new \in SUBSET RollupRow,
         \A q, r \in old : SameGroup(q, r) => q = r,
         \A q, r \in new : SameGroup(q, r) => q = r
  PROVE  /\ Upsert(old, new) \in SUBSET RollupRow
         /\ \A q, r \in Upsert(old, new) : SameGroup(q, r) => q = r
         /\ \A r \in old : \E q \in Upsert(old, new) : SameGroup(r, q)
         /\ Upsert(old, new) \subseteq old \cup new
BY DEF Upsert, SameGroup

(* What the detector finds is dated on its day. *)
LEMMA AnalyzeFits ==
  ASSUME NEW date
  PROVE  Analyze(date) \subseteq Findings(date)
<1> SUFFICES ASSUME NEW a \in Analyze(date) PROVE a \in Findings(date)
  OBVIOUS
<1>1. PICK g \in Teams \X Users : \E K \in SUBSET {"spend-spike-30d", "spend-spike-wow"} :
        a \in [team : {g[1]}, target : {g[2]}, kind : K, day : {date}]
  BY DEF Analyze
<1> QED BY <1>1 DEF Findings, AnomalyKinds

LEMMA RestingFits ==
  ASSUME NEW c \in CronCalls, NEW date \in Int, NEW on \in 0 .. MaxDay, on <= date
  PROVE  CallFits(c, [Resting EXCEPT !.on = on], date)
<1>1. 0 \in 0 .. MaxDay /\ 0 \in 0 .. Len(DirectDeleteTables) + 1
  BY Windows, DeleteTables
<1>2. Resting \in CronCallType /\ Resting.pc = "idle"
  BY <1>1 DEF Resting, CronCallType
<1>3. [Resting EXCEPT !.on = on] \in CronCallType /\ [Resting EXCEPT !.on = on].pc = "idle"
      /\ [Resting EXCEPT !.on = on].on = on
  BY <1>2 DEF CronCallType
<1> QED BY <1>3 DEF CallFits

(* A run takes a step to where it fits again. *)
LEMMA RunStep ==
  ASSUME CronFit, NEW c \in CronCalls,
         StartCronRun(c) \/ CronStep(c) \/ CronThrow(c) \/ LoseCronRun(c)
  PROVE  \E call : CallFits(c, call, today) /\ SetCronCall(c, call)
<1> DEFINE old == cronCalls[c]
<1> USE DEF CronFit
<1>0. /\ CallFits(c, old, today) /\ old \in CronCallType /\ today \in 1 .. MaxDay /\ today \in Int
      /\ JobOf[c] \in Jobs /\ old.on \in 0 .. MaxDay /\ old.on <= today
  BY CronAssumption, Windows DEF CallsFit, TablesFit, CallFits, CronCallType
<1>1. CASE StartCronRun(c)
  <2> DEFINE call == [Resting EXCEPT !.pc = FirstStep[JobOf[c]], !.on = today]
  <2>1. /\ FirstStep[JobOf[c]] \in {"probe", "analyze", "ips", "sessions"}
        /\ FirstStep[JobOf[c]] = "probe" => JobOf[c] \in Rollups
        /\ FirstStep[JobOf[c]] = "analyze" => JobOf[c] = "detect"
        /\ FirstStep[JobOf[c]] = "ips" => JobOf[c] = "cleanup"
    BY <1>0 DEF FirstStep, Jobs, Rollups
  <2>2. Resting \in CronCallType
    <3>1. 0 \in 0 .. MaxDay /\ 0 \in 0 .. Len(DirectDeleteTables) + 1
      BY Windows, DeleteTables
    <3> QED BY <3>1 DEF Resting, CronCallType
  <2>3. call \in CronCallType /\ call.pc = FirstStep[JobOf[c]] /\ call.on = today
    <3>1. today \in 0 .. MaxDay
      BY <1>0
    <3>2. PICK pc \in {"probe", "analyze", "ips", "sessions"} : pc = FirstStep[JobOf[c]]
      BY <2>1
    <3>3. [Resting EXCEPT !.pc = pc, !.on = today] \in CronCallType
      BY <2>2, <3>1 DEF CronCallType
    <3> QED BY <2>2, <3>2, <3>3 DEF CronCallType
  <2>4. CallFits(c, call, today)
    BY <1>0, <2>1, <2>3 DEF CallFits
  <2> QED BY <1>1, <2>4 DEF StartCronRun
<1>2. CASE ResolveWindowStarts(c)
  <2> DEFINE call == [old EXCEPT !.pc = "select",
                        !.since = [o \in Orgs |-> WindowStart(JobOf[c], o)]]
  <2>1. ASSUME NEW o \in Orgs
        PROVE  WindowStart(JobOf[c], o) \in Int /\ WindowStart(JobOf[c], o) > today - BackfillDays
    <3>1. \/ WindowStart(JobOf[c], o) = today - RollingDays + 1
          \/ WindowStart(JobOf[c], o) = today - BackfillDays + 1
      BY DEF WindowStart
    <3> QED BY <1>0, <3>1, Windows
  <2>2. call \in CronCallType /\ call.pc = "select" /\ call.on = old.on
        /\ \A o \in Orgs : call.since[o] = WindowStart(JobOf[c], o)
    BY <1>0, <2>1 DEF CronCallType
  <2>3. \A o \in Orgs : call.since[o] > call.on - BackfillDays
    BY <1>0, <2>1, <2>2, Windows
  <2>4. CallFits(c, call, today)
    BY <1>0, <1>2, <2>2, <2>3 DEF CallFits, CronAt, ResolveWindowStarts
  <2> QED BY <1>2, <2>4 DEF ResolveWindowStarts
<1>3. CASE SelectGroups(c)
  <2> DEFINE rows == GroupRows(JobOf[c], old.since)
  <2>1. CASE \E r \in rows : r.team = None
    <3> DEFINE call == [old EXCEPT !.pc = "failed"]
    <3>1. call \in CronCallType /\ call.pc = "failed" /\ call.on = old.on
      BY <1>0 DEF CronCallType
    <3>2. CallFits(c, call, today)
      BY <1>0, <1>3, <3>1 DEF CallFits, CronAt, SelectGroups
    <3> QED BY <1>3, <2>1, <3>2 DEF SelectGroups, CronGoto
  <2>2. CASE \A r \in rows : r.team # None
    <3> DEFINE call == [old EXCEPT !.pc = "upsert", !.rows = rows]
    <3>1. /\ rows \subseteq RollupRow
          /\ \A r \in rows : \E o \in Orgs : r.day >= old.since[o]
          /\ \A q, r \in rows : SameGroup(q, r) => q = r
      BY <2>2, GroupRowsFit DEF TablesFit
    <3> HIDE DEF rows
    <3>2. \A r \in rows : r.day > old.on - BackfillDays
      <4>1. ASSUME NEW o \in Orgs PROVE old.since[o] > old.on - BackfillDays /\ old.since[o] \in Int
        BY <1>0, <1>3 DEF CallFits, SelectGroups, CronAt, CronCallType
      <4>2. \A r \in rows : r.day \in Nat
        BY <3>1 DEF RollupRow
      <4>3. old.on - BackfillDays \in Int
        BY <1>0, Windows
      <4> HIDE DEF old
      <4> QED BY <3>1, <4>1, <4>2, <4>3
    <3>3. call \in CronCallType /\ call.pc = "upsert" /\ call.on = old.on /\ call.rows = rows
      BY <1>0, <3>1 DEF CronCallType, RollupRow
    <3>4. CallFits(c, call, today)
      BY <1>0, <1>3, <3>1, <3>2, <3>3 DEF CallFits, CronAt, SelectGroups
    <3> QED BY <1>3, <2>2, <3>4 DEF SelectGroups, rows
  <2> QED BY <2>1, <2>2
<1>4. CASE UpsertGroups(c)
  <2> DEFINE call == [old EXCEPT !.pc = "ok", !.rows = {}]
  <2>1. call \in CronCallType /\ call.pc = "ok" /\ call.on = old.on
    BY <1>0 DEF CronCallType
  <2>2. CallFits(c, call, today)
    BY <1>0, <1>4, <2>1 DEF CallFits, CronAt, UpsertGroups
  <2> QED BY <1>4, <2>2 DEF UpsertGroups
<1>5. CASE AnalyzeTeams(c)
  <2> DEFINE call == [old EXCEPT !.pc = "insert", !.rows = Analyze(old.on)]
  <2>1. Analyze(old.on) \subseteq Findings(old.on)
    BY AnalyzeFits
  <2>2. call \in CronCallType /\ call.pc = "insert" /\ call.on = old.on
        /\ call.rows = Analyze(old.on)
    BY <1>0, <2>1 DEF CronCallType, Findings
  <2>3. CallFits(c, call, today)
    BY <1>0, <1>5, <2>1, <2>2 DEF CallFits, CronAt, AnalyzeTeams
  <2> QED BY <1>5, <2>3 DEF AnalyzeTeams
<1>6. CASE InsertAnomaly(c)
  <2>1. CASE old.rows = {}
    <3> DEFINE call == [old EXCEPT !.pc = "ok"]
    <3>1. call \in CronCallType /\ call.pc = "ok" /\ call.on = old.on
      BY <1>0 DEF CronCallType
    <3>2. CallFits(c, call, today)
      BY <1>0, <1>6, <3>1 DEF CallFits, CronAt, InsertAnomaly
    <3> QED BY <1>6, <2>1, <3>2 DEF InsertAnomaly, CronGoto
  <2>2. ASSUME NEW a \in old.rows, SetCronCall(c, [old EXCEPT !.rows = @ \ {a}])
        PROVE  \E call : CallFits(c, call, today) /\ SetCronCall(c, call)
    <3> DEFINE call == [old EXCEPT !.rows = @ \ {a}]
    <3>1. call \in CronCallType /\ call.pc = "insert" /\ call.on = old.on
          /\ call.rows \subseteq old.rows
      BY <1>0, <1>6 DEF CronCallType, InsertAnomaly, CronAt
    <3>2. CallFits(c, call, today)
      BY <1>0, <1>6, <3>1 DEF CallFits, CronAt, InsertAnomaly
    <3> QED BY <2>2, <3>2
  <2> QED BY <1>6, <2>1, <2>2 DEF InsertAnomaly
<1>7. CASE ClearAuditIps(c)
  <2> DEFINE call == [old EXCEPT !.pc = "notifications"]
  <2>1. call \in CronCallType /\ call.pc = "notifications" /\ call.on = old.on
    BY <1>0 DEF CronCallType
  <2>2. CallFits(c, call, today)
    BY <1>0, <1>7, <2>1 DEF CallFits, CronAt, ClearAuditIps
  <2> QED BY <1>7, <2>2 DEF ClearAuditIps, CronGoto
<1>8. CASE PruneNotifications(c) \/ PruneCronRuns(c)
  <2> DEFINE call == [old EXCEPT !.pc = "ok"]
  <2>1. call \in CronCallType /\ call.pc = "ok" /\ call.on = old.on
    BY <1>0 DEF CronCallType
  <2>2. CallFits(c, call, today)
    BY <1>0, <1>8, <2>1 DEF CallFits, CronAt, PruneNotifications, PruneCronRuns
  <2> QED BY <1>8, <2>2 DEF PruneNotifications, PruneCronRuns, CronGoto
<1>9. CASE PruneSessionGroup(c)
  <2> DEFINE call == [old EXCEPT !.pc = "delete", !.at = 1]
  <2>1. call \in CronCallType /\ call.pc = "delete" /\ call.on = old.on /\ call.at = 1
    <3>1. 1 \in 0 .. Len(DirectDeleteTables) + 1
      BY DeleteTables
    <3> QED BY <1>0, <3>1 DEF CronCallType
  <2>2. CallFits(c, call, today)
    BY <1>0, <1>9, <2>1, DeleteTables DEF CallFits, CronAt, PruneSessionGroup
  <2> QED BY <1>9, <2>2 DEF PruneSessionGroup
<1>10. CASE PruneTable(c)
  <2>1. CASE MayDelete(DirectDeleteTables[old.at])
    <3> DEFINE call == [old EXCEPT !.at = @ + 1]
    <3>1. call \in CronCallType /\ call.pc = "delete" /\ call.on = old.on
          /\ call.at \in 1 .. Len(DirectDeleteTables) + 1
      BY <1>0, <1>10, DeleteTables DEF CronCallType, PruneTable, CronAt
    <3>2. CallFits(c, call, today)
      BY <1>0, <1>10, <3>1 DEF CallFits, CronAt, PruneTable
    <3> QED BY <1>10, <2>1, <3>2 DEF PruneTable
  <2>2. CASE ~MayDelete(DirectDeleteTables[old.at])
    <3> DEFINE call == [old EXCEPT !.pc = "failed"]
    <3>1. call \in CronCallType /\ call.pc = "failed" /\ call.on = old.on
      BY <1>0 DEF CronCallType
    <3>2. CallFits(c, call, today)
      BY <1>0, <1>10, <3>1 DEF CallFits, CronAt, PruneTable
    <3> QED BY <1>10, <2>2, <3>2 DEF PruneTable, CronGoto
  <2> QED BY <2>1, <2>2
<1>11. CASE FinishCronRun(c) \/ FailCronRun(c) \/ LoseCronRun(c)
  <2>1. PICK on \in 0 .. MaxDay : on <= today /\ Answered(c) = [Resting EXCEPT !.on = on]
    <3>1. 0 \in 0 .. MaxDay /\ 0 <= today
      BY <1>0, Windows
    <3>2. \E on \in {old.on, 0} : Answered(c) = [Resting EXCEPT !.on = on]
      BY DEF Answered
    <3> QED BY <1>0, <3>1, <3>2
  <2>2. CallFits(c, Answered(c), today)
    BY <1>0, <2>1, RestingFits
  <2> QED BY <1>11, <2>2 DEF FinishCronRun, FailCronRun, LoseCronRun, EndRun
<1>12. CASE CronThrow(c)
  <2> DEFINE call == [old EXCEPT !.pc = "failed", !.rows = {}]
  <2>1. call \in CronCallType /\ call.pc = "failed" /\ call.on = old.on
    BY <1>0 DEF CronCallType
  <2>2. CallFits(c, call, today)
    BY <1>0, <1>12, <2>1 DEF CallFits, CronAt, CronThrow
  <2> QED BY <1>12, <2>2 DEF CronThrow
<1> QED BY <1>1, <1>2, <1>3, <1>4, <1>5, <1>6, <1>7, <1>8, <1>9, <1>10, <1>11, <1>12 DEF CronStep

LEMMA CallsFitStep ==
  ASSUME CronFit, [CronNext]_cronVars
  PROVE  CallsFit' /\ cronCalls' \in [CronCalls -> CronCallType]
<1> USE DEF CronFit
<1>0. /\ cronCalls \in [CronCalls -> CronCallType] /\ today \in 1 .. MaxDay /\ today \in Int
      /\ \A c \in CronCalls : CallFits(c, cronCalls[c], today)
  BY Windows DEF TablesFit, CallsFit
<1>1. ASSUME NEW c \in CronCalls,
             StartCronRun(c) \/ CronStep(c) \/ CronThrow(c) \/ LoseCronRun(c)
      PROVE  CallsFit' /\ cronCalls' \in [CronCalls -> CronCallType]
  <2>1. PICK call : CallFits(c, call, today) /\ cronCalls' = [cronCalls EXCEPT ![c] = call]
    BY <1>1, RunStep DEF SetCronCall
  <2>2. call \in CronCallType
    BY <2>1 DEF CallFits
  <2>3. today' = today
    BY <1>1, Removers
  <2>4. \A d \in CronCalls : CallFits(d, cronCalls'[d], today)
    BY <1>0, <2>1
  <2> QED BY <1>0, <2>1, <2>2, <2>3, <2>4 DEF CallsFit
<1>2. CASE (\E s \in Sessions : PushSession(s)) \/ UNCHANGED cronVars
  BY <1>0, <1>2 DEF PushSession, cronVars, CallsFit
<1>3. CASE CronCrash
  <2>1. cronCalls' = [c \in CronCalls |-> Answered(c)] /\ today' = today
    BY <1>3 DEF CronCrash
  <2>2. ASSUME NEW c \in CronCalls PROVE CallFits(c, Answered(c), today)
    <3>1. cronCalls[c].on \in 0 .. MaxDay /\ cronCalls[c].on <= today
      BY <1>0 DEF CallFits, CronCallType
    <3>2. 0 \in 0 .. MaxDay /\ 0 <= today
      BY <1>0, Windows
    <3>3. \E on \in {cronCalls[c].on, 0} : Answered(c) = [Resting EXCEPT !.on = on]
      BY DEF Answered
    <3> QED BY <1>0, <3>1, <3>2, <3>3, RestingFits
  <2>3. cronCalls' \in [CronCalls -> CronCallType]
    BY <2>1, <2>2 DEF CallFits
  <2> QED BY <2>1, <2>2, <2>3 DEF CallsFit
<1>4. CASE NextDay
  <2>1. /\ today' = today + 1 /\ cronCalls' = cronCalls
        /\ \A c \in CronCalls : cronCalls[c].pc # "idle" => cronCalls[c].on = today
    BY <1>4 DEF NextDay, CronAt
  <2>2. ASSUME NEW c \in CronCalls PROVE CallFits(c, cronCalls[c], today + 1)
    <3>1. /\ cronCalls[c].on \in Int /\ cronCalls[c].on <= today + 1
          /\ cronCalls[c].pc # "idle" => cronCalls[c].on \in {today + 1 - 1, today + 1}
      BY <1>0, <2>1 DEF CallFits, CronCallType
    <3> QED BY <1>0, <3>1 DEF CallFits
  <2> QED BY <1>0, <2>1, <2>2 DEF CallsFit
<1> QED BY <1>1, <1>2, <1>3, <1>4, StepCases

(* The rows of cron_runs a step leaves are of runs that were on. *)
LEMMA RecordedFits ==
  ASSUME CronFit, NEW calls \in SUBSET CronCalls, \A c \in calls : ~CronAt(c, "idle"),
         NEW status \in RunStatuses
  PROVE  Recorded(calls, status) \subseteq [job : Jobs, day : 1 .. MaxDay, status : RunStatuses]
<1>1. \A c \in calls : cronCalls[c].on \in 1 .. MaxDay /\ JobOf[c] \in Jobs
  BY CronAssumption, Windows DEF CronFit, TablesFit, CallsFit, CallFits, CronAt, CronCallType
<1> QED BY <1>1 DEF Recorded

LEMMA TablesFitStep ==
  ASSUME CronFit, [CronNext]_cronVars
  PROVE  TablesFit'
<1> USE DEF CronFit
<1>0. cronCalls' \in [CronCalls -> CronCallType]
  BY CallsFitStep
<1>00. today \in 1 .. MaxDay /\ MaxDay \in Int /\ MaxVersion \in Int /\ MaxCronFaults \in Int
  BY Windows DEF TablesFit
<1>1. ASSUME NEW c \in CronCalls,
             StartCronRun(c) \/ CronStep(c) \/ CronThrow(c) \/ LoseCronRun(c)
      PROVE  TablesFit'
  <2>0. CallFits(c, cronCalls[c], today)
    BY DEF CallsFit
  <2>1. sessionsAgg' \in [Sessions -> 0 .. MaxVersion]
    <3>1. CASE PruneSessionGroup(c)
      BY <1>00, <3>1 DEF PruneSessionGroup, TablesFit
    <3> QED BY <1>1, <3>1, Removers DEF TablesFit
  <2>2. /\ rollups' \in [Rollups -> SUBSET RollupRow]
        /\ \A j \in Rollups : \A q, r \in rollups'[j] : SameGroup(q, r) => q = r
    <3>1. CASE UpsertGroups(c)
      <4>1. /\ cronCalls[c].rows \in SUBSET RollupRow
            /\ \A q, r \in cronCalls[c].rows : SameGroup(q, r) => q = r
            /\ JobOf[c] \in Rollups
        BY <2>0, <3>1 DEF UpsertGroups, CronAt, CallFits
      <4>2. rollups' = [rollups EXCEPT ![JobOf[c]] = Upsert(rollups[JobOf[c]], cronCalls[c].rows)]
        BY <3>1 DEF UpsertGroups
      <4>3. /\ Upsert(rollups[JobOf[c]], cronCalls[c].rows) \in SUBSET RollupRow
            /\ \A q, r \in Upsert(rollups[JobOf[c]], cronCalls[c].rows) : SameGroup(q, r) => q = r
        BY <4>1, UpsertFits DEF TablesFit
      <4> QED BY <4>1, <4>2, <4>3 DEF TablesFit
    <3>2. CASE PruneTable(c)
      <4>1. \A j \in Rollups : rollups'[j] \subseteq rollups[j]
        BY <3>2 DEF PruneTable
      <4>2. rollups' = rollups \/ rollups' = [j \in Rollups |-> rollups'[j]]
        BY <3>2 DEF PruneTable
      <4> QED BY <4>1, <4>2 DEF TablesFit
    <3> QED BY <1>1, <3>1, <3>2, Removers DEF TablesFit
  <2>3. anomalies' \subseteq [team : Teams, target : Users, kind : AnomalyKinds, day : 1 .. MaxDay]
    <3>1. CASE InsertAnomaly(c)
      <4>1. cronCalls[c].rows \subseteq Findings(cronCalls[c].on) /\ cronCalls[c].on \in 1 .. MaxDay
        BY <1>00, <2>0, <3>1 DEF InsertAnomaly, CronAt, CallFits, CronCallType
      <4>2. anomalies' \subseteq anomalies \cup cronCalls[c].rows
        BY <3>1 DEF InsertAnomaly
      <4> QED BY <4>1, <4>2 DEF TablesFit, Findings
    <3>2. CASE PruneTable(c)
      BY <3>2 DEF PruneTable, TablesFit
    <3> QED BY <1>1, <3>1, <3>2, Removers DEF TablesFit
  <2>4. logged' \in [LoggedTables -> SUBSET (1 .. MaxDay)]
    <3>1. CASE PruneNotifications(c)
      BY <3>1 DEF PruneNotifications, TablesFit, Later
    <3>2. CASE PruneTable(c)
      BY <3>2 DEF PruneTable, TablesFit, Later
    <3> QED BY <1>1, <3>1, <3>2, Removers DEF TablesFit
  <2>5. ipsOn' \subseteq 1 .. MaxDay
    <3>1. CASE ClearAuditIps(c)
      BY <3>1 DEF ClearAuditIps, TablesFit
    <3>2. CASE PruneTable(c)
      BY <3>2 DEF PruneTable, TablesFit, Later
    <3> QED BY <1>1, <3>1, <3>2, Removers DEF TablesFit
  <2>6. cronRuns' \subseteq [job : Jobs, day : 1 .. MaxDay, status : RunStatuses]
    <3>1. CASE PruneCronRuns(c)
      BY <3>1 DEF PruneCronRuns, TablesFit
    <3>2. CASE FinishCronRun(c) \/ FailCronRun(c) \/ LoseCronRun(c)
      <4>1. ~CronAt(c, "idle")
        BY <3>2 DEF FinishCronRun, FailCronRun, LoseCronRun, CronAt
      <4>2. \E status \in RunStatuses : cronRuns' = cronRuns \cup Recorded({c}, status)
        BY <3>2 DEF FinishCronRun, FailCronRun, LoseCronRun, EndRun, RunStatuses
      <4> QED BY <4>1, <4>2, RecordedFits DEF TablesFit
    <3> QED BY <1>1, <3>1, <3>2, Removers DEF TablesFit
  <2>7. cronFaults' \in 0 .. MaxCronFaults
    <3>1. cronFaults' = cronFaults \/ Fault
      BY <1>1 DEF StartCronRun, CronThrow, LoseCronRun, CronStep, ResolveWindowStarts, SelectGroups,
                  UpsertGroups, AnalyzeTeams, InsertAnomaly, ClearAuditIps, PruneNotifications,
                  PruneSessionGroup, PruneTable, PruneCronRuns, FinishCronRun, FailCronRun
    <3> QED BY <1>00, <3>1 DEF Fault, TablesFit
  <2> QED BY <1>0, <1>1, <2>1, <2>2, <2>3, <2>4, <2>5, <2>6, <2>7, Removers DEF TablesFit
<1>2. ASSUME NEW s \in Sessions, PushSession(s) PROVE TablesFit'
  <2>1. sessionsAgg' \in [Sessions -> 0 .. MaxVersion]
    BY <1>00, <1>2 DEF PushSession, TablesFit
  <2> QED BY <1>2, <2>1 DEF PushSession, TablesFit
<1>3. CASE CronCrash
  <2>1. cronRuns' \subseteq [job : Jobs, day : 1 .. MaxDay, status : RunStatuses]
    BY <1>3, RecordedFits DEF CronCrash, TablesFit, RunStatuses
  <2>2. cronFaults' \in 0 .. MaxCronFaults
    BY <1>00, <1>3 DEF CronCrash, Fault, TablesFit
  <2> QED BY <1>0, <1>3, <2>1, <2>2 DEF CronCrash, tablesVars, TablesFit
<1>4. CASE NextDay
  <2>1. today' \in 1 .. MaxDay
    BY <1>00, <1>4 DEF NextDay
  <2>2. logged' \in [LoggedTables -> SUBSET (1 .. MaxDay)] /\ ipsOn' \subseteq 1 .. MaxDay
    BY <1>4, <2>1 DEF NextDay, Log, TablesFit
  <2> QED BY <1>4, <2>1, <2>2 DEF NextDay, TablesFit
<1>5. CASE UNCHANGED cronVars
  BY <1>5 DEF cronVars, tablesVars, TablesFit
<1> QED BY <1>1, <1>2, <1>3, <1>4, <1>5, StepCases

LEMMA CronFitStep == CronFit /\ [CronNext]_cronVars => CronFit'
BY CallsFitStep, TablesFitStep DEF CronFit

LEMMA CronFitInit == CronInit => CronFit
<1> SUFFICES ASSUME CronInit PROVE CronFit
  OBVIOUS
<1>1. 1 \in 1 .. MaxDay /\ 0 \in 0 .. MaxVersion /\ 0 \in 0 .. MaxCronFaults /\ 0 \in 0 .. MaxDay
  BY Windows, WindowsAssumption
<1>2. \A c \in CronCalls : CallFits(c, Resting, 1)
  <2>1. Resting = [Resting EXCEPT !.on = 0]
    BY DEF Resting
  <2> QED BY <1>1, <2>1, RestingFits
<1>3. cronCalls \in [CronCalls -> CronCallType]
  BY <1>2 DEF CronInit, CallFits
<1>4. TablesFit
  BY <1>1, <1>3 DEF CronInit, TablesFit, Log
<1> QED BY <1>2, <1>4 DEF CronInit, CronFit, CallsFit

(* Every table of the jobs keeps its shape: in particular a rollup never has  *)
(* two rows of a team and a day, whatever runs overlap.                      *)
THEOREM CronTypeCorrect == CronSpec => []CronTypeOK
<1>1. CronFit => CronTypeOK
  BY DEF CronFit, TablesFit, CronTypeOK, RollupRow
<1> QED BY <1>1, CronFitInit, CronFitStep, PTL DEF CronSpec

-----------------------------------------------------------------------------
(* The prune.                                                               *)

(* A cutoff is at least as old as the window that is retained today. *)
LEMMA CutoffOld ==
  ASSUME CronFit, NEW c \in CronCalls
  PROVE  /\ Cutoff(c) \in Int /\ today - RetentionDays \in Int
         /\ Cutoff(c) <= today - RetentionDays
<1>1. cronCalls[c].on \in Int /\ cronCalls[c].on <= today /\ today \in Int
  BY Windows DEF CronFit, TablesFit, CallsFit, CallFits, CronCallType
<1> QED BY <1>1, Windows DEF Cutoff

(* The prune deletes only what is older than the window that is retained,     *)
(* whichever run it is and however old its cutoff has become               *)
(* (retention-prune.ts:63, the floor of twelve months).                      *)
THEOREM RecentRowsKeptAlways == CronSpec => RecentRowsKept
<1> DEFINE Keeps ==
      /\ \A s \in Sessions : sessionsAgg'[s] = 0 /\ sessionsAgg[s] > 0
           => StartedOn[s] < today - RetentionDays
      /\ \A t \in LoggedTables \ {"manager_notifications"} :
           \A d \in logged[t] \ logged'[t] : d < today - RetentionDays
      /\ \A a \in anomalies \ anomalies' : a.day < today - RetentionDays
      /\ \A r \in cronRuns \ cronRuns' : r.day < today - RetentionDays
      /\ \A j \in Rollups : \A r \in rollups[j] :
           (\E q \in rollups'[j] : SameGroup(r, q)) \/ r.day < today - RetentionDays
<1>1. CronFit /\ [CronNext]_cronVars => [Keeps]_cronVars
  <2> SUFFICES ASSUME CronFit, CronNext PROVE Keeps
    OBVIOUS
  <2> USE DEF CronFit
  <2>1. \A j \in Rollups : \A r \in rollups[j] : SameGroup(r, r)
    BY DEF SameGroup
  <2>2. ASSUME NEW c \in CronCalls,
               StartCronRun(c) \/ CronStep(c) \/ CronThrow(c) \/ LoseCronRun(c)
        PROVE  Keeps
    <3>0. /\ Cutoff(c) \in Int /\ today - RetentionDays \in Int
          /\ Cutoff(c) <= today - RetentionDays
      BY CutoffOld
    <3>1. \A s \in Sessions : sessionsAgg'[s] = 0 /\ sessionsAgg[s] > 0
            => StartedOn[s] < today - RetentionDays
      <4>1. CASE PruneSessionGroup(c)
        BY <3>0, <4>1, WindowsAssumption DEF PruneSessionGroup
      <4>2. CASE sessionsAgg' = sessionsAgg
        BY <4>2
      <4> QED BY <2>2, <4>1, <4>2, Removers
    <3>2. \A t \in LoggedTables \ {"manager_notifications"} :
            \A d \in logged[t] \ logged'[t] : d < today - RetentionDays
      <4>1. CASE PruneNotifications(c)
        BY <4>1 DEF PruneNotifications
      <4>2. CASE PruneTable(c)
        <5>1. ASSUME NEW t \in LoggedTables, NEW d \in logged[t] \ logged'[t]
              PROVE  d \in Int /\ ~(d >= Cutoff(c))
          <6>1. d \in 1 .. MaxDay
            BY DEF TablesFit
          <6>2. d \notin Later(logged[t], Cutoff(c))
            BY <4>2 DEF PruneTable
          <6> QED BY <6>1, <6>2, Windows DEF Later
        <5> QED BY <3>0, <5>1
      <4> QED BY <2>2, <4>1, <4>2, Removers
    <3>3. \A a \in anomalies \ anomalies' : a.day < today - RetentionDays
      <4>1. CASE InsertAnomaly(c)
        BY <4>1 DEF InsertAnomaly
      <4>2. CASE PruneTable(c)
        <5>1. \A a \in anomalies : a.day \in Int
          BY Windows DEF TablesFit
        <5> QED BY <3>0, <4>2, <5>1 DEF PruneTable
      <4> QED BY <2>2, <4>1, <4>2, Removers
    <3>4. \A r \in cronRuns \ cronRuns' : r.day < today - RetentionDays
      <4>1. CASE PruneCronRuns(c)
        <5>1. \A r \in cronRuns : r.day \in Int
          BY Windows DEF TablesFit
        <5> QED BY <3>0, <4>1, <5>1 DEF PruneCronRuns
      <4>2. CASE FinishCronRun(c) \/ FailCronRun(c) \/ LoseCronRun(c)
        BY <4>2 DEF FinishCronRun, FailCronRun, LoseCronRun, EndRun
      <4> QED BY <2>2, <4>1, <4>2, Removers
    <3>5. \A j \in Rollups : \A r \in rollups[j] :
            (\E q \in rollups'[j] : SameGroup(r, q)) \/ r.day < today - RetentionDays
      <4>1. CASE UpsertGroups(c)
        <5>1. /\ cronCalls[c].rows \in SUBSET RollupRow /\ JobOf[c] \in Rollups
              /\ \A q, r \in cronCalls[c].rows : SameGroup(q, r) => q = r
          BY <4>1 DEF UpsertGroups, CronAt, CallsFit, CallFits
        <5>2. \A r \in rollups[JobOf[c]] :
                \E q \in Upsert(rollups[JobOf[c]], cronCalls[c].rows) : SameGroup(r, q)
          BY DEF Upsert, SameGroup
        <5>3. rollups' = [rollups EXCEPT ![JobOf[c]] = Upsert(rollups[JobOf[c]], cronCalls[c].rows)]
          BY <4>1 DEF UpsertGroups
        <5> QED BY <2>1, <5>1, <5>2, <5>3 DEF TablesFit
      <4>2. CASE PruneTable(c)
        <5>1. ASSUME NEW j \in Rollups, NEW r \in rollups[j]
              PROVE  r \in rollups'[j] \/ ~(r.day >= Cutoff(c))
          BY <4>2, <5>1 DEF PruneTable
        <5>2. \A j \in Rollups : \A r \in rollups[j] : r.day \in Int
          BY DEF TablesFit, RollupRow
        <5> QED BY <2>1, <3>0, <5>1, <5>2
      <4> QED BY <2>1, <2>2, <4>1, <4>2, Removers
    <3> QED BY <3>1, <3>2, <3>3, <3>4, <3>5
  <2>3. ASSUME NEW s \in Sessions, PushSession(s) PROVE Keeps
    <3>1. \A r \in Sessions : sessionsAgg[r] > 0 => sessionsAgg'[r] # 0
      BY <2>3, Windows DEF PushSession, TablesFit
    <3> QED BY <2>1, <2>3, <3>1 DEF PushSession
  <2>4. CASE CronCrash
    BY <2>1, <2>4 DEF CronCrash, tablesVars
  <2>5. CASE NextDay
    BY <2>1, <2>5 DEF NextDay
  <2> QED BY <2>2, <2>3, <2>4, <2>5 DEF CronNext
<1>2. CronFit /\ [CronNext]_cronVars => CronFit'
  BY CronFitStep
<1>3. CronInit => CronFit
  BY CronFitInit
<1> QED BY <1>1, <1>2, <1>3, PTL DEF CronSpec, RecentRowsKept

-----------------------------------------------------------------------------
(* What a prune that goes on has got rid of.                                *)

(* A table without rows older than a cutoff. *)
Clean(table, cutoff) ==
  /\ \A t \in LoggedTables : t = table => \A d \in logged[t] : d >= cutoff
  /\ table = "manager_anomalies" => \A a \in anomalies : a.day >= cutoff
  /\ table = "team_metrics_daily" => \A r \in rollups["metrics"] : r.day >= cutoff
  /\ table = "team_outcomes_daily" => \A r \in rollups["outcomes"] : r.day >= cutoff

PrunedUpTo(c, i) ==
  \/ CronAt(c, "ok")
  \/ CronAt(c, "delete") /\ i < cronCalls[c].at

(* The tables a prune has deleted from are clean, and stay so. *)
PruneProgress ==
  \A c \in CronCalls, i \in 1 .. 9 :
    JobOf[c] = "prune" /\ PrunedUpTo(c, i) => Clean(DirectDeleteTables[i], Cutoff(c))

PruneInv == CronFit /\ PruneProgress

(* No statement writes a row older than the window that is retained: the       *)
(* detector and the rollups go on past one midnight at most, and look back    *)
(* less.                                                                    *)
LEMMA StaysClean ==
  ASSUME CronFit, [CronNext]_cronVars, NEW table, NEW cutoff \in Int,
         cutoff <= today - RetentionDays, Clean(table, cutoff)
  PROVE  Clean(table, cutoff)'
<1> USE DEF CronFit
<1>0. /\ today \in Int /\ MaxDay \in Int /\ RetentionDays \in Int /\ BackfillDays \in Int
      /\ today - RetentionDays \in Int /\ BackfillDays <= RetentionDays /\ RetentionDays >= 1
  BY Windows DEF TablesFit
<1>1. ASSUME NEW c \in CronCalls,
             StartCronRun(c) \/ CronStep(c) \/ CronThrow(c) \/ LoseCronRun(c)
      PROVE  Clean(table, cutoff)'
  <2>0. CallFits(c, cronCalls[c], today)
    BY DEF CallsFit
  <2>1. \A t \in LoggedTables : logged'[t] \subseteq logged[t]
    <3>1. CASE PruneNotifications(c)
      BY <3>1 DEF PruneNotifications, Later
    <3>2. CASE PruneTable(c)
      BY <3>2 DEF PruneTable, Later
    <3> QED BY <1>1, <3>1, <3>2, Removers
  <2>2. \A a \in anomalies' : a \in anomalies \/ a.day >= cutoff
    <3>1. CASE InsertAnomaly(c)
      <4>1. /\ cronCalls[c].rows \subseteq Findings(cronCalls[c].on)
            /\ cronCalls[c].on \in {today - 1, today}
        BY <2>0, <3>1 DEF InsertAnomaly, CronAt, CallFits
      <4>2. cronCalls[c].on >= cutoff
        BY <1>0, <4>1
      <4>3. \A a \in cronCalls[c].rows : a.day >= cutoff
        BY <4>1, <4>2 DEF Findings
      <4> QED BY <3>1, <4>3 DEF InsertAnomaly
    <3>2. CASE PruneTable(c)
      BY <3>2 DEF PruneTable
    <3> QED BY <1>1, <3>1, <3>2, Removers
  <2>3. \A j \in Rollups : \A r \in rollups'[j] : r \in rollups[j] \/ r.day >= cutoff
    <3>1. CASE UpsertGroups(c)
      <4>1. /\ cronCalls[c].rows \subseteq RollupRow
            /\ \A r \in cronCalls[c].rows : r.day > cronCalls[c].on - BackfillDays
            /\ cronCalls[c].on \in {today - 1, today}
        BY <2>0, <3>1 DEF UpsertGroups, CronAt, CallFits
      <4>2. \A r \in cronCalls[c].rows : r.day >= cutoff
        <5>1. \A r \in cronCalls[c].rows : r.day \in Int
          BY <4>1 DEF RollupRow
        <5>2. PICK on \in {today - 1, today} : on = cronCalls[c].on
          BY <4>1
        <5> QED BY <1>0, <4>1, <5>1, <5>2
      <4>3. Upsert(rollups[JobOf[c]], cronCalls[c].rows) \subseteq rollups[JobOf[c]] \cup cronCalls[c].rows
        BY DEF Upsert
      <4>4. rollups' = [rollups EXCEPT ![JobOf[c]] = Upsert(rollups[JobOf[c]], cronCalls[c].rows)]
        BY <3>1 DEF UpsertGroups
      <4> QED BY <4>2, <4>3, <4>4 DEF TablesFit
    <3>2. CASE PruneTable(c)
      BY <3>2 DEF PruneTable
    <3> QED BY <1>1, <3>1, <3>2, Removers
  <2> QED BY <2>1, <2>2, <2>3 DEF Clean, Rollups
<1>2. CASE \E s \in Sessions : PushSession(s)
  BY <1>2 DEF PushSession, Clean
<1>3. CASE CronCrash
  BY <1>3 DEF CronCrash, tablesVars, Clean
<1>4. CASE NextDay
  <2>1. \A t \in LoggedTables : logged'[t] = logged[t] \cup {today + 1}
    BY <1>4 DEF NextDay
  <2>2. today + 1 >= cutoff
    BY <1>0
  <2> QED BY <1>4, <2>1, <2>2 DEF NextDay, Clean
<1>5. CASE UNCHANGED cronVars
  BY <1>5 DEF cronVars, tablesVars, Clean
<1> QED BY <1>1, <1>2, <1>3, <1>4, <1>5, StepCases

(* How a prune gets to have deleted from a table. *)
LEMMA PruneSteps ==
  ASSUME CronFit, NEW c \in CronCalls, JobOf[c] = "prune",
         StartCronRun(c) \/ CronStep(c) \/ CronThrow(c) \/ LoseCronRun(c),
         cronCalls'[c].pc \in {"ok", "delete"}
  PROVE  /\ cronCalls'[c].on = cronCalls[c].on
         /\ \/ cronCalls'[c].pc = "delete" /\ cronCalls'[c].at = 1
            \/ PruneTable(c) /\ MayDelete(DirectDeleteTables[cronCalls[c].at])
                 /\ cronCalls'[c].at = cronCalls[c].at + 1 /\ cronCalls'[c].pc = "delete"
            \/ PruneCronRuns(c)
<1> USE DEF CronFit
<1>0. /\ cronCalls[c] \in CronCallType /\ cronCalls \in [CronCalls -> CronCallType]
      /\ CallFits(c, cronCalls[c], today)
  BY DEF TablesFit, CallsFit
<1>1. cronCalls[c].pc \in {"idle", "sessions", "delete", "ok", "failed"}
  BY <1>0 DEF CallFits, CronCallType, Rollups
<1>2. CASE StartCronRun(c)
  <2>1. FirstStep[JobOf[c]] = "sessions"
    BY DEF FirstStep
  <2>2. cronCalls'[c] = [Resting EXCEPT !.pc = "sessions", !.on = today]
    BY <1>0, <1>2, <2>1 DEF StartCronRun, SetCronCall
  <2>3. cronCalls'[c].pc = "sessions"
    BY <2>2 DEF Resting
  <2> QED BY <2>3
<1>3. CASE PruneSessionGroup(c)
  BY <1>0, <1>3 DEF PruneSessionGroup, SetCronCall, CronCallType
<1>4. CASE PruneTable(c)
  <2> DEFINE table == DirectDeleteTables[cronCalls[c].at]
  <2>1. CASE MayDelete(table)
    <3>1. CronAt(c, "delete") /\ SetCronCall(c, [cronCalls[c] EXCEPT !.at = @ + 1])
      BY <1>4, <2>1 DEF PruneTable
    <3>2. /\ cronCalls'[c].on = cronCalls[c].on /\ cronCalls'[c].pc = "delete"
          /\ cronCalls'[c].at = cronCalls[c].at + 1
      BY <1>0, <3>1 DEF SetCronCall, CronAt, CronCallType
    <3> QED BY <1>4, <2>1, <3>2
  <2>2. CASE ~MayDelete(table)
    <3>1. cronCalls'[c].pc = "failed"
      BY <1>0, <1>4, <2>2 DEF PruneTable, SetCronCall, CronGoto, CronCallType
    <3> QED BY <3>1
  <2> QED BY <2>1, <2>2
<1>5. CASE PruneCronRuns(c)
  BY <1>0, <1>5 DEF PruneCronRuns, SetCronCall, CronGoto, CronCallType
<1>6. CASE FinishCronRun(c) \/ FailCronRun(c) \/ LoseCronRun(c)
  BY <1>0, <1>6 DEF FinishCronRun, FailCronRun, LoseCronRun, EndRun, SetCronCall, Answered, Resting
<1>7. CASE CronThrow(c)
  BY <1>0, <1>7 DEF CronThrow, SetCronCall, CronCallType
<1>8. CASE \/ ResolveWindowStarts(c) \/ SelectGroups(c) \/ UpsertGroups(c) \/ AnalyzeTeams(c)
           \/ InsertAnomaly(c) \/ ClearAuditIps(c) \/ PruneNotifications(c)
  BY <1>1, <1>8 DEF ResolveWindowStarts, SelectGroups, UpsertGroups, AnalyzeTeams, InsertAnomaly,
                    ClearAuditIps, PruneNotifications, CronAt
<1> QED BY <1>2, <1>3, <1>4, <1>5, <1>6, <1>7, <1>8 DEF CronStep

(* The table a prune deletes from is clean then. *)
LEMMA DeletedIsClean ==
  ASSUME NEW c \in CronCalls, PruneTable(c), NEW table, NEW cutoff,
         table = DirectDeleteTables[cronCalls[c].at], MayDelete(table), cutoff = Cutoff(c)
  PROVE  Clean(table, cutoff)'
<1>1. \A t \in LoggedTables : t = table => \A d \in logged'[t] : d >= cutoff
  BY DEF PruneTable, Later
<1>2. table = "manager_anomalies" => \A a \in anomalies' : a.day >= cutoff
  BY DEF PruneTable
<1>3. table = "team_metrics_daily" => \A r \in rollups'["metrics"] : r.day >= cutoff
  BY DEF PruneTable, Rollups
<1>4. table = "team_outcomes_daily" => \A r \in rollups'["outcomes"] : r.day >= cutoff
  BY DEF PruneTable, Rollups
<1> QED BY <1>1, <1>2, <1>3, <1>4 DEF Clean

LEMMA PruneProgressStep ==
  ASSUME PruneInv, [CronNext]_cronVars
  PROVE  PruneProgress'
<1> USE DEF PruneInv
<1> SUFFICES ASSUME NEW c \in CronCalls, NEW i \in 1 .. 9, JobOf[c] = "prune", PrunedUpTo(c, i)'
             PROVE  Clean(DirectDeleteTables[i], Cutoff(c))'
  BY DEF PruneProgress
<1>1. PICK table : table = DirectDeleteTables[i]
  OBVIOUS
<1>2. PICK cutoff \in Int : cutoff = Cutoff(c) /\ cutoff <= today - RetentionDays
  BY CutoffOld
<1>3. cronCalls'[c].on = cronCalls[c].on /\ (Clean(table, cutoff)')
      => Clean(DirectDeleteTables[i], Cutoff(c))'
  BY <1>1, <1>2 DEF Clean, Cutoff
<1>4. ASSUME PrunedUpTo(c, i), cronCalls'[c].on = cronCalls[c].on
      PROVE  Clean(DirectDeleteTables[i], Cutoff(c))'
  <2>1. Clean(table, cutoff)
    BY <1>1, <1>2, <1>4 DEF PruneProgress
  <2>2. Clean(table, cutoff)'
    BY <1>2, <2>1, StaysClean
  <2> QED BY <1>3, <1>4, <2>2
<1>5. ASSUME cronCalls'[c] = cronCalls[c] PROVE Clean(DirectDeleteTables[i], Cutoff(c))'
  BY <1>4, <1>5 DEF PrunedUpTo, CronAt
<1>6. CASE StartCronRun(c) \/ CronStep(c) \/ CronThrow(c) \/ LoseCronRun(c)
  <2>0. /\ cronCalls'[c].pc \in {"ok", "delete"}
        /\ cronCalls'[c].pc = "delete" => i < cronCalls'[c].at
        /\ cronCalls[c] \in CronCallType
    BY DEF PrunedUpTo, CronAt, CronFit, TablesFit
  <2>1. cronCalls'[c].on = cronCalls[c].on
    BY <1>6, <2>0, PruneSteps
  <2>2. CASE cronCalls'[c].pc = "delete" /\ cronCalls'[c].at = 1
    BY <2>0, <2>2
  <2>3. CASE /\ PruneTable(c) /\ MayDelete(DirectDeleteTables[cronCalls[c].at])
             /\ cronCalls'[c].at = cronCalls[c].at + 1 /\ cronCalls'[c].pc = "delete"
    <3>1. i < cronCalls[c].at \/ i = cronCalls[c].at
      <4>1. cronCalls[c].at \in Int
        BY <2>0, DeleteTables DEF CronCallType
      <4> QED BY <2>0, <2>3, <4>1
    <3>2. CASE i < cronCalls[c].at
      <4>1. PrunedUpTo(c, i)
        BY <2>3, <3>2 DEF PrunedUpTo, PruneTable
      <4> QED BY <1>4, <2>1, <4>1
    <3>3. CASE i = cronCalls[c].at
      <4>1. Clean(table, cutoff)'
        BY <1>1, <1>2, <2>3, <3>3, DeletedIsClean
      <4> QED BY <1>3, <2>1, <4>1
    <3> QED BY <3>1, <3>2, <3>3
  <2>4. CASE PruneCronRuns(c)
    <3>1. cronCalls[c].at \in Int
      BY <2>0, DeleteTables DEF CronCallType
    <3>2. PrunedUpTo(c, i)
      BY <2>4, <3>1, DeleteTables DEF PrunedUpTo, PruneCronRuns
    <3> QED BY <1>4, <2>1, <3>2
  <2> QED BY <1>6, <2>0, <2>2, <2>3, <2>4, PruneSteps
<1>7. ASSUME NEW b \in CronCalls, b # c,
             StartCronRun(b) \/ CronStep(b) \/ CronThrow(b) \/ LoseCronRun(b)
      PROVE  cronCalls'[c] = cronCalls[c]
  <2>1. \E call : SetCronCall(b, call)
    BY <1>7, RunStep
  <2> QED BY <1>7, <2>1 DEF SetCronCall, CronFit, TablesFit
<1>8. CASE CronCrash
  <2>1. cronCalls'[c].pc = "idle"
    BY <1>8 DEF CronCrash, Answered, Resting
  <2> QED BY <2>1 DEF PrunedUpTo, CronAt
<1>9. CASE (\E s \in Sessions : PushSession(s)) \/ NextDay \/ UNCHANGED cronVars
  BY <1>5, <1>9 DEF PushSession, NextDay, cronVars
<1> QED BY <1>5, <1>6, <1>7, <1>8, <1>9, StepCases

(* Rows older than the window when a prune began are gone when it ends ok:    *)
(* no table is forgotten (data-retention-policy REQ-1).                      *)
THEOREM PruneLeavesNothingAlways == CronSpec => []PruneLeavesNothing
<1>1. CronInit => PruneInv
  <2>1. CronInit => PruneProgress
    BY DEF CronInit, PruneProgress, PrunedUpTo, CronAt, Resting
  <2> QED BY <2>1, CronFitInit DEF PruneInv
<1>2. PruneInv /\ [CronNext]_cronVars => PruneInv'
  BY CronFitStep, PruneProgressStep DEF PruneInv
<1>3. PruneInv => PruneLeavesNothing
  <2> SUFFICES ASSUME PruneInv, NEW c \in CronCalls, JobOf[c] = "prune", CronAt(c, "ok")
               PROVE  /\ \A t \in LoggedTables \ {"manager_notifications"} :
                           \A d \in logged[t] : d >= Cutoff(c)
                      /\ \A a \in anomalies : a.day >= Cutoff(c)
                      /\ \A j \in Rollups : \A r \in rollups[j] : r.day >= Cutoff(c)
    BY DEF PruneLeavesNothing
  <2>1. \A i \in 1 .. 9 : Clean(DirectDeleteTables[i], Cutoff(c))
    BY DEF PruneInv, PruneProgress, PrunedUpTo
  <2>2. \A t \in GrowingTables \cup {"manager_anomalies", "team_metrics_daily", "team_outcomes_daily"} :
          Clean(t, Cutoff(c))
    BY <2>1, DeleteTables
  <2>3. LoggedTables \subseteq GrowingTables \cup {"manager_notifications"}
    BY CronAssumption
  <2> QED BY <2>2, <2>3 DEF Clean, Rollups
<1> QED BY <1>1, <1>2, <1>3, PTL DEF CronSpec

-----------------------------------------------------------------------------
(* Proofs about what managers and administrators do: about AdminOps, for    *)
(* every set of requests, of users and of keys, and every number of days;   *)
(* and, in the second part, the three promises of the invite console, for   *)
(* any requests and any life of the cache and of the cookie: TokensAudited, *)
(* RetryIsAnswered and UrlShownShortly.                                     *)

(* What a request has established when it is where it is: the machine or the *)
(* user it has read is of its organisation, and a role or a reason is one    *)
(* the form offers.                                                         *)
CallShape ==
  \A c \in AdminCalls :
    /\ AdminAt(c, "allowed") => c.op # "redeem"
    /\ AdminAt(c, "read") => c.op \in {"revoke", "offboard", "redeem", "drilldown"}
    /\ AdminAt(c, "after") => c.op = "drilldown"
    /\ AdminAt(c, "read") /\ c.op = "revoke" =>
         /\ found[c] \in Keys /\ machines[found[c]] # "none"
         /\ PrefixOf[found[c]] = c.on /\ SameOrg(KeyOwner[found[c]], c.by)
    /\ AdminAt(c, "read") /\ c.op \in {"offboard", "drilldown"} => SameOrg(c.on, c.by)
    /\ adminCalls[c] \in {"allowed", "read"} /\ c.op = "drilldown" => c.with \in DrilldownReasons

(* The key of a redeem that has not inserted it is nobody's. *)
FreshKeys ==
  \A c \in AdminCalls :
    c.op = "redeem" /\ adminCalls[c] \in {"idle", "read"} => machines[c.with] = "none"

AdminShape == AdminTypeOK /\ CallShape /\ FreshKeys

LEMMA AdminShapeInit == AdminInit => AdminShape
<1> SUFFICES ASSUME AdminInit PROVE AdminShape
  OBVIOUS
<1> USE DEF AdminInit
<1>1. AdminTypeOK
  <2>1. day \in 1 .. AdminDays
    BY AdminAssumption
  <2>2. accounts \in [Users -> [role : UserRoles, departed : BOOLEAN]]
    BY AdminAssumption
  <2>3. UniqueIn(drilldowns, DrilldownKey) /\ UniqueIn(dismissals, DismissalKey)
    BY DEF UniqueIn
  <2> QED BY <2>1, <2>2, <2>3 DEF AdminTypeOK, Nullable
<1>2. CallShape
  BY DEF CallShape, AdminAt
<1>3. FreshKeys
  BY RequestsAssumption DEF FreshKeys
<1> QED BY <1>1, <1>2, <1>3 DEF AdminShape

(* A request that takes a step changes where it is, and nobody else's place. *)
LEMMA OneCall ==
  ASSUME AdminTypeOK, NEW c \in AdminCalls, AdminStep(c)
  PROVE  /\ role' = role /\ asked' = asked /\ day' = day
         /\ adminCalls' \in [AdminCalls -> {"idle", "allowed", "read", "after", "done", "refused",
                                            "failed"}]
         /\ adminCalls'[c] # "idle"
         /\ \A d \in AdminCalls \ {c} : adminCalls'[d] = adminCalls[d] /\ found'[d] = found[d]
         /\ found' = found \/ FindMachine(c)
<1> USE DEF AdminTypeOK, AdminGoto
<1>1. CASE Authorise(c) \/ AdminFail(c)
  BY <1>1 DEF Authorise, AdminFail
<1>2. CASE FindMachine(c)
  BY <1>2 DEF FindMachine, Nullable
<1>3. CASE RevokeMachine(c) \/ FindUser(c) \/ OffboardUser(c) \/ UpdateUserRole(c)
  BY <1>3 DEF RevokeMachine, FindUser, OffboardUser, UpdateUserRole
<1>4. CASE RedeemFindsUser(c) \/ RedeemInsertsMachine(c) \/ FindDeveloper(c)
  BY <1>4 DEF RedeemFindsUser, RedeemInsertsMachine, FindDeveloper
<1>5. CASE ViewDeveloper(c) \/ NotifyDeveloper(c)
  BY <1>5 DEF ViewDeveloper, NotifyDeveloper
<1>6. CASE DismissAnomaly(c) \/ AcknowledgeAlert(c)
  BY <1>6 DEF DismissAnomaly, AcknowledgeAlert
<1> QED BY <1>1, <1>2, <1>3, <1>4, <1>5, <1>6 DEF AdminStep

(* Which step writes which table. *)
LEMMA Writers ==
  ASSUME NEW c \in AdminCalls, AdminStep(c)
  PROVE  /\ accounts' = accounts \/ OffboardUser(c) \/ UpdateUserRole(c)
         /\ \/ machines' = machines
            \/ RevokeMachine(c) \/ OffboardUser(c) \/ RedeemInsertsMachine(c)
         /\ lateKeys' = lateKeys \/ OffboardUser(c)
         /\ UNCHANGED auditVars \/ RevokeMachine(c) \/ OffboardUser(c)
         /\ drilldowns' = drilldowns \/ OffboardUser(c) \/ ViewDeveloper(c)
         /\ shown' = shown \/ ViewDeveloper(c)
         /\ notified' = notified \/ NotifyDeveloper(c)
         /\ dismissals' = dismissals \/ DismissAnomaly(c)
         /\ acks' = acks \/ AcknowledgeAlert(c)
<1> USE DEF accountVars, auditVars, viewVars, alertVars
<1>1. CASE Authorise(c) \/ AdminFail(c) \/ FindMachine(c) \/ FindUser(c)
  BY <1>1 DEF Authorise, AdminFail, FindMachine, FindUser
<1>2. CASE RevokeMachine(c) \/ OffboardUser(c) \/ UpdateUserRole(c)
  BY <1>2 DEF RevokeMachine, OffboardUser, UpdateUserRole
<1>3. CASE RedeemFindsUser(c) \/ RedeemInsertsMachine(c) \/ FindDeveloper(c)
  BY <1>3 DEF RedeemFindsUser, RedeemInsertsMachine, FindDeveloper
<1>4. CASE ViewDeveloper(c) \/ NotifyDeveloper(c)
  BY <1>4 DEF ViewDeveloper, NotifyDeveloper
<1>5. CASE DismissAnomaly(c) \/ AcknowledgeAlert(c)
  BY <1>5 DEF DismissAnomaly, AcknowledgeAlert
<1> QED BY <1>1, <1>2, <1>3, <1>4, <1>5 DEF AdminStep

(* What a departure writes, when the role may write it. *)
LEMMA Departure ==
  ASSUME AdminTypeOK, NEW c \in AdminCalls, OffboardUser(c)
  PROVE  \/ UNCHANGED <<accountVars, drilldowns, auditVars>>
         \/ /\ c.on \in Users
            /\ accounts' = [accounts EXCEPT ![c.on] = [role |-> "member", departed |-> TRUE]]
            /\ departedBy' = IF accounts[c.on].departed THEN departedBy
                                                       ELSE [departedBy EXCEPT ![c.on] = c]
            /\ RevokeKeys(c, MachinesOf(c.on))
            /\ overtaken' = overtaken \cup RevocationsOf(Live(MachinesOf(c.on)))
                                     \cup (DeparturesOf(c.on) \ {c})
            /\ lateKeys' = lateKeys \cup {r.with : r \in RedeemsUnderWay(c.on)}
            /\ drilldowns' = {IF r.target = c.on THEN [r EXCEPT !.reasonText = FALSE] ELSE r :
                                r \in drilldowns}
            /\ adminAudit' = adminAudit \cup {c}
            /\ AdminAt(c, "read") /\ c.op = "offboard" /\ adminCalls'[c] = "done"
BY RequestsAssumption DEF OffboardUser, AdminTypeOK, AdminGoto

(* What the UPDATE of some machines does to one of them. *)
LEMMA RevokedOne ==
  ASSUME AdminTypeOK, NEW c \in AdminCalls, NEW ks \in SUBSET Keys, RevokeKeys(c, ks)
  PROVE  /\ machines' \in [Keys -> {"none", "live", "revoked"}]
         /\ revokedBy' \in [Keys -> Nullable(AdminCalls)]
         /\ \A k \in Keys :
              IF k \in ks /\ machines[k] = "live"
                THEN machines'[k] = "revoked" /\ revokedBy'[k] = c
                ELSE machines'[k] = machines[k] /\ revokedBy'[k] = revokedBy[k]
BY DEF RevokeKeys, Live, AdminTypeOK, Nullable

LEMMA MachinesAreKeys == \A u : MachinesOf(u) \in SUBSET Keys
BY DEF MachinesOf

-----------------------------------------------------------------------------
(* The types.                                                               *)

(* The rows of drilldowns keep their key and their columns' types. *)
LEMMA DrilldownRows ==
  ASSUME AdminShape, NEW c \in AdminCalls, AdminStep(c)
  PROVE  drilldowns' \subseteq DrilldownRow /\ UniqueIn(drilldowns', DrilldownKey)
<1> USE DEF AdminShape, AdminTypeOK
<1>1. CASE drilldowns' = drilldowns
  BY <1>1
<1>2. CASE OffboardUser(c) /\ drilldowns' # drilldowns
  <2> DEFINE kept(r) == IF r.target = c.on THEN [r EXCEPT !.reasonText = FALSE] ELSE r
  <2>1. drilldowns' = {kept(r) : r \in drilldowns}
    BY <1>2, Departure
  <2>2. \A r \in drilldowns : kept(r) \in DrilldownRow /\ DrilldownKey(kept(r)) = DrilldownKey(r)
    BY DEF DrilldownRow, DrilldownKey
  <2> HIDE DEF kept
  <2>3. \A q, r \in drilldowns' : DrilldownKey(q) = DrilldownKey(r) => q = r
    BY <2>1, <2>2 DEF UniqueIn
  <2> QED BY <2>1, <2>2, <2>3 DEF UniqueIn
<1>3. CASE ViewDeveloper(c) /\ drilldowns' # drilldowns
  <2>1. ~Audited(c) /\ drilldowns' = drilldowns \cup {DrilldownOf(c)} /\ AdminAt(c, "read")
        /\ c.op = "drilldown"
    BY <1>3 DEF ViewDeveloper
  <2>2. DrilldownOf(c) \in DrilldownRow
    BY <2>1, RequestsAssumption, AdminAssumption DEF DrilldownOf, DrilldownRow, CallShape, AdminAt
  <2>3. \A r \in drilldowns : DrilldownKey(r) # DrilldownKey(DrilldownOf(c))
    BY <2>1 DEF Audited
  <2> QED BY <2>1, <2>2, <2>3 DEF UniqueIn
<1> QED BY <1>1, <1>2, <1>3, Writers

LEMMA AdminTypeStep ==
  ASSUME AdminShape, NEW c \in AdminCalls, AdminStep(c)
  PROVE  AdminTypeOK'
<1> USE DEF AdminShape, AdminTypeOK
<1>1. accounts' \in [Users -> [role : UserRoles, departed : BOOLEAN]]
  <2>1. CASE OffboardUser(c) /\ accounts' # accounts
    <3>1. accounts' = [accounts EXCEPT ![c.on] = [role |-> "member", departed |-> TRUE]]
      BY <2>1, Departure DEF accountVars
    <3> QED BY <3>1 DEF UserRoles
  <2>2. CASE UpdateUserRole(c)
    BY <2>2, RequestsAssumption DEF UpdateUserRole
  <2> QED BY <2>1, <2>2, Writers
<1>2. machines' \in [Keys -> {"none", "live", "revoked"}]
  <2>1. CASE RevokeMachine(c)
    BY <2>1, RevokedOne DEF RevokeMachine, CallShape
  <2>2. CASE OffboardUser(c) /\ machines' # machines
    BY <2>2, Departure, RevokedOne, MachinesAreKeys DEF accountVars
  <2>3. CASE RedeemInsertsMachine(c)
    BY <2>3 DEF RedeemInsertsMachine
  <2> QED BY <2>1, <2>2, <2>3, Writers
<1>3. lateKeys' \subseteq Keys
  <2>1. CASE OffboardUser(c) /\ lateKeys' # lateKeys
    BY <2>1, Departure, RequestsAssumption DEF accountVars, RedeemsUnderWay
  <2> QED BY <2>1, Writers
<1>4. {adminAudit', overtaken', notified', shown'} \subseteq SUBSET AdminCalls
  <2>1. adminAudit' \subseteq AdminCalls /\ overtaken' \subseteq AdminCalls
    <3>1. CASE RevokeMachine(c)
      BY <3>1 DEF RevokeMachine, RevocationsOf
    <3>2. CASE OffboardUser(c)
      BY <3>2, Departure DEF RevocationsOf, DeparturesOf, auditVars
    <3> QED BY <3>1, <3>2, Writers DEF auditVars
  <2>2. notified' \subseteq AdminCalls
    <3>1. CASE NotifyDeveloper(c)
      BY <3>1 DEF NotifyDeveloper
    <3> QED BY <3>1, Writers
  <2>3. shown' \subseteq AdminCalls
    <3>1. CASE ViewDeveloper(c)
      BY <3>1 DEF ViewDeveloper
    <3> QED BY <3>1, Writers
  <2> QED BY <2>1, <2>2, <2>3
<1>5. UniqueIn(dismissals', DismissalKey)
  <2>1. CASE DismissAnomaly(c)
    BY <2>1 DEF DismissAnomaly, UniqueIn
  <2> QED BY <2>1, Writers
<1>6. acks' \subseteq [manager : Users, event : AutoEvents]
  <2>1. CASE AcknowledgeAlert(c)
    BY <2>1, RequestsAssumption DEF AcknowledgeAlert
  <2> QED BY <2>1, Writers
<1>7. found' \in [AdminCalls -> Nullable(Keys)]
  <2>1. CASE FindMachine(c)
    BY <2>1 DEF FindMachine, Nullable
  <2> QED BY <2>1, OneCall
<1>8. revokedBy' \in [Keys -> Nullable(AdminCalls)] /\ departedBy' \in [Users -> Nullable(AdminCalls)]
  <2>1. CASE RevokeMachine(c)
    BY <2>1, RevokedOne DEF RevokeMachine, CallShape
  <2>2. CASE OffboardUser(c) /\ ~UNCHANGED <<accountVars, drilldowns, auditVars>>
    <3>1. RevokeKeys(c, MachinesOf(c.on)) /\ departedBy' \in [Users -> Nullable(AdminCalls)]
      BY <2>2, Departure DEF Nullable
    <3> QED BY <3>1, RevokedOne, MachinesAreKeys
  <2> QED BY <2>1, <2>2, Writers DEF auditVars
<1> QED BY <1>1, <1>2, <1>3, <1>4, <1>5, <1>6, <1>7, <1>8, OneCall, DrilldownRows

(* A key there is stays, and one no redeem has inserted is not inserted by    *)
(* anything else.                                                           *)
LEMMA MachinesChange ==
  ASSUME AdminShape, NEW c \in AdminCalls, AdminStep(c), NEW k \in Keys
  PROVE  \/ machines'[k] = machines[k] /\ revokedBy'[k] = revokedBy[k]
         \/ /\ machines[k] = "none" /\ machines'[k] = "live" /\ revokedBy'[k] = revokedBy[k]
            /\ RedeemInsertsMachine(c) /\ c.with = k
         \/ /\ machines[k] = "live" /\ machines'[k] = "revoked" /\ revokedBy'[k] = c
            /\ adminAudit' = adminAudit \cup {c}
            /\ \/ /\ RevokeMachine(c) /\ found[c] = k
                  /\ RevocationsOf({k}) \ {c} \subseteq overtaken'
               \/ /\ OffboardUser(c) /\ KeyOwner[k] = c.on
                  /\ RevocationsOf({k}) \subseteq overtaken'
<1> USE DEF AdminShape, AdminTypeOK
<1>1. CASE RevokeMachine(c)
  <2>1. found[c] \in Keys /\ RevokeKeys(c, {found[c]})
    BY <1>1 DEF RevokeMachine, CallShape
  <2>2. CASE k = found[c] /\ machines[k] = "live"
    <3>1. Live({found[c]}) = {k}
      BY <2>2 DEF Live
    <3>2. machines'[k] = "revoked" /\ revokedBy'[k] = c
      BY <2>1, <2>2, RevokedOne
    <3> QED BY <1>1, <2>2, <3>1, <3>2 DEF RevokeMachine
  <2>3. CASE ~(k = found[c] /\ machines[k] = "live")
    BY <2>1, <2>3, RevokedOne
  <2> QED BY <2>2, <2>3
<1>2. CASE OffboardUser(c) /\ ~UNCHANGED <<accountVars, drilldowns, auditVars>>
  <2>1. /\ RevokeKeys(c, MachinesOf(c.on)) /\ adminAudit' = adminAudit \cup {c}
        /\ RevocationsOf(Live(MachinesOf(c.on))) \subseteq overtaken'
    BY <1>2, Departure
  <2>2. CASE k \in MachinesOf(c.on) /\ machines[k] = "live"
    <3>1. RevocationsOf({k}) \subseteq RevocationsOf(Live(MachinesOf(c.on)))
      BY <2>2 DEF RevocationsOf, Live
    <3>2. machines'[k] = "revoked" /\ revokedBy'[k] = c
      BY <2>1, <2>2, RevokedOne, MachinesAreKeys
    <3>3. KeyOwner[k] = c.on
      BY <2>2 DEF MachinesOf
    <3> QED BY <1>2, <2>1, <2>2, <3>1, <3>2, <3>3
  <2>3. CASE ~(k \in MachinesOf(c.on) /\ machines[k] = "live")
    BY <2>1, <2>3, RevokedOne, MachinesAreKeys
  <2> QED BY <2>2, <2>3
<1>3. CASE RedeemInsertsMachine(c)
  <2>1. /\ machines' = [machines EXCEPT ![c.with] = "live"] /\ revokedBy' = revokedBy
        /\ machines[c.with] = "none"
    BY <1>3 DEF RedeemInsertsMachine, FreshKeys, AdminAt, auditVars
  <2> QED BY <1>3, <2>1
<1>4. CASE machines' = machines /\ UNCHANGED auditVars
  BY <1>4 DEF auditVars
<1> QED BY <1>1, <1>2, <1>3, <1>4, Writers DEF accountVars

LEMMA CallShapeStep ==
  ASSUME AdminShape, NEW c \in AdminCalls, AdminStep(c)
  PROVE  CallShape'
<1> USE DEF AdminShape, AdminTypeOK
<1>1. ASSUME NEW d \in AdminCalls, AdminAt(d, "read"), d.op = "revoke", found'[d] = found[d]
      PROVE  /\ found'[d] \in Keys /\ machines'[found'[d]] # "none"
             /\ PrefixOf[found'[d]] = d.on /\ SameOrg(KeyOwner[found'[d]], d.by)
  <2>1. /\ found[d] \in Keys /\ machines[found[d]] # "none"
        /\ PrefixOf[found[d]] = d.on /\ SameOrg(KeyOwner[found[d]], d.by)
    BY <1>1 DEF CallShape
  <2>2. machines'[found[d]] # "none"
    BY <2>1, MachinesChange
  <2> QED BY <1>1, <2>1, <2>2
<1>2. ASSUME NEW d \in AdminCalls \ {c}
      PROVE  /\ adminCalls'[d] = "allowed" => d.op # "redeem"
             /\ adminCalls'[d] = "read" => d.op \in {"revoke", "offboard", "redeem", "drilldown"}
             /\ adminCalls'[d] = "after" => d.op = "drilldown"
             /\ adminCalls'[d] = "read" /\ d.op = "revoke" =>
                  /\ found'[d] \in Keys /\ machines'[found'[d]] # "none"
                  /\ PrefixOf[found'[d]] = d.on /\ SameOrg(KeyOwner[found'[d]], d.by)
             /\ adminCalls'[d] = "read" /\ d.op \in {"offboard", "drilldown"} => SameOrg(d.on, d.by)
             /\ adminCalls'[d] \in {"allowed", "read"} /\ d.op = "drilldown"
                  => d.with \in DrilldownReasons
  <2>1. adminCalls'[d] = adminCalls[d] /\ found'[d] = found[d]
    BY <1>2, OneCall
  <2> QED BY <1>1, <1>2, <2>1 DEF CallShape, AdminAt
<1>3. /\ adminCalls'[c] = "allowed" => c.op # "redeem"
      /\ adminCalls'[c] = "read" => c.op \in {"revoke", "offboard", "redeem", "drilldown"}
      /\ adminCalls'[c] = "after" => c.op = "drilldown"
      /\ adminCalls'[c] = "read" /\ c.op = "revoke" =>
           /\ found'[c] \in Keys /\ machines'[found'[c]] # "none"
           /\ PrefixOf[found'[c]] = c.on /\ SameOrg(KeyOwner[found'[c]], c.by)
      /\ adminCalls'[c] = "read" /\ c.op \in {"offboard", "drilldown"} => SameOrg(c.on, c.by)
      /\ adminCalls'[c] \in {"allowed", "read"} /\ c.op = "drilldown"
           => c.with \in DrilldownReasons
  <2> USE DEF AdminGoto, AdminAt
  <2>1. CASE Authorise(c)
    BY <2>1 DEF Authorise, Allowed, DrilldownAllowed
  <2>2. CASE FindMachine(c)
    <3>1. machines' = machines
      BY <2>2 DEF FindMachine, accountVars
    <3>2. CASE adminCalls' = [adminCalls EXCEPT ![c] = "done"]
      BY <3>2
    <3>3. ASSUME NEW k \in Keys, MatchingKeys(c) = {k}, machines[k] = "live",
                 found' = [found EXCEPT ![c] = k], adminCalls' = [adminCalls EXCEPT ![c] = "read"]
          PROVE  /\ found'[c] = k /\ machines'[k] # "none" /\ PrefixOf[k] = c.on
                 /\ SameOrg(KeyOwner[k], c.by) /\ adminCalls'[c] = "read"
      BY <3>1, <3>3 DEF MatchingKeys
    <3> QED BY <2>2, <3>2, <3>3 DEF FindMachine
  <2>3. CASE FindUser(c) \/ FindDeveloper(c)
    BY <2>3 DEF FindUser, FindDeveloper, CallShape
  <2>4. CASE RedeemFindsUser(c)
    BY <2>4 DEF RedeemFindsUser
  <2>5. CASE \/ AdminFail(c) \/ RevokeMachine(c) \/ OffboardUser(c) \/ UpdateUserRole(c)
             \/ RedeemInsertsMachine(c) \/ ViewDeveloper(c) \/ NotifyDeveloper(c)
             \/ DismissAnomaly(c) \/ AcknowledgeAlert(c)
    BY <2>5 DEF AdminFail, RevokeMachine, OffboardUser, UpdateUserRole, RedeemInsertsMachine,
                ViewDeveloper, NotifyDeveloper, DismissAnomaly, AcknowledgeAlert
  <2> QED BY <2>1, <2>2, <2>3, <2>4, <2>5 DEF AdminStep
<1> QED BY <1>2, <1>3 DEF CallShape, AdminAt

LEMMA FreshKeysStep ==
  ASSUME AdminShape, NEW c \in AdminCalls, AdminStep(c)
  PROVE  FreshKeys'
<1> USE DEF AdminShape, AdminTypeOK
<1> SUFFICES ASSUME NEW d \in AdminCalls, d.op = "redeem", adminCalls'[d] \in {"idle", "read"}
             PROVE  machines'[d.with] = "none"
  BY DEF FreshKeys
<1>1. d.with \in Keys
  BY RequestsAssumption
<1>2. adminCalls[d] \in {"idle", "read"} /\ ~(c = d /\ RedeemInsertsMachine(c))
  <2>1. CASE c = d
    BY <2>1 DEF AdminStep, Authorise, AdminFail, FindMachine, RevokeMachine, FindUser,
                OffboardUser, UpdateUserRole, RedeemFindsUser, RedeemInsertsMachine,
                FindDeveloper, ViewDeveloper, NotifyDeveloper, DismissAnomaly,
                AcknowledgeAlert, AdminGoto, AdminAt, CallShape
  <2>2. CASE c # d
    BY <2>2, OneCall
  <2> QED BY <2>1, <2>2
<1>3. machines[d.with] = "none"
  BY <1>2 DEF FreshKeys
<1>4. ~(RedeemInsertsMachine(c) /\ c.with = d.with)
  BY <1>2, RequestsAssumption DEF RedeemInsertsMachine
<1> QED BY <1>1, <1>3, <1>4, MachinesChange

(* Another step: a day goes by, or nothing happens. *)
LEMMA Otherwise ==
  ASSUME [AdminNext]_adminVars
  PROVE  \/ \E c \in AdminCalls : AdminStep(c)
         \/ /\ UNCHANGED <<role, asked, found, accountVars, auditVars, viewVars, alertVars,
                           adminCalls>>
            /\ day' = day \/ (day < AdminDays /\ day' = day + 1)
BY DEF AdminNext, NextAdminDay, adminVars, accountVars, auditVars, viewVars, alertVars

LEMMA AdminShapeStep == AdminShape /\ [AdminNext]_adminVars => AdminShape'
<1> SUFFICES ASSUME AdminShape, [AdminNext]_adminVars PROVE AdminShape'
  OBVIOUS
<1>1. ASSUME NEW c \in AdminCalls, AdminStep(c) PROVE AdminShape'
  BY <1>1, AdminTypeStep, CallShapeStep, FreshKeysStep DEF AdminShape
<1>2. CASE /\ UNCHANGED <<role, asked, found, accountVars, auditVars, viewVars, alertVars,
                          adminCalls>>
           /\ day' = day \/ (day < AdminDays /\ day' = day + 1)
  <2>1. day' \in 1 .. AdminDays
    BY <1>2, AdminAssumption DEF AdminShape, AdminTypeOK
  <2>2. AdminTypeOK'
    BY <1>2, <2>1 DEF AdminShape, AdminTypeOK, accountVars, auditVars, viewVars, alertVars
  <2>3. CallShape' /\ FreshKeys'
    BY <1>2 DEF AdminShape, CallShape, FreshKeys, AdminAt, accountVars
  <2> QED BY <2>2, <2>3 DEF AdminShape
<1> QED BY <1>1, <1>2, Otherwise

(* Every table of the administrators' operations keeps its shape: in         *)
(* particular one row of the drill-down audit a day for a manager, a         *)
(* developer and a reason, and one dismissal of an anomaly.                 *)
THEOREM AdminTypeCorrect == AdminSpec => []AdminTypeOK
<1>1. AdminShape => AdminTypeOK
  BY DEF AdminShape
<1> QED BY <1>1, AdminShapeInit, AdminShapeStep, PTL DEF AdminSpec

-----------------------------------------------------------------------------
(* Departed users and their keys.                                           *)

(* A redeem that found its user before the user departed is one whose key is  *)
(* expected late.                                                           *)
LateRedeems ==
  \A c \in AdminCalls :
    c.op = "redeem" /\ AdminAt(c, "read") /\ accounts[c.on].departed => c.with \in lateKeys

LateInv == AdminShape /\ LateRedeems /\ DepartedKeysAreLate

(* Who departs, departs in OffboardUser, and does not come back. *)
LEMMA WhoDeparts ==
  ASSUME AdminShape, NEW c \in AdminCalls, AdminStep(c), NEW u \in Users
  PROVE  /\ accounts[u].departed => accounts'[u].departed
         /\ accounts'[u].departed /\ ~accounts[u].departed =>
              /\ OffboardUser(c) /\ c.on = u /\ RevokeKeys(c, MachinesOf(u)) /\ departedBy'[u] = c
              /\ lateKeys' = lateKeys \cup {r.with : r \in RedeemsUnderWay(u)}
              /\ adminAudit' = adminAudit \cup {c} /\ c.op = "offboard"
<1> USE DEF AdminShape, AdminTypeOK
<1>1. CASE OffboardUser(c)
  BY <1>1, Departure DEF accountVars
<1>2. CASE UpdateUserRole(c)
  BY <1>2 DEF UpdateUserRole
<1> QED BY <1>1, <1>2, Writers

LEMMA LateInvStep == LateInv /\ [AdminNext]_adminVars => LateInv'
<1> SUFFICES ASSUME LateInv, [AdminNext]_adminVars PROVE LateInv'
  OBVIOUS
<1>0. AdminShape'
  BY AdminShapeStep DEF LateInv
<1>1. ASSUME NEW c \in AdminCalls, AdminStep(c) PROVE LateRedeems' /\ DepartedKeysAreLate'
  <2> USE DEF LateInv
  <2>1. lateKeys \subseteq lateKeys'
    BY <1>1, Writers, Departure DEF accountVars, AdminShape
  <2>2. ASSUME NEW d \in AdminCalls, d.op = "redeem", adminCalls'[d] = "read",
               accounts'[d.on].departed
        PROVE  d.with \in lateKeys'
    <3>1. d.on \in Users
      BY <2>2, RequestsAssumption
    <3>2. CASE adminCalls[d] = "read"
      <4>1. CASE accounts[d.on].departed
        BY <2>1, <2>2, <3>2, <4>1 DEF LateRedeems, AdminAt
      <4>2. CASE ~accounts[d.on].departed
        <5>1. lateKeys' = lateKeys \cup {r.with : r \in RedeemsUnderWay(d.on)}
          BY <1>1, <2>2, <3>1, <4>2, WhoDeparts
        <5> QED BY <2>2, <3>2, <5>1 DEF RedeemsUnderWay, AdminAt
      <4> QED BY <4>1, <4>2
    <3>3. CASE adminCalls[d] # "read"
      <4>1. c = d
        BY <1>1, <2>2, <3>3, OneCall DEF AdminShape
      <4>2. RedeemFindsUser(c) /\ ~accounts[d.on].departed /\ accounts' = accounts
        BY <1>1, <2>2, <3>3, <4>1
           DEF AdminStep, Authorise, AdminFail, FindMachine, RevokeMachine, FindUser,
               OffboardUser, UpdateUserRole, RedeemFindsUser, RedeemInsertsMachine,
               FindDeveloper, ViewDeveloper, NotifyDeveloper, DismissAnomaly,
               AcknowledgeAlert, AdminGoto, AdminAt, accountVars, AdminShape, AdminTypeOK, CallShape
      <4> QED BY <2>2, <4>2
    <3> QED BY <3>2, <3>3
  <2>3. ASSUME NEW k \in Keys, machines'[k] = "live", accounts'[KeyOwner[k]].departed
        PROVE  k \in lateKeys'
    <3>1. KeyOwner[k] \in Users
      BY AdminAssumption
    <3>2. CASE machines[k] = "live"
      <4>1. CASE accounts[KeyOwner[k]].departed
        BY <2>1, <3>2, <4>1 DEF DepartedKeysAreLate
      <4>2. CASE ~accounts[KeyOwner[k]].departed
        <5>1. RevokeKeys(c, MachinesOf(KeyOwner[k])) /\ k \in MachinesOf(KeyOwner[k])
          BY <1>1, <2>3, <3>1, <4>2, WhoDeparts DEF MachinesOf
        <5>2. machines'[k] = "revoked"
          BY <1>1, <3>2, <5>1, MachinesAreKeys, RevokedOne DEF AdminShape
        <5> QED BY <2>3, <5>2
      <4> QED BY <4>1, <4>2
    <3>3. CASE machines[k] # "live"
      <4>1. RedeemInsertsMachine(c) /\ c.with = k
        BY <1>1, <2>3, <3>3, MachinesChange
      <4>2. c.op = "redeem" /\ AdminAt(c, "read") /\ accounts' = accounts /\ c.on = KeyOwner[k]
        BY <4>1, RequestsAssumption DEF RedeemInsertsMachine
      <4> QED BY <2>1, <2>3, <4>1, <4>2 DEF LateRedeems
    <3> QED BY <3>2, <3>3
  <2> QED BY <2>2, <2>3 DEF LateRedeems, DepartedKeysAreLate, AdminAt
<1>2. UNCHANGED <<accountVars, adminCalls>> => LateRedeems' /\ DepartedKeysAreLate'
  BY DEF LateInv, LateRedeems, DepartedKeysAreLate, AdminAt, accountVars
<1> QED BY <1>0, <1>1, <1>2, Otherwise DEF LateInv

(* A user that departed keeps no live key but one that a redeem under way at  *)
(* the time inserts afterwards: the keys there were are revoked with it, and  *)
(* no later redeem finds the account (offboard.ts:141).                     *)
THEOREM DepartedKeysAreLateAlways == AdminSpec => []DepartedKeysAreLate
<1>1. AdminInit => LateInv
  BY AdminShapeInit, AdminAssumption DEF AdminInit, LateInv, LateRedeems, DepartedKeysAreLate, AdminAt
<1>2. LateInv => DepartedKeysAreLate
  BY DEF LateInv
<1> QED BY <1>1, <1>2, LateInvStep, PTL DEF AdminSpec

-----------------------------------------------------------------------------
(* The audit of revocations and departures.                                 *)

(* A request that is to write what another has written since was overtaken. *)
ReadsOvertaken ==
  \A c \in AdminCalls : AdminAt(c, "read") =>
    /\ c.op = "revoke" /\ machines[found[c]] = "revoked" => c \in overtaken
    /\ c.op = "offboard" /\ accounts[c.on].departed => c \in overtaken

(* A row is of a request that is over: what it found does not change. *)
RowsAreOver ==
  \A c \in adminAudit :
    /\ AdminAt(c, "done") /\ c.op \in {"revoke", "offboard"}
    /\ c.op = "revoke" => found[c] \in Keys /\ PrefixOf[found[c]] = c.on
                                            /\ SameOrg(KeyOwner[found[c]], c.by)

AuditInv == AdminShape /\ ReadsOvertaken /\ RowsAreOver /\ AuditMatches /\ TenantsApart

(* The audit rows stay and are those of requests that are over. *)
LEMMA RowsStep ==
  ASSUME AuditInv, NEW c \in AdminCalls, AdminStep(c)
  PROVE  /\ \/ adminAudit' = adminAudit
            \/ /\ adminAudit' = adminAudit \cup {c} /\ c \notin adminAudit
               /\ RevokeMachine(c) \/ OffboardUser(c)
         /\ \A d \in adminAudit : d # c /\ found'[d] = found[d]
         /\ overtaken \subseteq overtaken'
         /\ RowsAreOver'
<1> USE DEF AuditInv, AdminShape
<1>1. \A d \in adminAudit : d # c /\ found'[d] = found[d] /\ adminCalls'[d] = "done"
  <2>1. ~AdminAt(c, "done")
    <3> USE DEF AdminAt
    <3>1. CASE Authorise(c) \/ AdminFail(c) \/ FindMachine(c) \/ RevokeMachine(c) \/ FindUser(c)
      BY <3>1 DEF Authorise, AdminFail, FindMachine, RevokeMachine, FindUser
    <3>2. CASE \/ OffboardUser(c) \/ UpdateUserRole(c) \/ RedeemFindsUser(c)
               \/ RedeemInsertsMachine(c) \/ FindDeveloper(c)
      BY <3>2 DEF OffboardUser, UpdateUserRole, RedeemFindsUser, RedeemInsertsMachine, FindDeveloper
    <3>3. CASE \/ ViewDeveloper(c) \/ NotifyDeveloper(c) \/ DismissAnomaly(c) \/ AcknowledgeAlert(c)
      BY <3>3 DEF ViewDeveloper, NotifyDeveloper, DismissAnomaly, AcknowledgeAlert
    <3> QED BY <3>1, <3>2, <3>3 DEF AdminStep
  <2>2. adminAudit \subseteq AdminCalls
    BY DEF AdminTypeOK
  <2> QED BY <2>1, <2>2, OneCall DEF RowsAreOver, AdminAt
<1>2. CASE RevokeMachine(c)
  <2>1. /\ adminAudit' = adminAudit \cup {c} /\ overtaken \subseteq overtaken' /\ c.op = "revoke"
        /\ adminCalls'[c] = "done" /\ found' = found
    BY <1>2 DEF RevokeMachine, AdminGoto, AdminTypeOK
  <2>2. found[c] \in Keys /\ PrefixOf[found[c]] = c.on /\ SameOrg(KeyOwner[found[c]], c.by)
    BY <1>2 DEF RevokeMachine, CallShape
  <2> QED BY <1>1, <1>2, <2>1, <2>2 DEF RowsAreOver, AdminAt
<1>3. CASE OffboardUser(c)
  <2>1. UNCHANGED auditVars \/ /\ adminAudit' = adminAudit \cup {c} /\ overtaken \subseteq overtaken'
                               /\ adminCalls'[c] = "done" /\ c.op = "offboard"
    BY <1>3, Departure
  <2> QED BY <1>1, <1>3, <2>1 DEF RowsAreOver, AdminAt, auditVars
<1>4. CASE UNCHANGED auditVars
  BY <1>1, <1>4 DEF RowsAreOver, AdminAt, auditVars
<1> QED BY <1>2, <1>3, <1>4, Writers

(* Who is under way is overtaken by the step that changes what it has read.  *)
LEMMA OvertakenStep ==
  ASSUME AuditInv, NEW c \in AdminCalls, AdminStep(c)
  PROVE  ReadsOvertaken'
<1> USE DEF AuditInv, AdminShape
<1> SUFFICES ASSUME NEW d \in AdminCalls, adminCalls'[d] = "read"
             PROVE  /\ d.op = "revoke" /\ machines'[found'[d]] = "revoked" => d \in overtaken'
                    /\ d.op = "offboard" /\ accounts'[d.on].departed => d \in overtaken'
  BY DEF ReadsOvertaken, AdminAt
<1>1. CASE adminCalls[d] # "read" /\ d.op = "revoke"
  <2>1. c = d
    BY <1>1, OneCall
  <2>2. FindMachine(c)
    BY <1>1, <2>1 DEF AdminStep, Authorise, AdminFail, FindMachine, RevokeMachine, FindUser,
               OffboardUser, UpdateUserRole, RedeemFindsUser, RedeemInsertsMachine,
               FindDeveloper, ViewDeveloper, NotifyDeveloper, DismissAnomaly,
               AcknowledgeAlert, AdminGoto, AdminAt, AdminTypeOK
  <2>3. machines' = machines /\ machines[found'[c]] = "live"
    BY <1>1, <2>1, <2>2 DEF FindMachine, accountVars, AdminGoto, AdminTypeOK
  <2> QED BY <1>1, <2>1, <2>3
<1>2. CASE adminCalls[d] # "read" /\ d.op = "offboard"
  <2>1. c = d
    BY <1>2, OneCall
  <2>2. FindUser(c)
    BY <1>2, <2>1 DEF AdminStep, Authorise, AdminFail, FindMachine, RevokeMachine, FindUser,
               OffboardUser, UpdateUserRole, RedeemFindsUser, RedeemInsertsMachine,
               FindDeveloper, ViewDeveloper, NotifyDeveloper, DismissAnomaly,
               AcknowledgeAlert, AdminGoto, AdminAt, AdminTypeOK
  <2>3. accounts' = accounts /\ ~accounts[c.on].departed
    BY <1>2, <2>1, <2>2 DEF FindUser, accountVars, AdminGoto, AdminTypeOK
  <2> QED BY <1>2, <2>1, <2>3
<1>3. CASE adminCalls[d] = "read" /\ d.op = "revoke"
  <2>1. found[d] \in Keys
    BY <1>3 DEF CallShape, AdminAt
  <2>2. found'[d] = found[d]
    BY <1>3, OneCall DEF FindMachine, AdminAt
  <2>3. CASE machines[found[d]] = "revoked"
    BY <1>3, <2>2, <2>3, RowsStep DEF ReadsOvertaken, AdminAt
  <2>4. CASE machines[found[d]] # "revoked" /\ machines'[found[d]] = "revoked"
    <3>1. d \in RevocationsOf({found[d]})
      BY <1>3 DEF RevocationsOf, AdminAt
    <3>2. d = c => ~RevokeMachine(c)
      BY DEF RevokeMachine, AdminGoto, AdminTypeOK
    <3> QED BY <2>1, <2>4, <3>1, <3>2, MachinesChange
  <2> QED BY <1>3, <2>2, <2>3, <2>4
<1>4. CASE adminCalls[d] = "read" /\ d.op = "offboard"
  <2>1. d.on \in Users
    BY <1>4, RequestsAssumption
  <2>2. CASE accounts[d.on].departed
    BY <1>4, <2>2, RowsStep DEF ReadsOvertaken, AdminAt
  <2>3. CASE ~accounts[d.on].departed /\ accounts'[d.on].departed
    <3>1. OffboardUser(c) /\ c.on = d.on /\ departedBy'[d.on] = c
      BY <2>1, <2>3, WhoDeparts
    <3>2. /\ adminCalls'[c] = "done" /\ DeparturesOf(c.on) \ {c} \subseteq overtaken'
      BY <2>3, <3>1, Departure DEF accountVars
    <3> QED BY <1>4, <3>1, <3>2 DEF DeparturesOf, AdminAt
  <2> QED BY <1>4, <2>2, <2>3
<1> QED BY <1>1, <1>2, <1>3, <1>4

(* Who revokes a key, a request for it or the offboarding of its owner, is of  *)
(* its organisation and leaves its row.                                     *)
LEMMA WhoRevokes ==
  ASSUME AdminShape, NEW c \in AdminCalls, AdminStep(c), NEW k \in Keys,
         machines'[k] = "revoked", machines[k] # "revoked"
  PROVE  /\ revokedBy'[k] = c /\ c \in adminAudit' /\ SameOrg(KeyOwner[k], c.by)
         /\ \/ c.op = "revoke" /\ found'[c] = k
            \/ c.op = "offboard" /\ c.on = KeyOwner[k]
<1>1. /\ revokedBy'[k] = c /\ c \in adminAudit'
      /\ \/ RevokeMachine(c) /\ found[c] = k
         \/ OffboardUser(c) /\ KeyOwner[k] = c.on
  <2>1. /\ revokedBy'[k] = c /\ adminAudit' = adminAudit \cup {c}
        /\ \/ RevokeMachine(c) /\ found[c] = k /\ RevocationsOf({k}) \ {c} \subseteq overtaken'
           \/ OffboardUser(c) /\ KeyOwner[k] = c.on /\ RevocationsOf({k}) \subseteq overtaken'
    <3>1. machines'[k] # machines[k] /\ machines'[k] # "live"
      OBVIOUS
    <3> QED BY <3>1, MachinesChange, Zenon
  <2> QED BY <2>1
<1>2. CASE RevokeMachine(c) /\ found[c] = k
  <2>1. c.op = "revoke" /\ found' = found /\ AdminAt(c, "read")
    BY <1>2 DEF RevokeMachine
  <2>2. SameOrg(KeyOwner[found[c]], c.by)
    BY <2>1 DEF AdminShape, CallShape
  <2> QED BY <1>1, <1>2, <2>1, <2>2
<1>3. CASE OffboardUser(c) /\ KeyOwner[k] = c.on
  <2>1. c.op = "offboard" /\ AdminAt(c, "read")
    BY <1>3 DEF OffboardUser
  <2>2. SameOrg(c.on, c.by)
    BY <2>1 DEF AdminShape, CallShape
  <2> QED BY <1>1, <1>3, <2>1, <2>2
<1> QED BY <1>1, <1>2, <1>3

(* What the first two parts of AuditMatches say of one user and of one key.   *)
LEMMA EffectsStep ==
  ASSUME AuditInv, NEW c \in AdminCalls, AdminStep(c)
  PROVE  /\ \A u \in Users : accounts'[u].departed =>
              departedBy'[u] \in adminAudit' /\ departedBy'[u].op = "offboard"
                                            /\ departedBy'[u].on = u
         /\ \A k \in Keys : machines'[k] = "revoked" =>
              /\ revokedBy'[k] \in adminAudit'
              /\ \/ revokedBy'[k].op = "revoke" /\ found'[revokedBy'[k]] = k
                 \/ revokedBy'[k].op = "offboard" /\ revokedBy'[k].on = KeyOwner[k]
              /\ machines[k] = "revoked" => revokedBy'[k] = revokedBy[k]
         /\ \A u \in Users : accounts[u].departed =>
              accounts'[u].departed /\ departedBy'[u] = departedBy[u]
<1> USE DEF AuditInv, AdminShape
<1>1. \A u \in Users : accounts[u].departed =>
        accounts'[u].departed /\ departedBy'[u] = departedBy[u]
  <2>1. departedBy' = departedBy \/ OffboardUser(c)
    BY Writers DEF RevokeMachine, auditVars
  <2>2. CASE OffboardUser(c)
    BY <2>2, Departure, WhoDeparts DEF auditVars, AdminTypeOK
  <2> QED BY <2>1, <2>2, WhoDeparts
<1>2. \A u \in Users : accounts'[u].departed =>
        departedBy'[u] \in adminAudit' /\ departedBy'[u].op = "offboard" /\ departedBy'[u].on = u
  <2> SUFFICES ASSUME NEW u \in Users, accounts'[u].departed
               PROVE  departedBy'[u] \in adminAudit' /\ departedBy'[u].op = "offboard"
                                                     /\ departedBy'[u].on = u
    OBVIOUS
  <2>1. CASE accounts[u].departed
    BY <1>1, <2>1, RowsStep DEF AuditMatches
  <2>2. CASE ~accounts[u].departed
    BY <2>2, WhoDeparts
  <2> QED BY <2>1, <2>2
<1>3. ASSUME NEW k \in Keys, machines'[k] = "revoked"
      PROVE  /\ revokedBy'[k] \in adminAudit'
             /\ \/ revokedBy'[k].op = "revoke" /\ found'[revokedBy'[k]] = k
                \/ revokedBy'[k].op = "offboard" /\ revokedBy'[k].on = KeyOwner[k]
             /\ machines[k] = "revoked" => revokedBy'[k] = revokedBy[k]
  <2>1. CASE machines[k] = "revoked"
    <3>1. revokedBy'[k] = revokedBy[k] /\ revokedBy[k] \in adminAudit
      BY <1>3, <2>1, MachinesChange DEF AuditMatches
    <3> QED BY <2>1, <3>1, RowsStep DEF AuditMatches
  <2>2. CASE machines[k] # "revoked"
    BY <1>3, <2>2, WhoRevokes
  <2> QED BY <2>1, <2>2
<1> QED BY <1>1, <1>2, <1>3

(* And the third, of one row: the row of a request whose UPDATE changed        *)
(* nothing is of one that was overtaken.                                    *)
LEMMA RowHasEffect ==
  ASSUME AuditInv, NEW c \in AdminCalls, AdminStep(c), NEW d \in adminAudit'
  PROVE  /\ d.op = "revoke" => /\ machines'[found'[d]] = "revoked"
                               /\ revokedBy'[found'[d]] = d \/ d \in overtaken'
         /\ d.op = "offboard" => /\ accounts'[d.on].departed
                                 /\ departedBy'[d.on] = d \/ d \in overtaken'
<1> USE DEF AuditInv, AdminShape
<1>0. d \in AdminCalls
  <2>1. adminAudit' \subseteq AdminCalls
    BY AdminTypeStep DEF AdminTypeOK
  <2> QED BY <2>1
<1>1. CASE d \in adminAudit /\ d.op = "revoke"
  <2>1. found'[d] = found[d] /\ found[d] \in Keys /\ machines[found[d]] = "revoked"
        /\ (revokedBy[found[d]] = d \/ d \in overtaken)
    BY <1>1, RowsStep DEF RowsAreOver, AuditMatches
  <2>2. machines'[found[d]] = "revoked"
    BY <2>1, MachinesChange
  <2>3. revokedBy'[found[d]] = revokedBy[found[d]]
    BY <2>1, <2>2, EffectsStep
  <2> QED BY <1>1, <2>1, <2>2, <2>3, RowsStep
<1>2. CASE d \in adminAudit /\ d.op = "offboard"
  <2>1. d.on \in Users /\ accounts[d.on].departed /\ (departedBy[d.on] = d \/ d \in overtaken)
    BY <1>0, <1>2, RequestsAssumption DEF AuditMatches
  <2> QED BY <1>2, <2>1, RowsStep, EffectsStep
<1>3. CASE d \notin adminAudit /\ RevokeMachine(c)
  <2>1. d = c /\ c.op = "revoke" /\ found' = found /\ AdminAt(c, "read")
    BY <1>3 DEF RevokeMachine
  <2>2. found[c] \in Keys /\ machines[found[c]] # "none"
    BY <2>1 DEF CallShape
  <2>3. CASE machines[found[c]] = "live"
    BY <1>3, <2>1, <2>2, <2>3, RevokedOne DEF RevokeMachine
  <2>4. CASE machines[found[c]] = "revoked"
    BY <2>1, <2>2, <2>4, MachinesChange, RowsStep DEF ReadsOvertaken
  <2> QED BY <2>1, <2>2, <2>3, <2>4 DEF AdminTypeOK
<1>4. CASE d \notin adminAudit /\ OffboardUser(c)
  <2>1. d = c /\ c.op = "offboard" /\ AdminAt(c, "read") /\ c.on \in Users
        /\ accounts' = [accounts EXCEPT ![c.on] = [role |-> "member", departed |-> TRUE]]
        /\ departedBy' = IF accounts[c.on].departed THEN departedBy
                                                   ELSE [departedBy EXCEPT ![c.on] = c]
    BY <1>4, Departure DEF auditVars
  <2>2. accounts'[c.on].departed
    BY <2>1 DEF AdminTypeOK
  <2>3. CASE accounts[c.on].departed
    BY <2>1, <2>2, <2>3, RowsStep DEF ReadsOvertaken
  <2>4. CASE ~accounts[c.on].departed
    BY <2>1, <2>2, <2>4 DEF AdminTypeOK
  <2> QED BY <2>3, <2>4
<1> QED BY <1>0, <1>1, <1>2, <1>3, <1>4, RowsStep DEF RowsAreOver

(* A revocation or a departure writes its row and revokes its keys, those of  *)
(* its organisation.                                                        *)
LEMMA AuditedStep ==
  ASSUME AuditInv, NEW c \in AdminCalls, AdminStep(c)
  PROVE  /\ adminAudit \subseteq adminAudit'
         /\ \A d \in adminAudit' \ adminAudit : d.op = "offboard" => SameOrg(d.on, d.by)
         /\ \A k \in Keys : machines'[k] = "revoked" /\ machines[k] # "revoked" =>
              c \in adminAudit' /\ SameOrg(KeyOwner[k], c.by)
<1> USE DEF AuditInv, AdminShape
<1>1. \A d \in adminAudit' \ adminAudit : d = c /\ (RevokeMachine(c) \/ OffboardUser(c))
  BY RowsStep
<1>2. RevokeMachine(c) => c.op = "revoke"
  BY DEF RevokeMachine
<1>3. OffboardUser(c) => c.op = "offboard" /\ SameOrg(c.on, c.by)
  BY DEF OffboardUser, CallShape
<1> QED BY <1>1, <1>2, <1>3, RowsStep, WhoRevokes

(* What is read, dismissed and acknowledged is of the same organisation. *)
LEMMA ViewsApart ==
  ASSUME AuditInv, NEW c \in AdminCalls, AdminStep(c)
  PROVE  /\ \A r \in drilldowns' : SameOrg(r.manager, r.target)
         /\ \A d \in dismissals' : SameOrg(d.manager, d.target)
         /\ \A a \in acks' : EventOrg[a.event] = OrgOf[a.manager]
<1> USE DEF AuditInv, AdminShape
<1>1. \A r \in drilldowns' : SameOrg(r.manager, r.target)
  <2>1. CASE ViewDeveloper(c)
    <3>1. SameOrg(c.on, c.by) /\ drilldowns' \subseteq drilldowns \cup {DrilldownOf(c)}
      BY <2>1 DEF ViewDeveloper, CallShape
    <3> QED BY <3>1 DEF TenantsApart, DrilldownOf, SameOrg
  <2>2. CASE OffboardUser(c) /\ drilldowns' # drilldowns
    <3>1. \A r \in drilldowns' : \E q \in drilldowns : r.manager = q.manager /\ r.target = q.target
      <4>1. \A q \in drilldowns : [q EXCEPT !.reasonText = FALSE].manager = q.manager
                               /\ [q EXCEPT !.reasonText = FALSE].target = q.target
        BY DEF AdminTypeOK, DrilldownRow
      <4>2. drilldowns' = {IF r.target = c.on THEN [r EXCEPT !.reasonText = FALSE] ELSE r :
                             r \in drilldowns}
        BY <2>2, Departure
      <4>3. \A r \in drilldowns' : \E q \in drilldowns : r = q \/ r = [q EXCEPT !.reasonText = FALSE]
        BY <4>2
      <4> QED BY <4>1, <4>3
    <3> QED BY <3>1 DEF TenantsApart, SameOrg
  <2> QED BY <2>1, <2>2, Writers DEF TenantsApart
<1>2. \A d \in dismissals' : SameOrg(d.manager, d.target)
  <2>1. CASE DismissAnomaly(c)
    BY <2>1 DEF DismissAnomaly, DismissalOf, TenantsApart, SameOrg
  <2> QED BY <2>1, Writers DEF TenantsApart
<1>3. \A a \in acks' : EventOrg[a.event] = OrgOf[a.manager]
  <2>1. CASE AcknowledgeAlert(c)
    BY <2>1 DEF AcknowledgeAlert, TenantsApart
  <2> QED BY <2>1, Writers DEF TenantsApart
<1> QED BY <1>1, <1>2, <1>3

LEMMA AuditInvStep == AuditInv /\ [AdminNext]_adminVars => AuditInv'
<1> SUFFICES ASSUME AuditInv, [AdminNext]_adminVars PROVE AuditInv'
  OBVIOUS
<1>0. AdminShape'
  BY AdminShapeStep DEF AuditInv
<1>1. ASSUME NEW c \in AdminCalls, AdminStep(c) PROVE ReadsOvertaken' /\ RowsAreOver' /\ AuditMatches' /\ TenantsApart'
  <2>1. \A k \in Keys : machines[k] = "revoked" => machines'[k] = "revoked"
    BY <1>1, MachinesChange DEF AuditInv
  <2>2. \A d \in adminAudit' : d.op = "revoke" =>
          \E k \in Keys : PrefixOf[k] = d.on /\ SameOrg(KeyOwner[k], d.by) /\ machines'[k] = "revoked"
    <3> SUFFICES ASSUME NEW d \in adminAudit', d.op = "revoke"
                 PROVE  \E k \in Keys : /\ PrefixOf[k] = d.on /\ SameOrg(KeyOwner[k], d.by)
                                        /\ machines'[k] = "revoked"
      OBVIOUS
    <3>1. /\ found'[d] \in Keys /\ PrefixOf[found'[d]] = d.on
          /\ SameOrg(KeyOwner[found'[d]], d.by)
      BY <1>1, RowsStep DEF RowsAreOver
    <3>2. machines'[found'[d]] = "revoked"
      BY <1>1, RowHasEffect
    <3> QED BY <3>1, <3>2
  <2>3. \A d \in adminAudit' : d.op = "offboard" => SameOrg(d.on, d.by)
    BY <1>1, AuditedStep DEF AuditInv, TenantsApart
  <2>4. \A k \in Keys : machines'[k] = "revoked" => \E d \in adminAudit' : SameOrg(KeyOwner[k], d.by)
    BY <1>1, AuditedStep DEF AuditInv, TenantsApart
  <2>5. AuditMatches'
    BY <1>1, EffectsStep, RowHasEffect DEF AuditMatches
  <2>6. TenantsApart'
    BY <1>1, <2>2, <2>3, <2>4, ViewsApart DEF TenantsApart
  <2>7. RowsAreOver' /\ ReadsOvertaken'
    BY <1>1, RowsStep, OvertakenStep
  <2> QED BY <2>5, <2>6, <2>7
<1>2. UNCHANGED <<found, accountVars, auditVars, viewVars, alertVars, adminCalls>> =>
        ReadsOvertaken' /\ RowsAreOver' /\ AuditMatches' /\ TenantsApart'
  BY DEF AuditInv, ReadsOvertaken, RowsAreOver, AdminAt, AuditMatches, TenantsApart,
         accountVars, auditVars, viewVars, alertVars
<1> QED BY <1>0, <1>1, <1>2, Otherwise DEF AuditInv

LEMMA AuditInvInit == AdminInit => AuditInv
BY AdminShapeInit, AdminAssumption DEF AuditInv, AdminInit, ReadsOvertaken, RowsAreOver, AdminAt,
                                      AuditMatches, TenantsApart

(* A key is revoked, and a user departed, by a request that left its audit    *)
(* row; and a row is of the request whose UPDATE changed what it names, or of  *)
(* one that another overtook between its read and its write: no row is of a    *)
(* request that came when the effect was there (machines.ts:140,             *)
(* offboard.ts:139).                                                        *)
THEOREM AuditMatchesAlways == AdminSpec => []AuditMatches
<1>1. AuditInv => AuditMatches
  BY DEF AuditInv
<1> QED BY <1>1, AuditInvInit, AuditInvStep, PTL DEF AdminSpec

(* Nobody acts on a row of another organisation (machines.ts:113,            *)
(* offboard.ts:143, manager-dismissed.ts:112, manager-alerts.ts:230).        *)
THEOREM TenantsApartAlways == AdminSpec => []TenantsApart
<1>1. AuditInv => TenantsApart
  BY DEF AuditInv
<1> QED BY <1>1, AuditInvInit, AuditInvStep, PTL DEF AdminSpec

-----------------------------------------------------------------------------
(* The audit of the views of a developer's page.                             *)

(* The requests whose view was the first of its row and is or may yet be      *)
(* announced to the developer, and the keys of the rows.                    *)
Announced == notified \cup {c \in AdminCalls : AdminAt(c, "after")}
ViewKeys == {DrilldownKey(r) : r \in drilldowns}

RowsOfViews ==
  \A c \in shown : \E r \in drilldowns :
    r.manager = c.by /\ r.target = c.on /\ r.reason = c.with

ViewInv ==
  /\ AdminShape /\ RowsOfViews
  /\ Announced \subseteq shown
  /\ IsFiniteSet(Announced) /\ IsFiniteSet(ViewKeys)
  /\ Cardinality(Announced) <= Cardinality(ViewKeys)

(* A row has one key, and the key one row. *)
LEMMA AsManyKeysAsRows ==
  ASSUME AdminTypeOK, IsFiniteSet(ViewKeys)
  PROVE  IsFiniteSet(drilldowns) /\ Cardinality(drilldowns) = Cardinality(ViewKeys)
<1> DEFINE row == [k \in ViewKeys |-> CHOOSE r \in drilldowns : DrilldownKey(r) = k]
<1>1. \A k \in ViewKeys : row[k] \in drilldowns /\ DrilldownKey(row[k]) = k
  BY DEF ViewKeys
<1>2. \A r \in drilldowns : DrilldownKey(r) \in ViewKeys /\ row[DrilldownKey(r)] = r
  BY <1>1 DEF ViewKeys, AdminTypeOK, UniqueIn
<1>3. row \in [ViewKeys -> drilldowns]
  BY <1>1
<1> HIDE DEF row
<1>4. row \in Bijection(ViewKeys, drilldowns)
  BY <1>1, <1>2, <1>3 DEF Bijection, Injection, Surjection, IsInjective
<1> QED BY <1>4, FS_Bijection DEF ExistsBijection

(* A request that goes on to announce its view has just written its row.      *)
LEMMA AnnouncedStep ==
  ASSUME ViewInv, NEW c \in AdminCalls, AdminStep(c)
  PROVE  \/ Announced' \subseteq Announced /\ ViewKeys' = ViewKeys
         \/ /\ Announced' \subseteq Announced \cup {c} /\ c \in shown'
            /\ ViewKeys' = ViewKeys \cup {DrilldownKey(DrilldownOf(c))}
            /\ DrilldownKey(DrilldownOf(c)) \notin ViewKeys
<1> USE DEF ViewInv, AdminShape
<1>1. \A d \in AdminCalls \ {c} : adminCalls'[d] = adminCalls[d]
  BY OneCall
<1>2. CASE adminCalls'[c] # "after" /\ notified' = notified /\ ViewKeys' = ViewKeys
  BY <1>1, <1>2 DEF Announced, AdminAt
<1>3. CASE NotifyDeveloper(c)
  <2>1. AdminAt(c, "after") /\ notified' \subseteq notified \cup {c} /\ adminCalls'[c] = "done"
    BY <1>3 DEF NotifyDeveloper, AdminGoto, AdminTypeOK
  <2>2. drilldowns' = drilldowns
    BY <1>3 DEF NotifyDeveloper
  <2> QED BY <1>1, <2>1, <2>2 DEF Announced, AdminAt, ViewKeys
<1>4. CASE ViewDeveloper(c)
  <2>1. notified' = notified /\ shown' = shown \cup {c}
    BY <1>4 DEF ViewDeveloper
  <2>2. CASE Audited(c)
    BY <1>1, <1>4, <2>1, <2>2 DEF ViewDeveloper, AdminGoto, AdminTypeOK, Announced, AdminAt, ViewKeys
  <2>3. CASE ~Audited(c)
    <3>1. drilldowns' = drilldowns \cup {DrilldownOf(c)}
      BY <1>4, <2>3 DEF ViewDeveloper
    <3>2. /\ ViewKeys' = ViewKeys \cup {DrilldownKey(DrilldownOf(c))}
          /\ DrilldownKey(DrilldownOf(c)) \notin ViewKeys
      BY <2>3, <3>1 DEF ViewKeys, Audited
    <3> QED BY <1>1, <2>1, <3>2 DEF Announced, AdminAt
  <2> QED BY <2>2, <2>3
<1>5. CASE ~NotifyDeveloper(c) /\ ~ViewDeveloper(c)
  <2>1. notified' = notified
    BY <1>5, Writers
  <2>2. adminCalls'[c] # "after"
    <3> USE DEF AdminGoto, AdminTypeOK
    <3>1. CASE Authorise(c) \/ AdminFail(c) \/ FindMachine(c) \/ RevokeMachine(c)
      BY <3>1 DEF Authorise, AdminFail, FindMachine, RevokeMachine
    <3>2. CASE FindUser(c) \/ OffboardUser(c) \/ UpdateUserRole(c) \/ RedeemFindsUser(c)
      BY <3>2 DEF FindUser, OffboardUser, UpdateUserRole, RedeemFindsUser
    <3>3. CASE RedeemInsertsMachine(c) \/ FindDeveloper(c) \/ DismissAnomaly(c) \/ AcknowledgeAlert(c)
      BY <3>3 DEF RedeemInsertsMachine, FindDeveloper, DismissAnomaly, AcknowledgeAlert
    <3> QED BY <1>5, <3>1, <3>2, <3>3 DEF AdminStep
  <2>3. ViewKeys' = ViewKeys
    <3>1. CASE drilldowns' = drilldowns
      BY <3>1 DEF ViewKeys
    <3>2. CASE OffboardUser(c) /\ drilldowns' # drilldowns
      <4> DEFINE kept(r) == IF r.target = c.on THEN [r EXCEPT !.reasonText = FALSE] ELSE r
      <4>1. drilldowns' = {kept(r) : r \in drilldowns}
        BY <3>2, Departure
      <4>2. \A r \in drilldowns : DrilldownKey(kept(r)) = DrilldownKey(r)
        BY DEF DrilldownRow, DrilldownKey, AdminTypeOK
      <4> HIDE DEF kept
      <4> QED BY <4>1, <4>2 DEF ViewKeys
    <3> QED BY <1>5, <3>1, <3>2, Writers
  <2> QED BY <1>2, <2>1, <2>2, <2>3
<1> QED BY <1>3, <1>4, <1>5

(* Every view keeps a row that says who looked at whom, and why. *)
LEMMA RowsOfViewsStep ==
  ASSUME ViewInv, NEW c \in AdminCalls, AdminStep(c)
  PROVE  RowsOfViews' /\ shown \subseteq shown'
<1> USE DEF ViewInv, AdminShape
<1>1. \A q \in drilldowns : \E r \in drilldowns' :
        r.manager = q.manager /\ r.target = q.target /\ r.reason = q.reason
  <2>1. CASE drilldowns' = drilldowns
    BY <2>1
  <2>2. CASE ViewDeveloper(c)
    BY <2>2 DEF ViewDeveloper
  <2>3. CASE OffboardUser(c) /\ drilldowns' # drilldowns
    <3> DEFINE kept(r) == IF r.target = c.on THEN [r EXCEPT !.reasonText = FALSE] ELSE r
    <3>1. drilldowns' = {kept(r) : r \in drilldowns}
      BY <2>3, Departure
    <3>2. \A r \in drilldowns : /\ kept(r).manager = r.manager /\ kept(r).target = r.target
                               /\ kept(r).reason = r.reason
      BY DEF DrilldownRow, AdminTypeOK
    <3> HIDE DEF kept
    <3> QED BY <3>1, <3>2
  <2> QED BY <2>1, <2>2, <2>3, Writers
<1>2. \A d \in shown : \E r \in drilldowns' :
        r.manager = d.by /\ r.target = d.on /\ r.reason = d.with
  BY <1>1 DEF RowsOfViews
<1>3. CASE shown' = shown
  BY <1>2, <1>3 DEF RowsOfViews
<1>4. CASE ViewDeveloper(c)
  <2>1. \E r \in drilldowns' : DrilldownKey(r) = DrilldownKey(DrilldownOf(c))
    BY <1>4 DEF ViewDeveloper, Audited
  <2>2. \E r \in drilldowns' : r.manager = c.by /\ r.target = c.on /\ r.reason = c.with
    BY <2>1 DEF DrilldownKey, DrilldownOf
  <2>3. shown' = shown \cup {c}
    BY <1>4 DEF ViewDeveloper
  <2> QED BY <1>2, <2>2, <2>3 DEF RowsOfViews
<1> QED BY <1>3, <1>4, Writers

LEMMA ViewInvStep == ViewInv /\ [AdminNext]_adminVars => ViewInv'
<1> SUFFICES ASSUME ViewInv, [AdminNext]_adminVars PROVE ViewInv'
  OBVIOUS
<1>0. AdminShape'
  BY AdminShapeStep DEF ViewInv
<1>1. ASSUME NEW c \in AdminCalls, AdminStep(c) PROVE ViewInv'
  <2>0. RowsOfViews' /\ shown \subseteq shown'
    BY <1>1, RowsOfViewsStep
  <2>1. CASE Announced' \subseteq Announced /\ ViewKeys' = ViewKeys
    <3>1. IsFiniteSet(Announced') /\ Cardinality(Announced') <= Cardinality(Announced)
      BY <2>1, FS_Subset DEF ViewInv
    <3>2. Cardinality(Announced') \in Nat /\ Cardinality(Announced) \in Nat
          /\ Cardinality(ViewKeys) \in Nat
      BY <3>1, FS_CardinalityType DEF ViewInv
    <3> QED BY <1>0, <2>0, <2>1, <3>1, <3>2 DEF ViewInv
  <2>2. CASE /\ Announced' \subseteq Announced \cup {c} /\ c \in shown'
             /\ ViewKeys' = ViewKeys \cup {DrilldownKey(DrilldownOf(c))}
             /\ DrilldownKey(DrilldownOf(c)) \notin ViewKeys
    <3>1. /\ IsFiniteSet(Announced \cup {c})
          /\ Cardinality(Announced \cup {c}) <= Cardinality(Announced) + 1
      <4>1. IsFiniteSet(Announced) /\ Cardinality(Announced) \in Nat
        BY FS_CardinalityType DEF ViewInv
      <4>2. /\ IsFiniteSet(Announced \cup {c})
            /\ Cardinality(Announced \cup {c})
                 = IF c \in Announced THEN Cardinality(Announced) ELSE Cardinality(Announced) + 1
        BY <4>1, FS_AddElement
      <4> QED BY <4>1, <4>2
    <3>2. IsFiniteSet(Announced') /\ Cardinality(Announced') <= Cardinality(Announced \cup {c})
      BY <2>2, <3>1, FS_Subset
    <3>3. IsFiniteSet(ViewKeys') /\ Cardinality(ViewKeys') = Cardinality(ViewKeys) + 1
      BY <2>2, FS_AddElement DEF ViewInv
    <3>4. /\ Cardinality(Announced') \in Nat /\ Cardinality(Announced) \in Nat
          /\ Cardinality(ViewKeys) \in Nat /\ Cardinality(Announced \cup {c}) \in Nat
      BY <3>1, <3>2, FS_CardinalityType DEF ViewInv
    <3>5. Cardinality(Announced') <= Cardinality(ViewKeys')
      BY <3>1, <3>2, <3>3, <3>4 DEF ViewInv
    <3> QED BY <1>0, <2>0, <2>2, <3>2, <3>3, <3>5 DEF ViewInv
  <2> QED BY <1>1, <2>1, <2>2, AnnouncedStep
<1>2. CASE UNCHANGED <<viewVars, adminCalls>>
  BY <1>0, <1>2 DEF ViewInv, RowsOfViews, Announced, ViewKeys, AdminAt, viewVars
<1> QED BY <1>1, <1>2, Otherwise

LEMMA ViewInvInit == AdminInit => ViewInv
<1> SUFFICES ASSUME AdminInit PROVE ViewInv
  OBVIOUS
<1>1. Announced = {} /\ ViewKeys = {} /\ RowsOfViews
  BY DEF AdminInit, Announced, ViewKeys, AdminAt, RowsOfViews
<1> QED BY <1>1, AdminShapeInit, FS_EmptySet DEF ViewInv

(* No developer's data is shown without a row that says who looked and why,   *)
(* however the views overlap, and a row is announced once at most            *)
(* (drilldown-audit.ts:108, render.tsx:319-387).                             *)
THEOREM ViewsAreAuditedAlways == AdminSpec => []ViewsAreAudited
<1>1. ViewInv => ViewsAreAudited
  <2> SUFFICES ASSUME ViewInv PROVE ViewsAreAudited
    OBVIOUS
  <2>1. Cardinality(drilldowns) = Cardinality(ViewKeys)
    BY AsManyKeysAsRows DEF ViewInv, AdminShape
  <2>2. notified \subseteq Announced
    BY DEF Announced
  <2>3. IsFiniteSet(notified) /\ Cardinality(notified) <= Cardinality(Announced)
    BY <2>2, FS_Subset DEF ViewInv
  <2>4. /\ Cardinality(notified) \in Nat /\ Cardinality(Announced) \in Nat
        /\ Cardinality(ViewKeys) \in Nat
    BY <2>3, FS_CardinalityType DEF ViewInv
  <2> QED BY <2>1, <2>2, <2>3, <2>4 DEF ViewInv, RowsOfViews, ViewsAreAudited
<1> QED BY <1>1, ViewInvInit, ViewInvStep, PTL DEF AdminSpec

-----------------------------------------------------------------------------
(* InviteConsole.  The three promises follow from what is true of the copies  *)
(* of a token.  A token is copied from the submission that made it to the    *)
(* cache, the answers, the cookies and the page; Settled says that the        *)
(* submission is over and audited, so that no later step changes what a copy  *)
(* was checked against.                                                      *)

(* What the parameters are, beyond what the model checker needs to be told.  *)
ConsoleStates == {"idle", "insert", "audit", "cache", "update", "done", "refused", "failed"}
Forms == {SubmissionKey[s] : s \in Submissions}

ConsoleShape ==
  /\ minute \in Nat
  /\ invites \in [Submissions -> {"none", "live", "revoked"}]
  /\ inviteAudit \subseteq Requests
  /\ cache \subseteq [by : Browsers, key : Forms, invite : Submissions, at : Nat]
  /\ console \in [Requests -> ConsoleStates]
  /\ startedAt \in [Submissions -> Nat] /\ answeredAt \in [Submissions -> Nat]
  /\ answer \in [Submissions -> Submissions \cup {NoInvite}]
  /\ remembered \subseteq Submissions
  /\ before \in [Submissions -> SUBSET Submissions]
  /\ cookie \in [Browsers -> [invite : Submissions \cup {NoInvite}, until : Nat]]
  /\ displayed \subseteq [to : Browsers, invite : Submissions, at : Nat]

(* The submission that made token i is over, and its audit row is there.     *)
Settled(i, m) == i \in Submissions /\ console[i] = "done" /\ i \in inviteAudit /\ SubmitterOf[i] = m

StatesSound ==
  /\ \A s \in Submissions : startedAt[s] <= minute
  /\ \A s \in Submissions : console[s] = "cache" => s \in inviteAudit
  /\ \A s \in Submissions : console[s] \in {"idle", "insert"} => invites[s] = "none"
  /\ \A r \in Revocations : console[r] = "update" => invites[RevokeTarget[r]] # "none"
  /\ \A r \in Revocations : console[r] = "audit" \/ r \in inviteAudit
                              => invites[RevokeTarget[r]] = "revoked"
  /\ \A s \in Submissions : answer[s] # NoInvite => Settled(answer[s], SubmitterOf[s])

CacheSound ==
  \A e \in cache : /\ Settled(e.invite, e.by) /\ SubmissionKey[e.invite] = e.key
                   /\ e.at = startedAt[e.invite] /\ e.at <= answeredAt[e.invite]
                   /\ e.invite \in remembered

UrlLife(i) == answeredAt[i] + CacheMinutes + CookieMinutes
CookieSound ==
  \A m \in Browsers : cookie[m] # NoCookie =>
    Settled(cookie[m].invite, m) /\ cookie[m].until <= UrlLife(cookie[m].invite)
DisplaySound ==
  \A d \in displayed : Settled(d.invite, d.to) /\ d.at < UrlLife(d.invite)

(* Whoever is remembered has an entry, unless one of the form was too old.   *)
TooOld(q, at) == at - startedAt[q] > CacheMinutes
RemembersSound ==
  \A q \in remembered :
    /\ console[q] = "done"
    /\ \/ Entries(q) # {}
       \/ \E q2 \in remembered : SameForm(q2, q) /\ TooOld(q2, minute)
RetrySound ==
  \A s \in Submissions :
    /\ \A q \in before[s] : console[q] = "done"
    /\ console[s] = "insert" \/ invites[s] # "none" =>
         before[s] = {} \/ \E q \in before[s] : TooOld(q, startedAt[s])

ConsoleInv ==
  /\ ConsoleShape /\ StatesSound /\ CacheSound /\ CookieSound /\ DisplaySound
  /\ RemembersSound /\ RetrySound

-----------------------------------------------------------------------------
(* The requests and the browsers. *)
LEMMA ConsoleSets ==
  /\ Submissions \subseteq Requests /\ Revocations \subseteq Requests
  /\ \A s \in Submissions : SubmitterOf[s] \in Browsers /\ SubmissionKey[s] \in Forms
  /\ \A r \in Revocations : RevokeTarget[r] \in Submissions
  /\ NoInvite \notin Submissions /\ Submissions \cap Revocations = {}
  /\ CacheMinutes \in Nat /\ CookieMinutes \in Nat
  /\ NoCookie = [invite |-> NoInvite, until |-> 0]
BY ConsoleAssumption DEF Requests, Browsers, Forms, NoCookie

LEMMA ConsoleInvInit == ConsoleInit => ConsoleInv
<1> SUFFICES ASSUME ConsoleInit PROVE ConsoleInv
  OBVIOUS
<1> USE ConsoleSets DEF ConsoleInit
<1>1. ConsoleShape
  BY DEF ConsoleShape, ConsoleStates, Requests
<1>2. StatesSound
  BY DEF StatesSound
<1>3. CacheSound /\ CookieSound /\ DisplaySound /\ RemembersSound /\ RetrySound
  BY DEF CacheSound, CookieSound, DisplaySound, RemembersSound, RetrySound
<1> QED
  BY <1>1, <1>2, <1>3 DEF ConsoleInv

(* A form is sent: refused, answered from the cache, or under way. *)
LEMMA SubmitStep == ASSUME ConsoleInv, NEW s \in Submissions, Submit(s) PROVE ConsoleInv'
<1> USE ConsoleSets DEF ConsoleInv
<1> DEFINE mine == {q \in remembered : SameForm(q, s)}
<1>1. /\ console[s] = "idle" /\ s \notin remembered /\ UNCHANGED <<minute, invites, inviteAudit, remembered, displayed>>
      /\ startedAt' = [startedAt EXCEPT ![s] = minute]
      /\ before' = [before EXCEPT ![s] = mine]
      /\ mine \subseteq remembered /\ invites[s] = "none"
      /\ \A q \in Submissions : q # s => startedAt'[q] = startedAt[q]
      /\ startedAt'[s] = minute
  BY DEF Submit, ConsoleAt, ConsoleShape, StatesSound, RemembersSound
<1>2. /\ \A i \in Submissions : console[i] = "done" => i # s
      /\ \A i, m : Settled(i, m) => i # s
  BY <1>1 DEF Settled
<1>6. \A t \in Submissions \ {s} :
        /\ \A q \in before'[t] : console[q] = "done" /\ q \in Submissions \ {s}
        /\ before'[t] = before[t] /\ startedAt'[t] = startedAt[t]
        /\ (\E q \in before[t] : TooOld(q, startedAt[t])) =>
             \E q \in before'[t] : startedAt'[t] - startedAt'[q] > CacheMinutes
  BY <1>1, <1>2 DEF RetrySound, TooOld, ConsoleShape
<1>7. \A q \in before'[s] : console[q] = "done" /\ q \in Submissions \ {s}
  BY <1>1, <1>2 DEF RemembersSound, ConsoleShape
<1> HIDE DEF mine
<1>3. CASE console' = [console EXCEPT ![s] = "refused"] /\ UNCHANGED <<cache, answer, answeredAt, cookie>>
  <2>1. ConsoleShape'
    BY <1>1, <1>3 DEF ConsoleShape, ConsoleStates
  <2>2. \A i, m : Settled(i, m) => Settled(i, m)'
    BY <1>1, <1>3 DEF Settled, ConsoleShape
  <2>3. StatesSound'
    BY <1>1, <1>2, <1>3, <2>2 DEF StatesSound, ConsoleShape
  <2>4. CacheSound' /\ CookieSound' /\ DisplaySound'
    BY <1>1, <1>2, <1>3, <2>2 DEF CacheSound, CookieSound, DisplaySound, UrlLife, ConsoleShape, Settled
  <2>5. RemembersSound'
    BY <1>1, <1>2, <1>3 DEF RemembersSound, Entries, TooOld, ConsoleShape
  <2>6. RetrySound'
    BY <1>1, <1>6, <1>7, <1>3 DEF RetrySound, TooOld, ConsoleShape
  <2> QED
    BY <2>1, <2>3, <2>4, <2>5, <2>6
<1>4. ASSUME NEW e \in Cached(s), AnswerWith(s, e.invite), cache' = cache PROVE ConsoleInv'
  <2>1. /\ e \in cache /\ e.by = SubmitterOf[s] /\ minute - e.at <= CacheMinutes
        /\ Settled(e.invite, e.by) /\ e.at <= answeredAt[e.invite] /\ e.at \in Nat
        /\ e.invite \in Submissions
    BY <1>4 DEF Cached, Entries, CacheSound, Settled, ConsoleShape
  <2>2. /\ console' = [console EXCEPT ![s] = "done"]
        /\ answer' = [answer EXCEPT ![s] = e.invite]
        /\ answeredAt' = [answeredAt EXCEPT ![s] = minute]
        /\ cookie' = [cookie EXCEPT ![SubmitterOf[s]] = [invite |-> e.invite, until |-> minute + CookieMinutes]]
    BY <1>4 DEF AnswerWith, SetFlashCookie, ConsoleGoto
  <2>3. ConsoleShape'
    BY <1>1, <1>4, <2>1, <2>2 DEF ConsoleShape, ConsoleStates
  <2>4. \A i, m : Settled(i, m) => Settled(i, m)' /\ answeredAt'[i] = answeredAt[i] /\ startedAt'[i] = startedAt[i]
    BY <1>1, <1>2, <2>2 DEF Settled, ConsoleShape
  <2>5. StatesSound'
    BY <1>1, <1>2, <2>1, <2>2, <2>4 DEF StatesSound, ConsoleShape
  <2>6. CacheSound' /\ DisplaySound'
    BY <1>1, <1>2, <1>4, <2>4 DEF CacheSound, DisplaySound, UrlLife
  <2>7. CookieSound'
    <3>1. minute + CookieMinutes <= UrlLife(e.invite)
      BY <2>1 DEF UrlLife, ConsoleShape
    <3> QED
      BY <3>1, <2>1, <2>2, <2>4 DEF CookieSound, UrlLife, ConsoleShape
  <2>8. RemembersSound'
    BY <1>1, <1>2, <1>4, <2>2 DEF RemembersSound, Entries, TooOld, ConsoleShape
  <2>9. RetrySound'
    BY <1>1, <1>6, <1>7, <2>2 DEF RetrySound, TooOld, ConsoleShape
  <2> QED
    BY <2>3, <2>5, <2>6, <2>7, <2>8, <2>9
<1>5. CASE /\ Cached(s) = {} /\ cache' = cache \ Entries(s)
           /\ console' = [console EXCEPT ![s] = "insert"] /\ UNCHANGED <<answer, answeredAt, cookie>>
  <2>1. ConsoleShape'
    BY <1>1, <1>5 DEF ConsoleShape, ConsoleStates
  <2>2. \A i, m : Settled(i, m) => Settled(i, m)'
    BY <1>1, <1>5 DEF Settled, ConsoleShape
  <2>3. StatesSound'
    BY <1>1, <1>2, <1>5, <2>2 DEF StatesSound, ConsoleShape
  <2>4. CacheSound' /\ CookieSound' /\ DisplaySound'
    BY <1>1, <1>2, <1>5, <2>2 DEF CacheSound, CookieSound, DisplaySound, UrlLife, ConsoleShape, Settled
  <2>5. \A e \in Entries(s) : e.invite \in remembered /\ SameForm(e.invite, s) /\ TooOld(e.invite, minute)
    BY <1>5 DEF Cached, Entries, CacheSound, Settled, SameForm, TooOld, ConsoleShape
  <2>6. \A q \in remembered : Entries(q)' # {} \/ \E q2 \in remembered : SameForm(q2, q) /\ TooOld(q2, minute)
    <3> SUFFICES ASSUME NEW q \in remembered, Entries(q) # {}
                 PROVE  Entries(q)' # {} \/ \E q2 \in remembered : SameForm(q2, q) /\ TooOld(q2, minute)
      BY DEF RemembersSound
    <3>1. CASE SameForm(q, s)
      <4>1. Entries(q) = Entries(s)
        BY <3>1 DEF Entries, SameForm
      <4> QED
        BY <4>1, <3>1, <2>5 DEF SameForm
    <3>2. CASE ~SameForm(q, s)
      <4>1. Entries(q)' = Entries(q)
        BY <3>2, <1>5 DEF Entries, SameForm
      <4> QED
        BY <4>1
    <3> QED
      BY <3>1, <3>2
  <2>7. RemembersSound'
    BY <1>1, <1>2, <1>5, <2>6 DEF RemembersSound, TooOld, ConsoleShape
  <2>8. mine = {} \/ \E q \in mine : TooOld(q, minute)
    <3> SUFFICES ASSUME NEW q \in mine PROVE \E q2 \in mine : TooOld(q2, minute)
      OBVIOUS
    <3>1. q \in remembered /\ SameForm(q, s)
      BY DEF mine
    <3>2. CASE Entries(q) = {}
      BY <3>1, <3>2 DEF RemembersSound, mine, SameForm
    <3>3. CASE Entries(q) # {}
      <4>1. Entries(q) = Entries(s)
        BY <3>1 DEF Entries, SameForm
      <4> QED
        BY <4>1, <3>3, <2>5 DEF mine
    <3> QED
      BY <3>2, <3>3
  <2>9. RetrySound'
    <3>1. before'[s] = {} \/ \E q \in before'[s] : startedAt'[s] - startedAt'[q] > CacheMinutes
      BY <1>1, <1>7, <2>8 DEF TooOld, ConsoleShape
    <3> QED
      BY <3>1, <1>1, <1>6, <1>7, <1>5 DEF RetrySound, TooOld, ConsoleShape
  <2> QED
    BY <2>1, <2>3, <2>4, <2>7, <2>9
<1> QED
  BY <1>3, <1>4, <1>5 DEF Submit, ConsoleGoto

(* The row of the invite. *)
LEMMA CreateInviteRowStep == ASSUME ConsoleInv, NEW s \in Submissions, CreateInviteRow(s) PROVE ConsoleInv'
<1> USE ConsoleSets DEF ConsoleInv
<1>1. ConsoleShape'
  BY DEF ConsoleShape, ConsoleStates, CreateInviteRow, ConsoleAt, ConsoleGoto
<1>2. StatesSound'
  BY DEF StatesSound, ConsoleShape, ConsoleStates, Settled, CreateInviteRow, ConsoleAt, ConsoleGoto
<1>3. CacheSound'
  BY DEF CacheSound, ConsoleShape, Settled, CreateInviteRow, ConsoleAt, ConsoleGoto
<1>4. CookieSound'
  BY DEF CookieSound, ConsoleShape, Settled, UrlLife, CreateInviteRow, ConsoleAt, ConsoleGoto
<1>5. DisplaySound'
  BY DEF DisplaySound, ConsoleShape, Settled, UrlLife, CreateInviteRow, ConsoleAt, ConsoleGoto
<1>6. RemembersSound'
  BY DEF RemembersSound, ConsoleShape, TooOld, Entries, SameForm, CreateInviteRow, ConsoleAt, ConsoleGoto
<1>7. RetrySound'
  BY DEF RetrySound, ConsoleShape, TooOld, CreateInviteRow, ConsoleAt, ConsoleGoto
<1> QED
  BY <1>1, <1>2, <1>3, <1>4, <1>5, <1>6, <1>7

(* Its audit row. *)
LEMMA WriteAuditCreateStep == ASSUME ConsoleInv, NEW s \in Submissions, WriteAuditCreate(s) PROVE ConsoleInv'
<1> USE ConsoleSets DEF ConsoleInv
<1>1. ConsoleShape'
  BY DEF ConsoleShape, ConsoleStates, WriteAuditCreate, Requests, ConsoleAt, ConsoleGoto
<1>2. StatesSound'
  BY DEF StatesSound, ConsoleShape, ConsoleStates, Settled, WriteAuditCreate, Requests, ConsoleAt, ConsoleGoto
<1>3. CacheSound'
  BY DEF CacheSound, ConsoleShape, Settled, WriteAuditCreate, Requests, ConsoleAt, ConsoleGoto
<1>4. CookieSound'
  BY DEF CookieSound, ConsoleShape, Settled, UrlLife, WriteAuditCreate, Requests, ConsoleAt, ConsoleGoto
<1>5. DisplaySound'
  BY DEF DisplaySound, ConsoleShape, Settled, UrlLife, WriteAuditCreate, Requests, ConsoleAt, ConsoleGoto
<1>6. RemembersSound'
  BY DEF RemembersSound, ConsoleShape, TooOld, Entries, SameForm, WriteAuditCreate, Requests, ConsoleAt, ConsoleGoto
<1>7. RetrySound'
  BY DEF RetrySound, ConsoleShape, TooOld, WriteAuditCreate, Requests, ConsoleAt, ConsoleGoto
<1> QED
  BY <1>1, <1>2, <1>3, <1>4, <1>5, <1>6, <1>7

(* The answer: the cache, the cookie. *)
LEMMA CreateInviteAnswerStep == ASSUME ConsoleInv, NEW s \in Submissions, CreateInviteAnswer(s) PROVE ConsoleInv'
<1> USE ConsoleSets DEF ConsoleInv
<1>1. ConsoleShape'
  BY DEF ConsoleShape, ConsoleStates, CreateInviteAnswer, SetCached, AnswerWith, SetFlashCookie, Entries, SameForm, ConsoleAt, ConsoleGoto
<1>2. StatesSound'
  BY DEF StatesSound, ConsoleShape, ConsoleStates, Settled, CreateInviteAnswer, SetCached, AnswerWith, SetFlashCookie, Entries, SameForm, ConsoleAt, ConsoleGoto
<1>3. CacheSound'
  BY DEF CacheSound, ConsoleShape, StatesSound, Settled, CreateInviteAnswer, SetCached, AnswerWith, SetFlashCookie, Entries, SameForm, ConsoleAt, ConsoleGoto
<1>4. CookieSound'
  BY DEF CookieSound, ConsoleShape, StatesSound, CacheSound, Settled, UrlLife, CreateInviteAnswer, SetCached, AnswerWith, SetFlashCookie, Entries, SameForm, ConsoleAt, ConsoleGoto
<1>5. DisplaySound'
  BY DEF DisplaySound, ConsoleShape, Settled, UrlLife, CreateInviteAnswer, SetCached, AnswerWith, SetFlashCookie, Entries, SameForm, ConsoleAt, ConsoleGoto
<1>6. RemembersSound'
  <2> USE DEF CreateInviteAnswer, ConsoleAt, ConsoleGoto, AnswerWith
  <2> DEFINE fresh == [by |-> SubmitterOf[s], key |-> SubmissionKey[s], invite |-> s, at |-> startedAt[s]]
  <2>1. /\ cache' = (cache \ Entries(s)) \cup {fresh}
        /\ remembered' = remembered \cup {s}
        /\ minute' = minute /\ startedAt' = startedAt
        /\ console'[s] = "done"
        /\ \A q \in Submissions : console[q] = "done" => console'[q] = "done"
    BY DEF SetCached, ConsoleShape
  <2> SUFFICES ASSUME NEW q \in remembered \cup {s}
               PROVE  /\ console'[q] = "done"
                      /\ \/ Entries(q)' # {}
                         \/ \E q2 \in remembered \cup {s} : SameForm(q2, q) /\ TooOld(q2, minute)
    BY <2>1 DEF RemembersSound, TooOld
  <2>2. CASE SameForm(q, s)
    <3>1. fresh \in Entries(q)'
      BY <2>1, <2>2 DEF Entries, SameForm
    <3> QED
      BY <3>1, <2>1 DEF RemembersSound, ConsoleShape
  <2>3. CASE ~SameForm(q, s)
    <3>1. q \in remembered /\ Entries(q) \subseteq Entries(q)'
      BY <2>1, <2>3 DEF Entries, SameForm
    <3> QED
      BY <3>1, <2>1 DEF RemembersSound, ConsoleShape
  <2> QED
    BY <2>2, <2>3
<1>7. RetrySound'
  BY DEF RetrySound, ConsoleShape, TooOld, CreateInviteAnswer, SetCached, AnswerWith, SetFlashCookie, Entries, SameForm, ConsoleAt, ConsoleGoto
<1> QED
  BY <1>1, <1>2, <1>3, <1>4, <1>5, <1>6, <1>7

(* A revocation reads. *)
LEMMA FindInviteStep == ASSUME ConsoleInv, NEW r \in Revocations, FindInvite(r) PROVE ConsoleInv'
<1> USE ConsoleSets DEF ConsoleInv
<1>1. ConsoleShape'
  BY DEF ConsoleShape, ConsoleStates, FindInvite, ConsoleAt, ConsoleGoto
<1>2. StatesSound'
  BY DEF StatesSound, ConsoleShape, ConsoleStates, Settled, FindInvite, ConsoleAt, ConsoleGoto
<1>3. CacheSound'
  BY DEF CacheSound, ConsoleShape, Settled, FindInvite, ConsoleAt, ConsoleGoto
<1>4. CookieSound'
  BY DEF CookieSound, ConsoleShape, Settled, UrlLife, FindInvite, ConsoleAt, ConsoleGoto
<1>5. DisplaySound'
  BY DEF DisplaySound, ConsoleShape, Settled, UrlLife, FindInvite, ConsoleAt, ConsoleGoto
<1>6. RemembersSound'
  BY DEF RemembersSound, ConsoleShape, TooOld, Entries, SameForm, FindInvite, ConsoleAt, ConsoleGoto
<1>7. RetrySound'
  BY DEF RetrySound, ConsoleShape, TooOld, FindInvite, ConsoleAt, ConsoleGoto
<1> QED
  BY <1>1, <1>2, <1>3, <1>4, <1>5, <1>6, <1>7

(* It updates. *)
LEMMA RevokeInviteStep == ASSUME ConsoleInv, NEW r \in Revocations, RevokeInvite(r) PROVE ConsoleInv'
<1> USE ConsoleSets DEF ConsoleInv
<1>1. ConsoleShape'
  BY DEF ConsoleShape, ConsoleStates, RevokeInvite, ConsoleAt, ConsoleGoto
<1>2. StatesSound'
  BY DEF StatesSound, ConsoleShape, ConsoleStates, Settled, RevokeInvite, ConsoleAt, ConsoleGoto
<1>3. CacheSound'
  BY DEF CacheSound, ConsoleShape, Settled, RevokeInvite, ConsoleAt, ConsoleGoto
<1>4. CookieSound'
  BY DEF CookieSound, ConsoleShape, Settled, UrlLife, RevokeInvite, ConsoleAt, ConsoleGoto
<1>5. DisplaySound'
  BY DEF DisplaySound, ConsoleShape, Settled, UrlLife, RevokeInvite, ConsoleAt, ConsoleGoto
<1>6. RemembersSound'
  BY DEF RemembersSound, ConsoleShape, TooOld, Entries, SameForm, RevokeInvite, ConsoleAt, ConsoleGoto
<1>7. RetrySound'
  BY DEF RetrySound, ConsoleShape, StatesSound, TooOld, RevokeInvite, ConsoleAt, ConsoleGoto
<1> QED
  BY <1>1, <1>2, <1>3, <1>4, <1>5, <1>6, <1>7

(* Its audit row. *)
LEMMA WriteAuditRevokeStep == ASSUME ConsoleInv, NEW r \in Revocations, WriteAuditRevoke(r) PROVE ConsoleInv'
<1> USE ConsoleSets DEF ConsoleInv
<1>1. ConsoleShape'
  BY DEF ConsoleShape, ConsoleStates, WriteAuditRevoke, Requests, ConsoleAt, ConsoleGoto
<1>2. StatesSound'
  BY DEF StatesSound, ConsoleShape, ConsoleStates, Settled, WriteAuditRevoke, Requests, ConsoleAt, ConsoleGoto
<1>3. CacheSound'
  BY DEF CacheSound, ConsoleShape, Settled, WriteAuditRevoke, Requests, ConsoleAt, ConsoleGoto
<1>4. CookieSound'
  BY DEF CookieSound, ConsoleShape, Settled, UrlLife, WriteAuditRevoke, Requests, ConsoleAt, ConsoleGoto
<1>5. DisplaySound'
  BY DEF DisplaySound, ConsoleShape, Settled, UrlLife, WriteAuditRevoke, Requests, ConsoleAt, ConsoleGoto
<1>6. RemembersSound'
  BY DEF RemembersSound, ConsoleShape, TooOld, Entries, SameForm, WriteAuditRevoke, Requests, ConsoleAt, ConsoleGoto
<1>7. RetrySound'
  BY DEF RetrySound, ConsoleShape, TooOld, WriteAuditRevoke, Requests, ConsoleAt, ConsoleGoto
<1> QED
  BY <1>1, <1>2, <1>3, <1>4, <1>5, <1>6, <1>7

(* A statement fails. *)
LEMMA ConsoleFailStep == ASSUME ConsoleInv, NEW r \in Requests, ConsoleFail(r) PROVE ConsoleInv'
<1> USE ConsoleSets DEF ConsoleInv
<1>1. ConsoleShape'
  BY DEF ConsoleShape, ConsoleStates, ConsoleFail, ConsoleAt, ConsoleGoto
<1>2. StatesSound'
  BY DEF StatesSound, ConsoleShape, ConsoleStates, Settled, ConsoleFail, ConsoleAt, ConsoleGoto
<1>3. CacheSound'
  BY DEF CacheSound, ConsoleShape, Settled, ConsoleFail, ConsoleAt, ConsoleGoto
<1>4. CookieSound'
  BY DEF CookieSound, ConsoleShape, Settled, UrlLife, ConsoleFail, ConsoleAt, ConsoleGoto
<1>5. DisplaySound'
  BY DEF DisplaySound, ConsoleShape, Settled, UrlLife, ConsoleFail, ConsoleAt, ConsoleGoto
<1>6. RemembersSound'
  BY DEF RemembersSound, ConsoleShape, TooOld, Entries, SameForm, ConsoleFail, ConsoleAt, ConsoleGoto
<1>7. RetrySound'
  BY DEF RetrySound, ConsoleShape, TooOld, ConsoleFail, ConsoleAt, ConsoleGoto
<1> QED
  BY <1>1, <1>2, <1>3, <1>4, <1>5, <1>6, <1>7

(* The process restarts: nobody is remembered. *)
LEMMA ConsoleRestartStep == ASSUME ConsoleInv, ConsoleRestart PROVE ConsoleInv'
<1> USE ConsoleSets DEF ConsoleInv
<1>1. ConsoleShape'
  BY DEF ConsoleShape, ConsoleStates, ConsoleRestart
<1>2. StatesSound'
  BY DEF StatesSound, ConsoleShape, ConsoleStates, Settled, ConsoleRestart
<1>3. CacheSound'
  BY DEF CacheSound, ConsoleShape, Settled, ConsoleRestart
<1>4. CookieSound'
  BY DEF CookieSound, ConsoleShape, Settled, UrlLife, ConsoleRestart
<1>5. DisplaySound'
  BY DEF DisplaySound, ConsoleShape, Settled, UrlLife, ConsoleRestart
<1>6. RemembersSound'
  BY DEF RemembersSound, ConsoleShape, TooOld, Entries, SameForm, ConsoleRestart
<1>7. RetrySound'
  BY DEF RetrySound, ConsoleShape, TooOld, ConsoleRestart
<1> QED
  BY <1>1, <1>2, <1>3, <1>4, <1>5, <1>6, <1>7

(* The page shows what the cookie holds. *)
LEMMA OpenCreatedPageStep == ASSUME ConsoleInv, NEW m \in Browsers, OpenCreatedPage(m) PROVE ConsoleInv'
<1> USE ConsoleSets DEF ConsoleInv
<1>1. ConsoleShape'
  BY DEF ConsoleShape, CookieSound, Settled, ConsoleStates, OpenCreatedPage
<1>2. StatesSound'
  BY DEF StatesSound, ConsoleShape, ConsoleStates, Settled, OpenCreatedPage
<1>3. CacheSound'
  BY DEF CacheSound, ConsoleShape, Settled, OpenCreatedPage
<1>4. CookieSound'
  BY DEF CookieSound, ConsoleShape, Settled, UrlLife, OpenCreatedPage
<1>5. DisplaySound'
  BY DEF DisplaySound, ConsoleShape, CookieSound, Settled, UrlLife, OpenCreatedPage
<1>6. RemembersSound'
  BY DEF RemembersSound, ConsoleShape, TooOld, Entries, SameForm, OpenCreatedPage
<1>7. RetrySound'
  BY DEF RetrySound, ConsoleShape, TooOld, OpenCreatedPage
<1> QED
  BY <1>1, <1>2, <1>3, <1>4, <1>5, <1>6, <1>7

(* The cookie is deleted. *)
LEMMA ClearFlashStep == ASSUME ConsoleInv, NEW m \in Browsers, ClearFlash(m) PROVE ConsoleInv'
<1> USE ConsoleSets DEF ConsoleInv
<1>1. ConsoleShape'
  BY DEF ConsoleShape, ConsoleStates, ClearFlash
<1>2. StatesSound'
  BY DEF StatesSound, ConsoleShape, ConsoleStates, Settled, ClearFlash
<1>3. CacheSound'
  BY DEF CacheSound, ConsoleShape, Settled, ClearFlash
<1>4. CookieSound'
  BY DEF CookieSound, ConsoleShape, Settled, UrlLife, ClearFlash
<1>5. DisplaySound'
  BY DEF DisplaySound, ConsoleShape, Settled, UrlLife, ClearFlash
<1>6. RemembersSound'
  BY DEF RemembersSound, ConsoleShape, TooOld, Entries, SameForm, ClearFlash
<1>7. RetrySound'
  BY DEF RetrySound, ConsoleShape, TooOld, ClearFlash
<1> QED
  BY <1>1, <1>2, <1>3, <1>4, <1>5, <1>6, <1>7

(* Time passes. *)
LEMMA NextMinuteStep == ASSUME ConsoleInv, NextMinute PROVE ConsoleInv'
<1> USE ConsoleSets DEF ConsoleInv
<1>1. ConsoleShape'
  BY DEF ConsoleShape, ConsoleStates, NextMinute
<1>2. StatesSound'
  BY DEF StatesSound, ConsoleShape, ConsoleStates, Settled, NextMinute
<1>3. CacheSound'
  BY DEF CacheSound, ConsoleShape, Settled, NextMinute
<1>4. CookieSound'
  BY DEF CookieSound, ConsoleShape, Settled, UrlLife, NextMinute
<1>5. DisplaySound'
  BY DEF DisplaySound, ConsoleShape, Settled, UrlLife, NextMinute
<1>6. RemembersSound'
  BY DEF RemembersSound, ConsoleShape, TooOld, Entries, SameForm, NextMinute
<1>7. RetrySound'
  BY DEF RetrySound, ConsoleShape, TooOld, NextMinute
<1> QED
  BY <1>1, <1>2, <1>3, <1>4, <1>5, <1>6, <1>7

(* Nothing happens. *)
LEMMA ConsoleStutter == ASSUME ConsoleInv, UNCHANGED consoleVars PROVE ConsoleInv'
<1> USE ConsoleSets DEF ConsoleInv
<1>1. ConsoleShape'
  BY DEF ConsoleShape, ConsoleStates, consoleVars
<1>2. StatesSound'
  BY DEF StatesSound, ConsoleShape, ConsoleStates, Settled, consoleVars
<1>3. CacheSound'
  BY DEF CacheSound, ConsoleShape, Settled, consoleVars
<1>4. CookieSound'
  BY DEF CookieSound, ConsoleShape, Settled, UrlLife, consoleVars
<1>5. DisplaySound'
  BY DEF DisplaySound, ConsoleShape, Settled, UrlLife, consoleVars
<1>6. RemembersSound'
  BY DEF RemembersSound, ConsoleShape, TooOld, Entries, SameForm, consoleVars
<1>7. RetrySound'
  BY DEF RetrySound, ConsoleShape, TooOld, consoleVars
<1> QED
  BY <1>1, <1>2, <1>3, <1>4, <1>5, <1>6, <1>7

LEMMA ConsoleInvStep == ConsoleInv /\ [ConsoleNext]_consoleVars => ConsoleInv'
BY SubmitStep, CreateInviteRowStep, WriteAuditCreateStep, CreateInviteAnswerStep,
   FindInviteStep, RevokeInviteStep, WriteAuditRevokeStep, ConsoleFailStep,
   ConsoleRestartStep, OpenCreatedPageStep, ClearFlashStep, NextMinuteStep, ConsoleStutter
   DEF ConsoleNext

-----------------------------------------------------------------------------
LEMMA ConsoleInvHolds == ConsoleSpec => []ConsoleInv
BY ConsoleInvInit, ConsoleInvStep, PTL DEF ConsoleSpec

LEMMA ConsoleInvPromises == ConsoleInv => TokensAudited /\ RetryIsAnswered /\ UrlShownShortly
<1> SUFFICES ASSUME ConsoleInv PROVE TokensAudited /\ RetryIsAnswered /\ UrlShownShortly
  OBVIOUS
<1> USE ConsoleSets DEF ConsoleInv
<1>1. TokensAudited
  BY DEF TokensAudited, StatesSound, DisplaySound, Settled
<1>2. RetryIsAnswered
  BY DEF RetryIsAnswered, RetrySound, TooOld
<1>3. UrlShownShortly
  BY DEF UrlShownShortly, DisplaySound, UrlLife
<1> QED
  BY <1>1, <1>2, <1>3

(* No token reaches anybody before its invite is in the audit log, whatever    *)
(* fails, restarts or is sent twice (invites.ts:457).                         *)
THEOREM TokensAuditedAlways == ConsoleSpec => []TokensAudited
BY ConsoleInvHolds, ConsoleInvPromises, PTL

(* A form sent again after its answer makes no second invite while the entry   *)
(* of the first lives (invites.ts:431).                                       *)
THEOREM RetryIsAnsweredAlways == ConsoleSpec => []RetryIsAnswered
BY ConsoleInvHolds, ConsoleInvPromises, PTL

(* A URL is shown within the life of the entry and of the cookie after its     *)
(* first answer, and never later (flash-cookie.ts:34).                        *)
THEOREM UrlShownShortlyAlways == ConsoleSpec => []UrlShownShortly
BY ConsoleInvHolds, ConsoleInvPromises, PTL

-----------------------------------------------------------------------------
(* The types, the clock and the restarts within their bounds, and one entry   *)
(* of the cache for each form.                                              *)
ConsoleFrame ==
  /\ due \in ConsoleSchedules /\ minute \in 0 .. MaxMinute /\ restarts \in 0 .. MaxRestarts
  /\ \A e, f \in cache : e.by = f.by /\ e.key = f.key => e = f

LEMMA ConsoleFrameInit == ConsoleInit => ConsoleFrame
BY ConsoleAssumption DEF ConsoleInit, ConsoleFrame

LEMMA ConsoleFrameStep == ConsoleFrame /\ [ConsoleNext]_consoleVars => ConsoleFrame'
<1> SUFFICES ASSUME ConsoleFrame, [ConsoleNext]_consoleVars
             PROVE  ConsoleFrame'
  OBVIOUS
<1> USE DEF ConsoleFrame
<1>1. ASSUME due' = due, minute' = minute, restarts' = restarts, cache' \subseteq cache
      PROVE  ConsoleFrame'
  BY <1>1
<1>2. ASSUME NEW s \in Submissions, Submit(s) PROVE ConsoleFrame'
  BY <1>1, <1>2 DEF Submit
<1>3. ASSUME NEW s \in Submissions, CreateInviteAnswer(s) PROVE ConsoleFrame'
  <2> DEFINE entry == [by |-> SubmitterOf[s], key |-> SubmissionKey[s], invite |-> s,
                       at |-> startedAt[s]]
  <2>1. cache' = (cache \ Entries(s)) \cup {entry}
    BY <1>3 DEF CreateInviteAnswer, SetCached
  <2>2. \A e \in cache \ Entries(s) : ~ (e.by = entry.by /\ e.key = entry.key)
    BY DEF Entries
  <2> HIDE DEF entry
  <2>3. \A e, f \in cache' : e.by = f.by /\ e.key = f.key => e = f
    BY <2>1, <2>2
  <2> QED BY <1>3, <2>3 DEF CreateInviteAnswer
<1>4. ASSUME ConsoleRestart PROVE ConsoleFrame'
  BY <1>4, ConsoleAssumption DEF ConsoleRestart
<1>5. ASSUME NextMinute PROVE ConsoleFrame'
  BY <1>5, ConsoleAssumption DEF NextMinute
<1>6. CASE UNCHANGED consoleVars
  BY <1>1, <1>6 DEF consoleVars
<1>7. ASSUME NEW s \in Submissions, CreateInviteRow(s) \/ WriteAuditCreate(s) PROVE ConsoleFrame'
  BY <1>1, <1>7 DEF CreateInviteRow, WriteAuditCreate
<1>8. ASSUME NEW r \in Requests, FindInvite(r) \/ RevokeInvite(r) \/ WriteAuditRevoke(r)
                                 \/ ConsoleFail(r)
      PROVE  ConsoleFrame'
  BY <1>1, <1>8 DEF FindInvite, RevokeInvite, WriteAuditRevoke, ConsoleFail
<1>9. ASSUME NEW m \in Browsers, OpenCreatedPage(m) \/ ClearFlash(m) PROVE ConsoleFrame'
  BY <1>1, <1>9 DEF OpenCreatedPage, ClearFlash
<1> QED BY <1>2, <1>3, <1>4, <1>5, <1>6, <1>7, <1>8, <1>9 DEF ConsoleNext, Requests

(* Every reachable state of the invite console is well typed, and its cache    *)
(* has at most one entry of a form.                                         *)
THEOREM ConsoleTypeCorrect == ConsoleSpec => []ConsoleTypeOK
<1>1. ConsoleInv /\ ConsoleFrame => ConsoleTypeOK
  BY DEF ConsoleInv, ConsoleShape, ConsoleFrame, ConsoleTypeOK, ConsoleStates
<1> QED BY <1>1, ConsoleInvHolds, ConsoleFrameInit, ConsoleFrameStep, PTL DEF ConsoleSpec

-----------------------------------------------------------------------------
(* Proofs about what a request meets before it is served: the limiters of   *)
(* RateLimits, for any calls, keys, limits, windows and mails, and the       *)
(* guards of AccessGuards, for any request.                                 *)
(*                                                                         *)
(* What is kept of a key is a part of what was admitted with it, and all of  *)
(* what the window still counts (KeyTrue): the test of a call is therefore a *)
(* test of the history, whatever was pruned.  For the fixed window, the hits *)
(* since the bucket opened are its count, and those of the window before     *)
(* belong to one bucket as well (BucketNow).  Mails that do not overlap      *)
(* write back what is still so (HistoryKept).                               *)

LEMMA CallFacts ==
  ASSUME NEW c \in RateCalls, NEW d \in Asked(c)
  PROVE  /\ d \in Dimensions /\ c.keys[d] \in RateKeys
         /\ Limit(c, d) \in Nat \ {0} /\ Window(c, d) \in Nat \ {0}
<1>1. c.route \in RateRoutes /\ c.keys \in [Dimensions -> RateKeys \cup {NoKey}]
  BY RateAssumption
<1>2. d \in DimensionsOf[c.route] /\ c.keys[d] # NoKey
  BY DEF Asked
<1>3. d \in Dimensions
  BY <1>1, <1>2 DEF RateRoutes, DimensionsOf, Dimensions
<1> QED BY <1>1, <1>2, <1>3, RateAssumption DEF Limit, Window

(* What Store writes at one key. *)
LEMMA StoreAt ==
  ASSUME NEW hits \in [Dimensions -> [RateKeys -> SUBSET Hits]], NEW c \in RateCalls, NEW kept
  PROVE  /\ \A d \in Asked(c) : Store(hits, c, kept)[d][c.keys[d]] = kept[d]
         /\ \A d \in Dimensions, k \in RateKeys :
              ~ (d \in Asked(c) /\ k = c.keys[d]) => Store(hits, c, kept)[d][k] = hits[d][k]
         /\ (\A d \in Asked(c) : kept[d] \in SUBSET Hits)
              => Store(hits, c, kept) \in [Dimensions -> [RateKeys -> SUBSET Hits]]
BY CallFacts DEF Store

-----------------------------------------------------------------------------
(* Every reachable state has the types of RateTypeOK.                         *)

LEMMA WindowedFacts ==
  ASSUME NEW c, NEW d
  PROVE  /\ Windowed(c, d) \subseteq Timestamps(c, d)
         /\ Pruned(c, d) \subseteq Timestamps(c, d)
         /\ Windowed(c, d) \subseteq Pruned(c, d)
BY DEF Windowed, Pruned, InWindow

LEMMA RateTypeInit == RateInit => RateTypeOK
<1> SUFFICES ASSUME RateInit PROVE RateTypeOK
  OBVIOUS
<1>1. 0 \in 0 .. MaxTick /\ 0 \in 0 .. IngestLimit
  BY RateAssumption
<1>2. mailing \in [Mails -> [pc : {"idle", "sending", "done"}, history : SUBSET Mails,
                             now : 0 .. MaxTick]]
  BY <1>1 DEF RateInit
<1>3. rateLimitBuckets \in [Reporters -> [count : 0 .. IngestLimit, resetAt : Int]]
  BY <1>1 DEF RateInit
<1>4. counters \in [Dimensions -> [RateKeys -> SUBSET Hits]] /\ admitted = counters
  BY DEF RateInit
<1> QED BY <1>1, <1>2, <1>3, <1>4 DEF RateInit, RateTypeOK

(* What is needed of a key for its next hit to be a new one. *)
KeyFit(d, k) ==
  /\ IsFiniteSet(admitted[d][k]) /\ counters[d][k] \subseteq admitted[d][k]
  /\ \A h \in admitted[d][k] : h.at <= tick /\ h.no < Cardinality(admitted[d][k])
KeysFit == \A d \in Dimensions, k \in RateKeys : KeyFit(d, k)

ReporterFit(m) ==
  /\ IsFiniteSet(ingested[m])
  /\ \A h \in ingested[m] : h.at <= tick /\ h.no < Cardinality(ingested[m])
ReportersFit == \A m \in Reporters : ReporterFit(m)

RateShape == RateTypeOK /\ KeysFit /\ ReportersFit

LEMMA HitTyped ==
  ASSUME RateTypeOK, NEW hits, IsFiniteSet(hits)
  PROVE  Hit(hits) \in Hits /\ Hit(hits).at = tick /\ Hit(hits).no = Cardinality(hits)
BY FS_CardinalityType DEF RateTypeOK, Hits, Hit

LEMMA RateTypeStep ==
  ASSUME RateShape, RateNext
  PROVE  RateTypeOK'
<1> USE DEF RateShape
<1>1. ASSUME NEW c \in RateCalls, Admit(c) PROVE RateTypeOK'
  <2> DEFINE hit == [d \in Asked(c) |-> Hit(admitted[d][c.keys[d]])]
             kept == [d \in Asked(c) |-> Pruned(c, d) \cup {hit[d]}]
             more == [d \in Asked(c) |-> admitted[d][c.keys[d]] \cup {hit[d]}]
  <2>1. \A d \in Asked(c) : hit[d] \in Hits
    BY HitTyped, CallFacts DEF KeysFit, KeyFit
  <2>2. \A d \in Asked(c) : kept[d] \in SUBSET Hits /\ more[d] \in SUBSET Hits
    BY <2>1, WindowedFacts, CallFacts DEF RateTypeOK, Timestamps
  <2>3. counters' = Store(counters, c, kept) /\ admitted' = Store(admitted, c, more)
    BY <1>1 DEF Admit
  <2>4. counters' \in [Dimensions -> [RateKeys -> SUBSET Hits]]
    BY <2>2, <2>3, StoreAt DEF RateTypeOK
  <2>5. admitted' \in [Dimensions -> [RateKeys -> SUBSET Hits]]
    BY <2>2, <2>3, StoreAt DEF RateTypeOK
  <2> QED BY <1>1, <2>4, <2>5 DEF Admit, RateTypeOK
<1>2. ASSUME NEW c \in RateCalls, NEW d \in Dimensions, Refuse(c, d) PROVE RateTypeOK'
  <2> DEFINE kept == [e \in Asked(c) |->
               IF e = d THEN Windowed(c, e)
               ELSE IF e \in Before[d] THEN Pruned(c, e) ELSE Timestamps(c, e)]
  <2>1. \A e \in Asked(c) : kept[e] \in SUBSET Hits
    BY WindowedFacts, CallFacts DEF RateTypeOK, Timestamps
  <2>2. counters' = Store(counters, c, kept)
    BY <1>2 DEF Refuse
  <2>3. counters' \in [Dimensions -> [RateKeys -> SUBSET Hits]]
    BY <2>1, <2>2, StoreAt DEF RateTypeOK
  <2> QED BY <1>2, <2>3 DEF Refuse, RateTypeOK
<1>3. ASSUME NEW m \in Reporters, Ingest(m) PROVE RateTypeOK'
  <2>1. Hit(ingested[m]) \in Hits
    BY HitTyped DEF ReportersFit, ReporterFit
  <2>2. ingested' \in [Reporters -> SUBSET Hits]
    BY <1>3, <2>1 DEF Ingest, RateTypeOK
  <2>3. rateLimitBuckets' \in [Reporters -> [count : 0 .. IngestLimit, resetAt : Int]]
    <3>1. CASE FreshBucket(m)
      <4>1. [count |-> 1, resetAt |-> tick + IngestWindow] \in [count : 0 .. IngestLimit, resetAt : Int]
        BY RateAssumption DEF RateTypeOK
      <4> QED BY <1>3, <3>1, <4>1 DEF Ingest, RateTypeOK
    <3>2. CASE ~FreshBucket(m)
      <4>1. rateLimitBuckets[m].count + 1 \in 0 .. IngestLimit
        BY <1>3, <3>2, RateAssumption DEF Ingest, RateTypeOK
      <4> QED BY <1>3, <3>2, <4>1 DEF Ingest, RateTypeOK
    <3> QED BY <3>1, <3>2
  <2> QED BY <1>3, <2>2, <2>3 DEF Ingest, RateTypeOK
<1>4. ASSUME NEW x \in Mails, BeginMail(x) PROVE RateTypeOK'
  <2>1. History \subseteq Mails
    BY DEF History, RateTypeOK
  <2>2. mailing' \in [Mails -> [pc : {"idle", "sending", "done"}, history : SUBSET Mails,
                               now : 0 .. MaxTick]]
    <3>1. /\ mailing[x].history \subseteq Mails /\ mailing[x].now \in 0 .. MaxTick
          /\ tick \in 0 .. MaxTick
      BY DEF RateTypeOK
    <3>2. \/ mailing' = [mailing EXCEPT ![x] = [pc |-> "sending", history |-> History, now |-> tick]]
          \/ mailing' = [mailing EXCEPT ![x].pc = "done"]
      BY <1>4 DEF BeginMail
    <3> HIDE DEF History
    <3> QED BY <2>1, <3>1, <3>2 DEF RateTypeOK
  <2>3. rateLimitState' \subseteq Mails
    BY <1>4, <2>1 DEF BeginMail, RateTypeOK
  <2>4. overlapped' \in BOOLEAN
    BY <1>4, Zenon DEF BeginMail, RateTypeOK
  <2> QED BY <1>4, <2>2, <2>3, <2>4 DEF BeginMail, RateTypeOK
<1>5. ASSUME NEW x \in Mails, NEW sent \in BOOLEAN, EndMail(x, sent) PROVE RateTypeOK'
  BY <1>5 DEF EndMail, RateTypeOK
<1>6. CASE NextTick
  BY <1>6, RateAssumption DEF NextTick, RateTypeOK, Hits
<1> QED BY <1>1, <1>2, <1>3, <1>4, <1>5, <1>6 DEF RateNext

-----------------------------------------------------------------------------
(* The hits of a key.                                                       *)

(* What a step does to the hits of a key: it admits a call and adds one hit  *)
(* to both sets, or keeps the history and drops what no window counts.       *)
Admits(d, k) ==
  /\ admitted'[d][k] = admitted[d][k] \cup {Hit(admitted[d][k])}
  /\ \E c \in RateCalls :
       /\ d \in Asked(c) /\ k = c.keys[d] /\ ~Exceeds(c, d)
       /\ counters'[d][k] = Pruned(c, d) \cup {Hit(admitted[d][k])}
Tidies(d, k) ==
  /\ admitted'[d][k] = admitted[d][k] /\ counters'[d][k] \subseteq counters[d][k]
  /\ \/ counters'[d][k] = counters[d][k]
     \/ \E c \in RateCalls :
          /\ d \in Asked(c) /\ k = c.keys[d] /\ Windowed(c, d) \subseteq counters'[d][k]

LEMMA KeyStep ==
  ASSUME RateTypeOK, RateNext, NEW d \in Dimensions, NEW k \in RateKeys
  PROVE  \/ NextTick /\ admitted' = admitted /\ counters' = counters
         \/ tick' = tick /\ (Admits(d, k) \/ Tidies(d, k))
<1>1. ASSUME NEW c \in RateCalls, Admit(c)
      PROVE  tick' = tick /\ (Admits(d, k) \/ Tidies(d, k))
  <2> DEFINE hit == [e \in Asked(c) |-> Hit(admitted[e][c.keys[e]])]
             kept == [e \in Asked(c) |-> Pruned(c, e) \cup {hit[e]}]
             more == [e \in Asked(c) |-> admitted[e][c.keys[e]] \cup {hit[e]}]
  <2>0. /\ counters \in [Dimensions -> [RateKeys -> SUBSET Hits]]
        /\ admitted \in [Dimensions -> [RateKeys -> SUBSET Hits]]
    BY DEF RateTypeOK
  <2>1. /\ counters' = Store(counters, c, kept) /\ admitted' = Store(admitted, c, more)
        /\ tick' = tick /\ \A e \in Asked(c) : ~Exceeds(c, e)
    BY <1>1 DEF Admit
  <2> HIDE DEF kept, more
  <2>2. CASE d \in Asked(c) /\ k = c.keys[d]
    <3>1. Store(counters, c, kept)[d][k] = kept[d] /\ Store(admitted, c, more)[d][k] = more[d]
      BY <2>0, <2>2, StoreAt
    <3>2. /\ kept[d] = Pruned(c, d) \cup {Hit(admitted[d][k])}
          /\ more[d] = admitted[d][k] \cup {Hit(admitted[d][k])}
      BY <2>2 DEF kept, more
    <3>3. counters'[d][k] = kept[d] /\ admitted'[d][k] = more[d]
      BY <2>1, <3>1
    <3> QED BY <2>1, <2>2, <3>2, <3>3 DEF Admits
  <2>3. CASE ~ (d \in Asked(c) /\ k = c.keys[d])
    <3>1. /\ Store(counters, c, kept)[d][k] = counters[d][k]
          /\ Store(admitted, c, more)[d][k] = admitted[d][k]
      BY <2>0, <2>3, StoreAt
    <3>2. counters'[d][k] = counters[d][k] /\ admitted'[d][k] = admitted[d][k]
      BY <2>1, <3>1
    <3> QED BY <2>1, <3>2 DEF Tidies
  <2> QED BY <2>2, <2>3
<1>2. ASSUME NEW c \in RateCalls, NEW f \in Dimensions, Refuse(c, f)
      PROVE  tick' = tick /\ Tidies(d, k)
  <2> DEFINE kept == [e \in Asked(c) |->
               IF e = f THEN Windowed(c, e)
               ELSE IF e \in Before[f] THEN Pruned(c, e) ELSE Timestamps(c, e)]
  <2>0. /\ counters \in [Dimensions -> [RateKeys -> SUBSET Hits]]
        /\ admitted \in [Dimensions -> [RateKeys -> SUBSET Hits]]
    BY DEF RateTypeOK
  <2>1. counters' = Store(counters, c, kept) /\ admitted' = admitted /\ tick' = tick
    BY <1>2 DEF Refuse
  <2>2. \A e \in Asked(c) : Windowed(c, e) \subseteq kept[e] /\ kept[e] \subseteq Timestamps(c, e)
    BY WindowedFacts
  <2> HIDE DEF kept
  <2>3. CASE d \in Asked(c) /\ k = c.keys[d]
    <3>1. Store(counters, c, kept)[d][k] = kept[d]
      BY <2>0, <2>3, StoreAt
    <3>2. counters'[d][k] = kept[d]
      BY <2>1, <3>1
    <3> QED BY <2>1, <2>2, <2>3, <3>2 DEF Tidies, Timestamps
  <2>4. CASE ~ (d \in Asked(c) /\ k = c.keys[d])
    <3>1. Store(counters, c, kept)[d][k] = counters[d][k]
      BY <2>0, <2>4, StoreAt
    <3>2. counters'[d][k] = counters[d][k]
      BY <2>1, <3>1
    <3> QED BY <2>1, <3>2 DEF Tidies
  <2> QED BY <2>3, <2>4
<1>3. ASSUME NEW m \in Reporters, Ingest(m) PROVE tick' = tick /\ Tidies(d, k)
  BY <1>3 DEF Ingest, Tidies
<1>4. ASSUME NEW x \in Mails, BeginMail(x) PROVE tick' = tick /\ Tidies(d, k)
  BY <1>4 DEF BeginMail, Tidies
<1>5. ASSUME NEW x \in Mails, NEW sent \in BOOLEAN, EndMail(x, sent)
      PROVE  tick' = tick /\ Tidies(d, k)
  BY <1>5 DEF EndMail, Tidies
<1>6. ASSUME NextTick PROVE NextTick /\ admitted' = admitted /\ counters' = counters
  BY <1>6 DEF NextTick
<1> QED BY <1>1, <1>2, <1>3, <1>4, <1>5, <1>6 DEF RateNext

(* A new hit is new. *)
LEMMA NewHit ==
  ASSUME NEW now \in Nat, NEW hits, IsFiniteSet(hits), NEW hit,
         \A h \in hits : h.at <= now /\ h.no \in Nat /\ h.no < Cardinality(hits),
         hit.at = now, hit.no = Cardinality(hits)
  PROVE  /\ hit \notin hits /\ IsFiniteSet(hits \cup {hit})
         /\ Cardinality(hits \cup {hit}) = Cardinality(hits) + 1
         /\ \A h \in hits \cup {hit} : h.at <= now /\ h.no < Cardinality(hits \cup {hit})
<1>1. Cardinality(hits) \in Nat
  BY FS_CardinalityType
<1>2. hit \notin hits
  BY <1>1
<1>3. Cardinality(hits \cup {hit}) = Cardinality(hits) + 1 /\ IsFiniteSet(hits \cup {hit})
  BY <1>2, FS_AddElement
<1>4. \A h \in hits \cup {hit} : h.at <= now /\ h.no < Cardinality(hits) + 1
  <2> SUFFICES ASSUME NEW h \in hits \cup {hit}
               PROVE  h.at <= now /\ h.no < Cardinality(hits) + 1
    OBVIOUS
  <2>1. CASE h \in hits
    BY <1>1, <2>1
  <2>2. CASE h = hit
    BY <1>1, <2>2
  <2> QED BY <2>1, <2>2
<1> QED BY <1>2, <1>3, <1>4

LEMMA KeysFitStep ==
  ASSUME RateShape, RateNext
  PROVE  KeysFit'
<1> USE DEF RateShape
<1> SUFFICES ASSUME NEW d \in Dimensions, NEW k \in RateKeys PROVE KeyFit(d, k)'
  BY DEF KeysFit
<1>1. /\ IsFiniteSet(admitted[d][k]) /\ counters[d][k] \subseteq admitted[d][k]
      /\ \A h \in admitted[d][k] : h.at <= tick /\ h.no < Cardinality(admitted[d][k])
  BY DEF KeysFit, KeyFit
<1>2. tick \in Nat /\ \A h \in admitted[d][k] : h.at \in Nat /\ h.no \in Nat
  BY RateAssumption DEF RateTypeOK, Hits
<1>3. CASE NextTick /\ admitted' = admitted /\ counters' = counters
  <2>1. tick' = tick + 1
    BY <1>3 DEF NextTick
  <2> QED BY <1>1, <1>2, <1>3, <2>1 DEF KeyFit
<1>4. CASE tick' = tick /\ Admits(d, k)
  <2> DEFINE hit == Hit(admitted[d][k])
  <2>1. hit.at = tick /\ hit.no = Cardinality(admitted[d][k])
    BY DEF Hit
  <2> HIDE DEF hit
  <2>2. admitted'[d][k] = admitted[d][k] \cup {hit} /\ counters'[d][k] \subseteq counters[d][k] \cup {hit}
    BY <1>4, WindowedFacts DEF Admits, hit, Timestamps
  <2>3. /\ IsFiniteSet(admitted[d][k] \cup {hit})
        /\ \A h \in admitted[d][k] \cup {hit} :
             h.at <= tick /\ h.no < Cardinality(admitted[d][k] \cup {hit})
    BY <1>1, <1>2, <2>1, NewHit
  <2> QED BY <1>1, <1>4, <2>2, <2>3 DEF KeyFit
<1>5. CASE tick' = tick /\ Tidies(d, k)
  BY <1>1, <1>5 DEF KeyFit, Tidies
<1> QED BY <1>3, <1>4, <1>5, KeyStep

LEMMA ReportersFitStep ==
  ASSUME RateShape, RateNext
  PROVE  ReportersFit'
<1> USE DEF RateShape
<1> SUFFICES ASSUME NEW m \in Reporters PROVE ReporterFit(m)'
  BY DEF ReportersFit
<1>1. /\ IsFiniteSet(ingested[m])
      /\ \A h \in ingested[m] : h.at <= tick /\ h.no < Cardinality(ingested[m])
  BY DEF ReportersFit, ReporterFit
<1>2. tick \in Nat /\ \A h \in ingested[m] : h.at \in Nat /\ h.no \in Nat
  BY RateAssumption DEF RateTypeOK, Hits
<1>3. CASE Ingest(m)
  <2> DEFINE hit == Hit(ingested[m])
  <2>1. hit.at = tick /\ hit.no = Cardinality(ingested[m])
    BY DEF Hit
  <2>2. ingested'[m] = ingested[m] \cup {hit} /\ tick' = tick
    BY <1>3 DEF Ingest, RateTypeOK
  <2> HIDE DEF hit
  <2>3. /\ IsFiniteSet(ingested[m] \cup {hit})
        /\ \A h \in ingested[m] \cup {hit} :
             h.at <= tick /\ h.no < Cardinality(ingested[m] \cup {hit})
    BY <1>1, <1>2, <2>1, NewHit
  <2> QED BY <2>2, <2>3 DEF ReporterFit
<1>4. CASE ~Ingest(m)
  <2>1. ingested'[m] = ingested[m] /\ (tick' = tick \/ tick' = tick + 1)
    <3>1. ASSUME NEW n \in Reporters, Ingest(n) PROVE ingested'[m] = ingested[m] /\ tick' = tick
      <4>1. n # m
        BY <1>4, <3>1
      <4> QED BY <3>1, <4>1 DEF Ingest, RateTypeOK
    <3> QED BY <3>1 DEF RateNext, Admit, Refuse, BeginMail, EndMail, NextTick
  <2> QED BY <1>1, <1>2, <2>1 DEF ReporterFit
<1> QED BY <1>3, <1>4

LEMMA RateShapeInit == RateInit => RateShape
<1> SUFFICES ASSUME RateInit PROVE KeysFit /\ ReportersFit
  BY RateTypeInit DEF RateShape
<1>1. ASSUME NEW d \in Dimensions, NEW k \in RateKeys PROVE KeyFit(d, k)
  <2>1. admitted[d][k] = {} /\ counters[d][k] = {}
    BY DEF RateInit
  <2> QED BY <2>1, FS_EmptySet DEF KeyFit
<1>2. ASSUME NEW m \in Reporters PROVE ReporterFit(m)
  <2>1. ingested[m] = {}
    BY DEF RateInit
  <2> QED BY <2>1, FS_EmptySet DEF ReporterFit
<1> QED BY <1>1, <1>2 DEF KeysFit, ReportersFit

LEMMA RateShapeStep == RateShape /\ [RateNext]_rateVars => RateShape'
<1>1. ASSUME RateShape, RateNext PROVE RateShape'
  BY <1>1, RateTypeStep, KeysFitStep, ReportersFitStep DEF RateShape
<1>2. ASSUME RateShape, UNCHANGED rateVars PROVE RateShape'
  BY <1>2 DEF RateShape, RateTypeOK, KeysFit, KeyFit, ReportersFit, ReporterFit, rateVars
<1> QED BY <1>1, <1>2

(* Every reachable state of the limiters is well typed.                      *)
THEOREM RateTypeCorrect == RateSpec => []RateTypeOK
<1>1. RateShape => RateTypeOK
  BY DEF RateShape
<1> QED BY <1>1, RateShapeInit, RateShapeStep, PTL DEF RateSpec

-----------------------------------------------------------------------------
(* The sliding windows.                                                     *)

KeyTrue(c, d) ==
  LET all == admitted[d][c.keys[d]]
  IN /\ InWindow(all, tick, Window(c, d)) \subseteq Timestamps(c, d)
     /\ Cardinality(Timestamps(c, d)) <= 2 * Limit(c, d) + 1
     /\ \A t \in 0 .. tick : CountIn(all, t - Window(c, d) + 1, t) <= Limit(c, d)
SlidingInv == RateShape /\ \A c \in RateCalls : \A d \in Asked(c) : KeyTrue(c, d)

(* Calls that share a key look at the same hits in the same way. *)
LEMMA Alike ==
  ASSUME NEW c \in RateCalls, NEW e \in RateCalls, NEW d \in Asked(c), d \in Asked(e),
         c.keys[d] = e.keys[d]
  PROVE  /\ Windowed(e, d) = Windowed(c, d) /\ Pruned(e, d) = Pruned(c, d)
         /\ Exceeds(e, d) <=> Exceeds(c, d)
<1>1. Limit(c, d) = Limit(e, d) /\ Window(c, d) = Window(e, d)
  BY SharedAssumption
<1> QED BY <1>1 DEF Windowed, Pruned, Exceeds, Timestamps

(* What a call may rely on of its keys. *)
LEMMA KeyFacts ==
  ASSUME SlidingInv, NEW c \in RateCalls, NEW d \in Asked(c)
  PROVE  LET all == admitted[d][c.keys[d]] IN
         /\ tick \in Nat /\ IsFiniteSet(all) /\ Timestamps(c, d) \subseteq all
         /\ IsFiniteSet(Timestamps(c, d)) /\ IsFiniteSet(Windowed(c, d)) /\ IsFiniteSet(Pruned(c, d))
         /\ Cardinality(Timestamps(c, d)) \in Nat /\ Cardinality(Windowed(c, d)) \in Nat
         /\ \A h \in all : h.at \in Nat /\ h.at <= tick
         /\ Windowed(c, d) = InWindow(all, tick, Window(c, d))
<1> USE DEF SlidingInv, RateShape
<1> DEFINE k == c.keys[d]
<1>1. d \in Dimensions /\ k \in RateKeys /\ Window(c, d) \in Nat
  BY CallFacts
<1>2. KeyFit(d, k) /\ KeyTrue(c, d)
  BY <1>1 DEF KeysFit
<1>3. tick \in Nat /\ admitted[d][k] \subseteq Hits
  BY <1>1, RateAssumption DEF RateTypeOK
<1>4. \A h \in admitted[d][k] : h.at \in Nat /\ h.at <= tick
  BY <1>2, <1>3, RateAssumption DEF KeyFit, Hits
<1>5. IsFiniteSet(admitted[d][k]) /\ Timestamps(c, d) \subseteq admitted[d][k]
  BY <1>2 DEF KeyFit, Timestamps
<1>6. IsFiniteSet(Timestamps(c, d))
  BY <1>5, FS_Subset
<1>7. IsFiniteSet(Windowed(c, d)) /\ IsFiniteSet(Pruned(c, d))
  BY <1>6, FS_Subset, WindowedFacts
<1>8. Windowed(c, d) = InWindow(admitted[d][k], tick, Window(c, d))
  BY <1>2, <1>5 DEF KeyTrue, Windowed, InWindow
<1> QED BY <1>3, <1>4, <1>5, <1>6, <1>7, <1>8, FS_CardinalityType

LEMMA OneMore ==
  ASSUME NEW S, IsFiniteSet(S), NEW x
  PROVE  /\ IsFiniteSet(S \cup {x}) /\ Cardinality(S \cup {x}) <= Cardinality(S) + 1
         /\ Cardinality(S) \in Nat /\ Cardinality(S \cup {x}) \in Nat
<1>1. IsFiniteSet(S \cup {x}) /\ Cardinality(S) \in Nat
  BY FS_AddElement, FS_CardinalityType
<1>2. Cardinality(S \cup {x}) \in Nat
  BY <1>1, FS_CardinalityType
<1>3. CASE x \in S
  <2>1. S \cup {x} = S
    BY <1>3
  <2> QED BY <1>1, <2>1
<1>4. CASE x \notin S
  BY <1>1, <1>4, FS_AddElement
<1> QED BY <1>1, <1>2, <1>3, <1>4

LEMMA KeyTrueStep ==
  ASSUME SlidingInv, RateNext, NEW c \in RateCalls, NEW d \in Asked(c)
  PROVE  KeyTrue(c, d)'
<1> DEFINE k == c.keys[d]
           all == admitted[d][k]
           kept == counters[d][k]
           W == Window(c, d)
           L == Limit(c, d)
           In(hits, t) == {h \in hits : t - W + 1 <= h.at /\ h.at <= t}
<1>1. d \in Dimensions /\ k \in RateKeys /\ L \in Nat \ {0} /\ W \in Nat \ {0}
  BY CallFacts
<1>2. /\ tick \in Nat /\ IsFiniteSet(all) /\ kept \subseteq all /\ IsFiniteSet(kept)
      /\ IsFiniteSet(Windowed(c, d)) /\ IsFiniteSet(Pruned(c, d))
      /\ Cardinality(kept) \in Nat /\ Cardinality(Windowed(c, d)) \in Nat
      /\ \A h \in all : h.at \in Nat /\ h.at <= tick
      /\ Windowed(c, d) = {h \in all : h.at > tick - W}
  BY KeyFacts DEF Timestamps, InWindow
<1>3. /\ {h \in all : h.at > tick - W} \subseteq kept
      /\ Cardinality(kept) <= 2 * L + 1
      /\ \A t \in 0 .. tick : Cardinality(In(all, t)) <= L
  BY DEF SlidingInv, KeyTrue, InWindow, Timestamps, CountIn
<1>4. SUFFICES /\ {h \in all' : h.at > tick' - W} \subseteq kept'
               /\ Cardinality(kept') <= 2 * L + 1
               /\ \A t \in 0 .. tick' : Cardinality(In(all', t)) <= L
  BY DEF KeyTrue, InWindow, Timestamps, CountIn
<1> HIDE DEF L, W
<1>5. CASE NextTick /\ admitted' = admitted /\ counters' = counters
  <2>1. tick' = tick + 1 /\ all' = all /\ kept' = kept
    BY <1>5 DEF NextTick
  <2>2. {h \in all' : h.at > tick' - W} \subseteq kept'
    BY <1>1, <1>2, <1>3, <2>1
  <2>3. Cardinality(In(all, tick + 1)) <= L
    <3>1. In(all, tick + 1) \subseteq In(all, tick) /\ In(all, tick) \subseteq all
      BY <1>1, <1>2
    <3>2. IsFiniteSet(In(all, tick))
      BY <1>2, <3>1, FS_Subset
    <3>3. /\ Cardinality(In(all, tick + 1)) <= Cardinality(In(all, tick))
          /\ Cardinality(In(all, tick + 1)) \in Nat /\ Cardinality(In(all, tick)) \in Nat
      BY <3>1, <3>2, FS_Subset, FS_CardinalityType
    <3> QED BY <1>1, <1>2, <1>3, <3>3
  <2>4. \A t \in 0 .. tick + 1 : Cardinality(In(all, t)) <= L
    <3> SUFFICES ASSUME NEW t \in 0 .. tick + 1 PROVE Cardinality(In(all, t)) <= L
      OBVIOUS
    <3>1. t \in 0 .. tick \/ t = tick + 1
      BY <1>2
    <3> QED BY <1>3, <2>3, <3>1
  <2>5. \A t : In(all', t) = In(all, t)
    BY <2>1
  <2>6. \A t \in 0 .. tick' : Cardinality(In(all', t)) <= L
    BY <2>1, <2>4, <2>5
  <2>7. Cardinality(kept') <= 2 * L + 1
    BY <1>3, <2>1
  <2> QED BY <2>2, <2>6, <2>7
<1>6. CASE tick' = tick /\ Admits(d, k)
  <2> DEFINE hit == Hit(all)
  <2>1. /\ all' = all \cup {hit} /\ kept' = Pruned(c, d) \cup {hit} /\ ~Exceeds(c, d)
    BY <1>6, Alike DEF Admits
  <2>2. hit.at = tick
    BY DEF Hit
  <2> HIDE DEF hit
  <2>3. {h \in all' : h.at > tick' - W} \subseteq kept'
    BY <1>2, <1>6, <2>1, WindowedFacts
  <2>4. Cardinality(Windowed(c, d)) < L
    BY <1>1, <1>2, <2>1 DEF Exceeds, L
  <2>5. Cardinality(kept') <= 2 * L + 1
    <3>1. Cardinality(Pruned(c, d)) \in Nat /\ Cardinality(Pruned(c, d)) <= 2 * L
      <4>1. CASE Cardinality(kept) > 2 * L
        BY <1>1, <1>2, <2>4, <4>1 DEF Pruned, PRUNE_FACTOR, Timestamps, L
      <4>2. CASE ~ (Cardinality(kept) > 2 * L)
        BY <1>1, <1>2, <4>2 DEF Pruned, PRUNE_FACTOR, Timestamps, L
      <4> QED BY <4>1, <4>2
    <3>2. Cardinality(Pruned(c, d) \cup {hit}) <= Cardinality(Pruned(c, d)) + 1
      BY <1>2, OneMore
    <3>3. Cardinality(Pruned(c, d) \cup {hit}) \in Nat
      BY <1>2, OneMore
    <3> QED BY <1>1, <2>1, <3>1, <3>2, <3>3
  <2>6. \A t \in 0 .. tick : Cardinality(In(all', t)) <= L
    <3> SUFFICES ASSUME NEW t \in 0 .. tick PROVE Cardinality(In(all', t)) <= L
      OBVIOUS
    <3>1. CASE t < tick
      <4>1. In(all', t) = In(all, t)
        BY <1>1, <1>2, <2>1, <2>2, <3>1
      <4> QED BY <1>3, <4>1
    <3>2. CASE t = tick
      <4>1. In(all', t) \subseteq Windowed(c, d) \cup {hit}
        BY <1>1, <1>2, <2>1, <2>2, <3>2
      <4>2. /\ IsFiniteSet(Windowed(c, d) \cup {hit})
            /\ Cardinality(Windowed(c, d) \cup {hit}) <= Cardinality(Windowed(c, d)) + 1
        BY <1>2, OneMore
      <4>3. /\ Cardinality(In(all', t)) <= Cardinality(Windowed(c, d) \cup {hit})
            /\ Cardinality(In(all', t)) \in Nat /\ Cardinality(Windowed(c, d) \cup {hit}) \in Nat
        BY <4>1, <4>2, FS_Subset, FS_CardinalityType
      <4> QED BY <1>1, <1>2, <2>4, <4>2, <4>3
    <3>3. t < tick \/ t = tick
      BY <1>2
    <3> QED BY <3>1, <3>2, <3>3
  <2> QED BY <1>6, <2>3, <2>5, <2>6
<1>7. CASE tick' = tick /\ Tidies(d, k)
  <2>1. all' = all /\ kept' \subseteq kept
    BY <1>7 DEF Tidies
  <2>2. Windowed(c, d) \subseteq kept'
    <3>1. CASE kept' = kept
      BY <1>2, <1>3, <3>1
    <3>2. ASSUME NEW e \in RateCalls, d \in Asked(e), k = e.keys[d], Windowed(e, d) \subseteq kept'
          PROVE  Windowed(c, d) \subseteq kept'
      BY <3>2, Alike
    <3> QED BY <1>7, <3>1, <3>2 DEF Tidies
  <2>3. Cardinality(kept') <= Cardinality(kept) /\ Cardinality(kept') \in Nat
    BY <1>2, <2>1, FS_Subset, FS_CardinalityType
  <2>4. Cardinality(kept') <= 2 * L + 1
    BY <1>1, <1>2, <1>3, <2>3
  <2> QED BY <1>2, <1>3, <1>7, <2>1, <2>2, <2>4
<1> QED BY <1>1, <1>5, <1>6, <1>7, KeyStep DEF SlidingInv, RateShape

LEMMA SlidingInvInit == RateInit => SlidingInv
<1> SUFFICES ASSUME RateInit, NEW c \in RateCalls, NEW d \in Asked(c) PROVE KeyTrue(c, d)
  BY RateShapeInit DEF SlidingInv
<1>1. d \in Dimensions /\ c.keys[d] \in RateKeys /\ Limit(c, d) \in Nat /\ Window(c, d) \in Nat
  BY CallFacts
<1>2. admitted[d][c.keys[d]] = {} /\ Timestamps(c, d) = {}
  BY <1>1 DEF RateInit, Timestamps
<1>3. Cardinality({}) = 0
  BY FS_EmptySet
<1>4. \A t \in 0 .. tick : CountIn({}, t - Window(c, d) + 1, t) = 0
  <2> SUFFICES ASSUME NEW t \in 0 .. tick
               PROVE  CountIn({}, t - Window(c, d) + 1, t) = 0
    OBVIOUS
  <2>1. {h \in {} : t - Window(c, d) + 1 <= h.at /\ h.at <= t} = {}
    OBVIOUS
  <2> QED BY <1>3, <2>1 DEF CountIn
<1> QED BY <1>1, <1>2, <1>3, <1>4 DEF KeyTrue, InWindow

LEMMA SlidingInvStep == SlidingInv /\ [RateNext]_rateVars => SlidingInv'
<1>1. ASSUME SlidingInv, RateNext PROVE SlidingInv'
  BY <1>1, RateShapeStep, KeyTrueStep DEF SlidingInv
<1>2. ASSUME SlidingInv, UNCHANGED rateVars PROVE SlidingInv'
  <2>1. RateShape'
    BY <1>2, RateShapeStep DEF SlidingInv
  <2> QED BY <1>2, <2>1 DEF SlidingInv, KeyTrue, Timestamps, InWindow, CountIn, rateVars
<1> QED BY <1>1, <1>2

(* What a counter holds of the window is what was admitted in it, and it      *)
(* stays short: a refused call is charged to no dimension.                  *)
THEOREM CountersTrueAlways == RateSpec => []CountersTrue
<1>1. SlidingInv => CountersTrue
  <2> SUFFICES ASSUME SlidingInv, NEW c \in RateCalls, NEW d \in Asked(c)
               PROVE  /\ Windowed(c, d) = InWindow(admitted[d][c.keys[d]], tick, Window(c, d))
                      /\ Cardinality(Timestamps(c, d)) <= PRUNE_FACTOR * Limit(c, d) + 1
    BY DEF CountersTrue
  <2>1. KeyTrue(c, d)
    BY DEF SlidingInv
  <2> QED BY <2>1, KeyFacts DEF KeyTrue, PRUNE_FACTOR
<1> QED BY <1>1, SlidingInvInit, SlidingInvStep, PTL DEF RateSpec

-----------------------------------------------------------------------------
(* Retry-After.                                                             *)

(* A set of numbers has a least one. *)
LEMMA LeastOf ==
  ASSUME NEW D \in SUBSET Nat, D # {} PROVE \E x \in D : \A y \in D : x <= y
<1> DEFINE R == {ss \in Nat \X Nat : ss[1] < ss[2]}
<1>1. IsWellFoundedOn(R, Nat)
  BY NatLessThanWellFounded DEF OpToRel
<1>2. \E x \in D : \A y \in D : <<y, x>> \notin R
  <2> HIDE DEF R
  <2> QED BY <1>1, WFMin
<1>3. PICK x \in D : \A y \in D : ~ (y < x)
  BY <1>2
<1> QED BY <1>3

(* A set of hits has an oldest one. *)
LEMMA OldestHit ==
  ASSUME NEW hits, hits # {}, \A h \in hits : h.at \in Nat
  PROVE  \E h \in hits : h.at = Oldest(hits) /\ \A g \in hits : h.at <= g.at
<1> DEFINE D == {h.at : h \in hits}
<1>1. D \in SUBSET Nat /\ D # {}
  OBVIOUS
<1>2. PICK x \in D : \A y \in D : x <= y
  BY <1>1, LeastOf
<1>3. x \in D /\ \A h \in hits : x <= h.at
  BY <1>2
<1>4. Oldest(hits) \in D /\ \A h \in hits : Oldest(hits) <= h.at
  BY <1>3 DEF Oldest
<1> QED BY <1>4

(* Whoever waits Retry-After has waited for the oldest hit to leave the       *)
(* window.                                                                  *)
LEMMA WaitCovers ==
  ASSUME NEW oldest \in Nat, NEW now \in Nat, NEW window \in Nat, oldest <= now
  PROVE  /\ TicksPerSecond * RetryAfter(oldest, now, window) \in Nat
         /\ TicksPerSecond * RetryAfter(oldest, now, window) >= window - (now - oldest)
<1> DEFINE p == TicksPerSecond
           remaining == IF window > now - oldest THEN window - (now - oldest) ELSE 0
           seconds == (remaining + p - 1) \div p
<1>1. p \in Nat \ {0} /\ remaining \in Nat /\ remaining >= window - (now - oldest)
  BY RateAssumption
<1>2. RetryAfter(oldest, now, window) = IF seconds < 1 THEN 1 ELSE seconds
  BY DEF RetryAfter
<1>3. seconds \in Int /\ p * seconds >= remaining
  <2> HIDE DEF p, remaining
  <2>1. remaining + p - 1 \in Nat
    BY <1>1
  <2>2. /\ seconds \in Int
        /\ remaining + p - 1 = p * seconds + ((remaining + p - 1) % p)
        /\ (remaining + p - 1) % p \in 0 .. p - 1
    BY <1>1, <2>1
  <2>3. p * seconds \in Int
    BY <1>1, <2>2
  <2> QED BY <1>1, <2>1, <2>2, <2>3
<1> HIDE DEF remaining, seconds, p
<1>4. CASE seconds < 1
  <2>1. p * 1 = p /\ p * seconds <= 0
    BY <1>1, <1>3, <1>4
  <2>2. remaining = 0
    BY <1>1, <1>3, <2>1
  <2> QED BY <1>1, <1>2, <1>4, <2>1, <2>2 DEF p
<1>5. CASE ~ (seconds < 1)
  <2>1. p * seconds \in Nat
    BY <1>1, <1>3, <1>5
  <2> QED BY <1>1, <1>2, <1>3, <1>5, <2>1 DEF p
<1> QED BY <1>4, <1>5

(* A caller that waits what it was told finds room in that dimension.         *)
THEOREM RetryAfterHonestAlways == RateSpec => []RetryAfterHonest
<1>1. SlidingInv => RetryAfterHonest
  <2> SUFFICES ASSUME SlidingInv, NEW c \in RateCalls, NEW d \in Asked(c), Exceeds(c, d)
               PROVE  LET wait == TicksPerSecond * RetryAfter(Oldest(Windowed(c, d)), tick, Window(c, d))
                      IN Cardinality(InWindow(Timestamps(c, d), tick + wait, Window(c, d))) < Limit(c, d)
    BY DEF RetryAfterHonest
  <2> DEFINE W == Window(c, d)
             L == Limit(c, d)
             old == Oldest(Windowed(c, d))
             wait == TicksPerSecond * RetryAfter(old, tick, W)
             still == InWindow(Timestamps(c, d), tick + wait, W)
  <2>1. W \in Nat \ {0} /\ L \in Nat \ {0}
    BY CallFacts
  <2>2. /\ tick \in Nat /\ IsFiniteSet(Windowed(c, d)) /\ Cardinality(Windowed(c, d)) \in Nat
        /\ Timestamps(c, d) \subseteq admitted[d][c.keys[d]]
        /\ IsFiniteSet(admitted[d][c.keys[d]])
        /\ \A h \in admitted[d][c.keys[d]] : h.at \in Nat /\ h.at <= tick
        /\ Windowed(c, d) = InWindow(admitted[d][c.keys[d]], tick, W)
    BY KeyFacts
  <2>3. Cardinality(Windowed(c, d)) <= L
    <3>1. tick \in 0 .. tick
      BY <2>2
    <3>2. CountIn(admitted[d][c.keys[d]], tick - W + 1, tick) <= L
      BY <3>1 DEF SlidingInv, KeyTrue
    <3>3. Windowed(c, d) = {h \in admitted[d][c.keys[d]] : tick - W + 1 <= h.at /\ h.at <= tick}
      BY <2>1, <2>2 DEF InWindow
    <3> QED BY <3>2, <3>3 DEF CountIn
  <2>4. Windowed(c, d) # {}
    BY <2>1, FS_EmptySet DEF Exceeds
  <2>5. PICK first \in Windowed(c, d) : first.at = old /\ \A g \in Windowed(c, d) : first.at <= g.at
    BY <2>2, <2>4, OldestHit, WindowedFacts
  <2>6. old \in Nat /\ old <= tick
    BY <2>2, <2>5, WindowedFacts
  <2>7. wait \in Nat /\ wait >= W - (tick - old)
    BY <2>1, <2>2, <2>6, WaitCovers
  <2>8. \A g \in still : g \in Timestamps(c, d) /\ g.at > (tick + wait) - W
    BY DEF InWindow
  <2> HIDE DEF W, L, old, wait, still
  <2>9. ASSUME NEW g \in still PROVE g \in Windowed(c, d) \ {first}
    <3>0. g \in Timestamps(c, d) /\ g.at > (tick + wait) - W
      BY <2>8, <2>9
    <3>1. g.at \in Nat /\ g \in admitted[d][c.keys[d]]
      BY <2>2, <3>0
    <3>2. g.at > tick - W /\ g.at > old
      BY <2>1, <2>2, <2>6, <2>7, <3>0, <3>1
    <3> QED BY <2>2, <2>5, <3>1, <3>2 DEF InWindow
  <2>10. /\ Cardinality(Windowed(c, d) \ {first}) = Cardinality(Windowed(c, d)) - 1
        /\ IsFiniteSet(Windowed(c, d) \ {first})
    BY <2>2, <2>5, FS_RemoveElement
  <2>11. /\ Cardinality(still) <= Cardinality(Windowed(c, d) \ {first})
         /\ Cardinality(still) \in Nat
    BY <2>9, <2>10, FS_Subset, FS_CardinalityType
  <2>12. Cardinality(still) < L
    BY <2>1, <2>2, <2>3, <2>10, <2>11
  <2> QED BY <2>12 DEF W, L, old, wait, still
<1> QED BY <1>1, SlidingInvInit, SlidingInvStep, PTL DEF RateSpec

-----------------------------------------------------------------------------
(* The fixed window.                                                        *)

HitsSince(hits, from) == {h \in hits : from <= h.at}
HitsBetween(hits, from, to) == {h \in hits : from <= h.at /\ h.at < to}
Opened(m) == rateLimitBuckets[m].resetAt - IngestWindow
Latest(m) == HitsSince(ingested[m], Opened(m))
Earlier(m) == HitsBetween(ingested[m], Opened(m) - IngestWindow + 1, Opened(m))

(* The hits since the bucket opened are its count; those of a window before  *)
(* it opened are of one bucket too.                                         *)
BucketNow(m) ==
  /\ Opened(m) <= tick /\ \A h \in ingested[m] : h.at <= rateLimitBuckets[m].resetAt
  /\ Cardinality(Latest(m)) <= rateLimitBuckets[m].count /\ Cardinality(Earlier(m)) <= IngestLimit
BucketsNow == \A m \in Reporters : BucketNow(m)
BucketInv == RateShape /\ BucketsNow /\ FixedWindowTwice

LEMMA Small ==
  ASSUME NEW S, NEW T, IsFiniteSet(T), S \subseteq T
  PROVE  /\ IsFiniteSet(S) /\ Cardinality(S) <= Cardinality(T)
         /\ Cardinality(S) \in Nat /\ Cardinality(T) \in Nat
BY FS_Subset, FS_CardinalityType

LEMMA Halves ==
  ASSUME NEW hits, IsFiniteSet(hits), \A h \in hits : h.at \in Nat,
         NEW opened \in Int, NEW count \in 0 .. IngestLimit,
         Cardinality(HitsSince(hits, opened)) <= count,
         Cardinality(HitsBetween(hits, opened - IngestWindow + 1, opened)) <= IngestLimit,
         NEW t \in Int, opened <= t
  PROVE  CountIn(hits, t - IngestWindow + 1, t) <= 2 * IngestLimit
<1> DEFINE A == HitsSince(hits, opened)
           B == HitsBetween(hits, opened - IngestWindow + 1, opened)
           C == {h \in hits : t - IngestWindow + 1 <= h.at /\ h.at <= t}
<1>1. A \subseteq hits /\ B \subseteq hits
  BY DEF HitsSince, HitsBetween
<1>2. C \subseteq A \cup B
  BY RateAssumption DEF HitsSince, HitsBetween
<1>3. Cardinality(A) \in Nat /\ Cardinality(B) \in Nat /\ IsFiniteSet(A) /\ IsFiniteSet(B)
  BY <1>1, Small
<1>4. Cardinality(A) <= IngestLimit /\ Cardinality(B) <= IngestLimit /\ IngestLimit \in Nat
  BY <1>3, RateAssumption
<1> HIDE DEF A, B, C
<1>5. /\ Cardinality(A \cup B) = Cardinality(A) + Cardinality(B) - Cardinality(A \cap B)
      /\ IsFiniteSet(A \cup B)
  BY <1>3, FS_Union
<1>6. Cardinality(A \cap B) \in Nat
  BY <1>3, Small
<1>7. Cardinality(C) <= Cardinality(A \cup B) /\ Cardinality(C) \in Nat
  BY <1>2, <1>5, Small
<1>8. Cardinality(C) <= 2 * IngestLimit
  BY <1>3, <1>4, <1>5, <1>6, <1>7
<1> QED BY <1>8 DEF C, CountIn

LEMMA ReporterFacts ==
  ASSUME RateShape, NEW m \in Reporters
  PROVE  /\ tick \in Nat /\ IsFiniteSet(ingested[m])
         /\ \A h \in ingested[m] : h.at \in Nat /\ h.at <= tick
         /\ rateLimitBuckets[m].resetAt \in Int /\ rateLimitBuckets[m].count \in 0 .. IngestLimit
         /\ IngestLimit \in Nat \ {0} /\ IngestWindow \in Nat \ {0} /\ Opened(m) \in Int
BY RateAssumption DEF RateShape, RateTypeOK, ReportersFit, ReporterFit, Hits, Opened

(* A step that is not a push of m. *)
LEMMA NoPush ==
  ASSUME RateShape, RateNext, NEW m \in Reporters, ~Ingest(m)
  PROVE  /\ ingested'[m] = ingested[m] /\ rateLimitBuckets'[m] = rateLimitBuckets[m]
         /\ tick' \in {tick, tick + 1}
<1>1. ASSUME NEW n \in Reporters, Ingest(n)
      PROVE  /\ ingested'[m] = ingested[m] /\ rateLimitBuckets'[m] = rateLimitBuckets[m]
             /\ tick' = tick
  <2>1. n # m
    BY <1>1
  <2> QED BY <1>1, <2>1 DEF Ingest, RateShape, RateTypeOK
<1> QED BY <1>1 DEF RateNext, Admit, Refuse, BeginMail, EndMail, NextTick

LEMMA BucketNowStep ==
  ASSUME RateShape, RateNext, NEW m \in Reporters, BucketNow(m)
  PROVE  BucketNow(m)'
<1> DEFINE all == ingested[m]
           bucket == rateLimitBuckets[m]
           opened == Opened(m)
           hit == Hit(all)
<1>1. /\ tick \in Nat /\ IsFiniteSet(all) /\ \A h \in all : h.at \in Nat /\ h.at <= tick
      /\ bucket.resetAt \in Int /\ bucket.count \in 0 .. IngestLimit
      /\ IngestLimit \in Nat \ {0} /\ IngestWindow \in Nat \ {0} /\ opened \in Int
  BY ReporterFacts
<1>2. /\ opened <= tick /\ \A h \in all : h.at <= bucket.resetAt
      /\ Cardinality(HitsSince(all, opened)) <= bucket.count
      /\ Cardinality(HitsBetween(all, opened - IngestWindow + 1, opened)) <= IngestLimit
  BY DEF BucketNow, Latest, Earlier
<1>3. CASE ~Ingest(m)
  <2>1. all' = all /\ bucket' = bucket /\ opened' = opened /\ tick' \in {tick, tick + 1}
    BY <1>3, NoPush DEF Opened
  <2>2. opened <= tick'
    BY <1>1, <1>2, <2>1
  <2>3. Latest(m)' = Latest(m)
    BY <2>1 DEF Latest, HitsSince
  <2>4. Earlier(m)' = Earlier(m)
    BY <2>1 DEF Earlier, HitsBetween
  <2> QED BY <2>1, <2>2, <2>3, <2>4 DEF BucketNow
<1>4. CASE Ingest(m) /\ FreshBucket(m)
  <2>1. /\ all' = all \cup {hit} /\ hit.at = tick /\ tick' = tick
        /\ bucket' = [count |-> 1, resetAt |-> tick + IngestWindow] /\ bucket.resetAt < tick
    BY <1>4 DEF Ingest, FreshBucket, Hit, RateShape, RateTypeOK
  <2>2. opened = bucket.resetAt - IngestWindow
    BY DEF Opened
  <2>3. opened' = bucket'.resetAt - IngestWindow
    BY DEF Opened
  <2>4. bucket'.count = 1 /\ bucket'.resetAt = tick + IngestWindow /\ opened' = tick
    BY <1>1, <2>1, <2>3
  <2> HIDE DEF hit, all, bucket, opened
  <2>5. \A h \in all' : h.at <= bucket'.resetAt
    BY <1>1, <2>1, <2>4
  <2>6. HitsSince(all', tick) = {hit}
    BY <1>1, <1>2, <2>1 DEF HitsSince
  <2>7. HitsBetween(all', tick - IngestWindow + 1, tick) \subseteq HitsSince(all, opened)
    BY <1>1, <1>2, <2>1, <2>2 DEF HitsBetween, HitsSince
  <2>8. HitsSince(all, opened) \subseteq all
    BY DEF HitsSince
  <2>9. Cardinality(HitsBetween(all', tick - IngestWindow + 1, tick)) <= IngestLimit
    <3>1. IsFiniteSet(HitsSince(all, opened))
      BY <1>1, <2>8, Small
    <3> QED BY <1>1, <1>2, <2>7, <3>1, Small
  <2>10. Cardinality({hit}) = 1
    BY FS_Singleton
  <2>11. /\ Opened(m)' = tick /\ ingested'[m] = all' /\ rateLimitBuckets'[m] = bucket'
    BY <2>4 DEF all, bucket, opened
  <2>12. Latest(m)' = {hit} /\ Earlier(m)' = HitsBetween(all', tick - IngestWindow + 1, tick)
    BY <2>6, <2>11 DEF Latest, Earlier
  <2>13. Cardinality(Latest(m)') = 1 /\ Cardinality(Earlier(m)') <= IngestLimit
    BY <2>9, <2>10, <2>12
  <2> QED BY <1>1, <2>1, <2>4, <2>5, <2>11, <2>13 DEF BucketNow
<1>5. CASE Ingest(m) /\ ~FreshBucket(m)
  <2>1. /\ all' = all \cup {hit} /\ hit.at = tick /\ tick' = tick
        /\ bucket' = [count |-> bucket.count + 1, resetAt |-> bucket.resetAt]
        /\ ~ (bucket.resetAt < tick)
    BY <1>5 DEF Ingest, FreshBucket, Hit, RateShape, RateTypeOK
  <2>2. bucket'.count = bucket.count + 1 /\ bucket'.resetAt = bucket.resetAt /\ opened' = opened
    BY <2>1 DEF Opened
  <2> HIDE DEF hit, all, bucket, opened
  <2>3. \A h \in all' : h.at <= bucket'.resetAt
    BY <1>1, <1>2, <2>1, <2>2
  <2>4. HitsSince(all', opened) \subseteq HitsSince(all, opened) \cup {hit}
    BY <1>1, <2>1 DEF HitsSince
  <2>5. HitsSince(all, opened) \subseteq all
    BY DEF HitsSince
  <2>6. Cardinality(HitsSince(all', opened)) <= bucket.count + 1
    <3>1. IsFiniteSet(HitsSince(all, opened))
      BY <1>1, <2>5, Small
    <3>2. /\ IsFiniteSet(HitsSince(all, opened) \cup {hit})
          /\ Cardinality(HitsSince(all, opened) \cup {hit}) <= Cardinality(HitsSince(all, opened)) + 1
          /\ Cardinality(HitsSince(all, opened)) \in Nat
      BY <3>1, OneMore
    <3>3. /\ Cardinality(HitsSince(all', opened)) <= Cardinality(HitsSince(all, opened) \cup {hit})
          /\ Cardinality(HitsSince(all', opened)) \in Nat
          /\ Cardinality(HitsSince(all, opened) \cup {hit}) \in Nat
      BY <2>4, <3>2, Small
    <3> QED BY <1>1, <1>2, <3>2, <3>3
  <2>7. HitsBetween(all', opened - IngestWindow + 1, opened) = HitsBetween(all, opened - IngestWindow + 1, opened)
    BY <1>1, <1>2, <2>1 DEF HitsBetween
  <2> QED BY <1>1, <1>2, <2>1, <2>2, <2>3, <2>6, <2>7 DEF BucketNow, Latest, Earlier, all, bucket, opened
<1> QED BY <1>3, <1>4, <1>5

LEMMA FixedWindowStep ==
  ASSUME BucketInv, RateNext, RateShape', BucketsNow'
  PROVE  FixedWindowTwice'
<1> SUFFICES ASSUME NEW m \in Reporters, NEW t \in 0 .. tick'
             PROVE  CountIn(ingested'[m], t - IngestWindow + 1, t) <= 2 * IngestLimit
  BY DEF FixedWindowTwice
<1>1. /\ tick \in Nat /\ \A h \in ingested[m] : h.at \in Nat /\ h.at <= tick
      /\ IngestWindow \in Nat
  BY ReporterFacts DEF BucketInv
<1>2. /\ tick' \in Nat /\ IsFiniteSet(ingested'[m])
      /\ \A h \in ingested'[m] : h.at \in Nat
      /\ rateLimitBuckets'[m].count \in 0 .. IngestLimit /\ Opened(m)' \in Int
  <2>1. /\ tick' \in 0 .. MaxTick /\ ingested'[m] \subseteq Hits' /\ IsFiniteSet(ingested'[m])
        /\ rateLimitBuckets'[m] \in [count : 0 .. IngestLimit, resetAt : Int]
    BY DEF RateShape, RateTypeOK, ReportersFit, ReporterFit
  <2> QED BY <2>1, RateAssumption DEF Hits, Opened
<1>3. CASE t = tick'
  <2>1. /\ Opened(m)' <= tick'
        /\ Cardinality(HitsSince(ingested'[m], Opened(m)')) <= rateLimitBuckets'[m].count
        /\ Cardinality(HitsBetween(ingested'[m], Opened(m)' - IngestWindow + 1, Opened(m)')) <= IngestLimit
    BY DEF BucketsNow, BucketNow, Latest, Earlier
  <2> QED BY <1>2, <1>3, <2>1, Halves
<1>4. CASE t # tick'
  <2>1. t \in 0 .. tick /\ {h \in ingested'[m] : t - IngestWindow + 1 <= h.at /\ h.at <= t}
                           = {h \in ingested[m] : t - IngestWindow + 1 <= h.at /\ h.at <= t}
    <3>1. CASE Ingest(m)
      <4>1. ingested'[m] = ingested[m] \cup {Hit(ingested[m])} /\ tick' = tick
        BY <3>1 DEF Ingest, BucketInv, RateShape, RateTypeOK
      <4>2. Hit(ingested[m]).at = tick
        BY DEF Hit
      <4> QED BY <1>1, <1>4, <4>1, <4>2
    <3>2. CASE ~Ingest(m)
      <4>1. ingested'[m] = ingested[m] /\ tick' \in {tick, tick + 1}
        BY <3>2, NoPush DEF BucketInv
      <4>2. t \in 0 .. tick
        BY <1>1, <1>4, <4>1
      <4> QED BY <4>1, <4>2
    <3> QED BY <3>1, <3>2
  <2> QED BY <2>1 DEF BucketInv, FixedWindowTwice, CountIn
<1> QED BY <1>3, <1>4

LEMMA BucketInvInit == RateInit => BucketInv
<1> SUFFICES ASSUME RateInit PROVE BucketInv
  OBVIOUS
<1>1. RateShape
  BY RateShapeInit
<1>2. ASSUME NEW m \in Reporters PROVE BucketNow(m) /\ ingested[m] = {}
  <2>1. ingested[m] = {} /\ tick = 0 /\ rateLimitBuckets[m] = [count |-> 0, resetAt |-> -1]
    BY DEF RateInit
  <2>2. Opened(m) = -1 - IngestWindow
    BY <2>1 DEF Opened
  <2>3. \A n : HitsSince({}, n) = {}
    BY DEF HitsSince
  <2>4. \A n, k : HitsBetween({}, n, k) = {}
    BY DEF HitsBetween
  <2>5. Cardinality({}) = 0
    BY FS_EmptySet
  <2>6. IngestWindow \in Nat /\ IngestLimit \in Nat /\ Opened(m) <= 0
    BY <2>2, RateAssumption
  <2>7. Latest(m) = {} /\ Earlier(m) = {}
    BY <2>1, <2>3, <2>4 DEF Latest, Earlier
  <2>8. rateLimitBuckets[m].count = 0
    BY <2>1
  <2> QED BY <2>1, <2>5, <2>6, <2>7, <2>8 DEF BucketNow
<1>3. FixedWindowTwice
  <2> SUFFICES ASSUME NEW m \in Reporters, NEW t \in 0 .. tick
               PROVE  CountIn(ingested[m], t - IngestWindow + 1, t) <= 2 * IngestLimit
    BY DEF FixedWindowTwice
  <2>1. CountIn({}, t - IngestWindow + 1, t) = Cardinality({})
    <3>1. {h \in {} : t - IngestWindow + 1 <= h.at /\ h.at <= t} = {}
      OBVIOUS
    <3> QED BY <3>1 DEF CountIn
  <2>2. CountIn(ingested[m], t - IngestWindow + 1, t) = 0
    BY <1>2, <2>1, FS_EmptySet
  <2>3. 0 <= 2 * IngestLimit
    BY RateAssumption
  <2> QED BY <2>2, <2>3
<1> QED BY <1>1, <1>2, <1>3 DEF BucketInv, BucketsNow

LEMMA BucketInvStep == BucketInv /\ [RateNext]_rateVars => BucketInv'
<1>1. ASSUME BucketInv, RateNext PROVE BucketInv'
  <2>1. RateShape'
    BY <1>1, RateShapeStep DEF BucketInv
  <2>2. BucketsNow'
    BY <1>1, BucketNowStep DEF BucketInv, BucketsNow
  <2> QED BY <1>1, <2>1, <2>2, FixedWindowStep DEF BucketInv
<1>2. ASSUME BucketInv, UNCHANGED rateVars PROVE BucketInv'
  <2>1. RateShape'
    BY <1>2, RateShapeStep DEF BucketInv
  <2> QED BY <1>2, <2>1 DEF BucketInv, BucketsNow, BucketNow, Latest, Earlier, Opened,
                        FixedWindowTwice, rateVars
<1> QED BY <1>1, <1>2

-----------------------------------------------------------------------------
(* The mails.                                                               *)

Recent(t) == {y \in mailed : mailing[y].now >= t - MailWindow}
SentAround(t) == {y \in mailed : t - MailWindow <= mailing[y].now /\ mailing[y].now <= t}

MailsInTime == \A x \in Mails : mailing[x].now <= tick /\ (x \in mailed => mailing[x].pc = "done")
(* What is stored, and what a mail under way read, is of mails that were sent *)
(* and holds all of those a window still counts.                            *)
HistoryKept ==
  /\ Recent(tick) \subseteq rateLimitState /\ rateLimitState \subseteq mailed
  /\ \A x \in Mails : UnderWay(x) =>
       /\ Recent(mailing[x].now) \subseteq mailing[x].history
       /\ mailing[x].history \subseteq mailed /\ Cardinality(mailing[x].history) < MailLimit
       /\ \A y \in Mails : UnderWay(y) => y = x
MailInv == RateTypeOK /\ MailsInTime /\ (~overlapped => HistoryKept) /\ MailsLimited

LEMMA MailFacts ==
  ASSUME RateTypeOK
  PROVE  /\ tick \in Nat /\ MailWindow \in Nat \ {0} /\ MailLimit \in Nat \ {0}
         /\ mailed \subseteq Mails /\ rateLimitState \subseteq Mails /\ IsFiniteSet(Mails)
         /\ \A x \in Mails : mailing[x].now \in Nat /\ mailing[x].history \subseteq Mails
BY RateAssumption DEF RateTypeOK

(* The mails that were sent keep the time at which they began. *)
LEMMA SentStay ==
  ASSUME RateTypeOK, MailsInTime, RateNext
  PROVE  /\ mailed \subseteq mailed'
         /\ \A y \in mailed : mailing'[y].now = mailing[y].now
         /\ tick' \in {tick, tick + 1}
<1>1. ASSUME NEW x \in Mails, BeginMail(x)
      PROVE  /\ mailed' = mailed /\ tick' = tick
             /\ \A y \in mailed : mailing'[y].now = mailing[y].now
  <2>1. x \notin mailed
    BY <1>1 DEF BeginMail, MailsInTime
  <2>2. \A y \in mailed : y \in Mails /\ y # x
    BY <2>1 DEF RateTypeOK
  <2>3. \A y \in mailed : mailing'[y] = mailing[y]
    <3> HIDE DEF History
    <3> QED BY <1>1, <2>2 DEF BeginMail, RateTypeOK
  <2> QED BY <1>1, <2>3 DEF BeginMail
<1>2. ASSUME NEW x \in Mails, NEW sent \in BOOLEAN, EndMail(x, sent)
      PROVE  /\ mailed \subseteq mailed' /\ tick' = tick
             /\ \A y \in mailed : mailing'[y].now = mailing[y].now
  BY <1>2 DEF EndMail, RateTypeOK
<1> QED BY <1>1, <1>2 DEF RateNext, Admit, Refuse, Ingest, NextTick

LEMMA MailsInTimeStep ==
  ASSUME RateTypeOK, MailsInTime, RateNext
  PROVE  MailsInTime'
<1>1. tick \in Nat /\ \A x \in Mails : mailing[x].now \in Nat
  BY MailFacts
<1>2. ASSUME NEW x \in Mails, BeginMail(x) PROVE MailsInTime'
  <2>1. x \notin mailed /\ mailed' = mailed /\ tick' = tick
    BY <1>2 DEF BeginMail, MailsInTime
  <2>2. mailing'[x].now <= tick /\ \A y \in Mails \ {x} : mailing'[y] = mailing[y]
    <3>1. \/ mailing' = [mailing EXCEPT ![x] = [pc |-> "sending", history |-> History, now |-> tick]]
          \/ mailing' = [mailing EXCEPT ![x].pc = "done"]
      BY <1>2 DEF BeginMail
    <3> HIDE DEF History
    <3> QED BY <1>1, <3>1 DEF RateTypeOK, MailsInTime
  <2> QED BY <2>1, <2>2 DEF MailsInTime
<1>3. ASSUME NEW x \in Mails, NEW sent \in BOOLEAN, EndMail(x, sent) PROVE MailsInTime'
  <2>1. /\ mailed' \subseteq mailed \cup {x} /\ tick' = tick
        /\ \A y \in Mails : mailing'[y].now = mailing[y].now
        /\ mailing'[x].pc = "done" /\ \A y \in Mails \ {x} : mailing'[y].pc = mailing[y].pc
    BY <1>3 DEF EndMail, RateTypeOK
  <2> QED BY <2>1 DEF MailsInTime
<1>4. CASE NextTick
  BY <1>1, <1>4 DEF NextTick, MailsInTime
<1> QED BY <1>2, <1>3, <1>4 DEF RateNext, Admit, Refuse, Ingest, MailsInTime

LEMMA HistoryKeptStep ==
  ASSUME RateTypeOK, MailsInTime, RateNext, ~overlapped', ~overlapped => HistoryKept
  PROVE  HistoryKept'
<1>0. ~overlapped
  BY DEF RateNext, Admit, Refuse, Ingest, BeginMail, EndMail, NextTick
<1>1. HistoryKept
  BY <1>0
<1>2. /\ tick \in Nat /\ MailWindow \in Nat
      /\ mailed \subseteq Mails /\ rateLimitState \subseteq Mails
      /\ \A x \in Mails : mailing[x].now \in Nat
  BY MailFacts
<1>3. ASSUME NEW x \in Mails, BeginMail(x) PROVE HistoryKept'
  <2>1. /\ x \notin mailed /\ mailed' = mailed /\ tick' = tick
    BY <1>3 DEF BeginMail, MailsInTime
  <2>2. Recent(tick) \subseteq History /\ History \subseteq rateLimitState
    BY <1>1 DEF HistoryKept, Recent, History
  <2>3. \A y \in Mails \ {x} : mailing'[y] = mailing[y]
    <3> HIDE DEF History
    <3> QED BY <1>3 DEF BeginMail, RateTypeOK
  <2>4. \A t : Recent(t)' = Recent(t)
    BY <1>2, <2>1, <2>3 DEF Recent
  <2>5. Recent(tick') \subseteq rateLimitState' /\ rateLimitState' \subseteq mailed
    <3>1. rateLimitState' = rateLimitState \/ rateLimitState' = History
      BY <1>3 DEF BeginMail
    <3> QED BY <1>1, <2>1, <2>2, <3>1 DEF HistoryKept
  <2>6. CASE mailing' = [mailing EXCEPT ![x] = [pc |-> "sending", history |-> History, now |-> tick]]
             /\ Cardinality(History) < MailLimit /\ ~ \E y \in Mails : UnderWay(y)
    <3> HIDE DEF History
    <3>1. mailing'[x] = [pc |-> "sending", history |-> History, now |-> tick]
      BY <2>6 DEF RateTypeOK
    <3>2. \A y \in Mails : UnderWay(y)' => y = x
      BY <2>3, <2>6 DEF UnderWay
    <3>3. History \subseteq mailed
      BY <1>1, <2>2 DEF HistoryKept
    <3>4. \A y \in Mails : UnderWay(y)' =>
            /\ Recent(mailing'[y].now) \subseteq mailing'[y].history
            /\ mailing'[y].history \subseteq mailed /\ Cardinality(mailing'[y].history) < MailLimit
            /\ \A z \in Mails : UnderWay(z)' => z = y
      BY <2>2, <2>6, <3>1, <3>2, <3>3
    <3> QED BY <2>1, <2>4, <2>5, <3>4 DEF HistoryKept
  <2>7. CASE mailing' = [mailing EXCEPT ![x].pc = "done"]
    <3>1. ~UnderWay(x)' /\ \A y \in Mails \ {x} : UnderWay(y)' <=> UnderWay(y)
      BY <2>3, <2>7 DEF UnderWay, RateTypeOK
    <3>2. \A y \in Mails : UnderWay(y)' =>
            /\ UnderWay(y) /\ mailing'[y] = mailing[y]
            /\ \A z \in Mails : UnderWay(z)' => z = y
      BY <1>1, <2>3, <3>1 DEF HistoryKept
    <3>3. \A y \in Mails : UnderWay(y)' =>
            /\ Recent(mailing'[y].now) \subseteq mailing'[y].history
            /\ mailing'[y].history \subseteq mailed /\ Cardinality(mailing'[y].history) < MailLimit
      BY <1>1, <3>2 DEF HistoryKept
    <3> QED BY <2>1, <2>4, <2>5, <3>2, <3>3 DEF HistoryKept
  <2>8. overlapped' = (overlapped \/ \E y \in Mails : UnderWay(y)) => ~ \E y \in Mails : UnderWay(y)
    OBVIOUS
  <2> QED BY <1>3, <2>6, <2>7, <2>8 DEF BeginMail
<1>4. ASSUME NEW x \in Mails, NEW sent \in BOOLEAN, EndMail(x, sent) PROVE HistoryKept'
  <2> DEFINE new == IF sent THEN {x} ELSE {}
  <2>1. /\ UnderWay(x) /\ tick' = tick /\ mailed' = mailed \cup new
        /\ rateLimitState' = mailing[x].history \cup new
        /\ \A y \in Mails : mailing'[y].now = mailing[y].now
        /\ mailing'[x].pc = "done" /\ \A y \in Mails \ {x} : mailing'[y] = mailing[y]
    BY <1>4 DEF EndMail, RateTypeOK
  <2>2. /\ Recent(mailing[x].now) \subseteq mailing[x].history
        /\ mailing[x].history \subseteq mailed
        /\ \A y \in Mails : UnderWay(y) => y = x
    BY <1>1, <2>1 DEF HistoryKept
  <2>3. \A y \in Mails : ~UnderWay(y)'
    BY <2>1, <2>2 DEF UnderWay
  <2>4. Recent(tick) \subseteq Recent(mailing[x].now)
    BY <1>2 DEF Recent, MailsInTime
  <2>5. Recent(tick)' \subseteq Recent(tick) \cup new
    BY <1>2, <2>1 DEF Recent
  <2> HIDE DEF new
  <2> QED BY <2>1, <2>2, <2>3, <2>4, <2>5 DEF HistoryKept
<1>5. CASE mailing' = mailing /\ mailed' = mailed /\ rateLimitState' = rateLimitState
           /\ tick' \in {tick, tick + 1}
  <2>1. \A t : Recent(t)' = Recent(t)
    BY <1>5 DEF Recent
  <2>2. Recent(tick') \subseteq Recent(tick)
    BY <1>2, <1>5 DEF Recent
  <2>3. Recent(tick') \subseteq rateLimitState' /\ rateLimitState' \subseteq mailed'
    BY <1>1, <1>5, <2>2 DEF HistoryKept
  <2>4. \A y : UnderWay(y)' <=> UnderWay(y)
    BY <1>5 DEF UnderWay
  <2>5. \A y \in Mails : UnderWay(y)' =>
          /\ Recent(mailing'[y].now) \subseteq mailing'[y].history
          /\ mailing'[y].history \subseteq mailed' /\ Cardinality(mailing'[y].history) < MailLimit
          /\ \A z \in Mails : UnderWay(z)' => z = y
    BY <1>1, <1>5, <2>4 DEF HistoryKept
  <2> QED BY <2>1, <2>3, <2>5 DEF HistoryKept
<1>6. \/ \E x \in Mails : BeginMail(x) \/ EndMail(x, TRUE) \/ EndMail(x, FALSE)
      \/ /\ mailing' = mailing /\ mailed' = mailed /\ rateLimitState' = rateLimitState
         /\ tick' \in {tick, tick + 1}
  BY DEF RateNext, Admit, Refuse, Ingest, NextTick
<1> QED BY <1>3, <1>4, <1>5, <1>6

(* Mails sent around one moment fit in the limit. *)
LEMMA MailsLimitedStep ==
  ASSUME MailInv, RateNext
  PROVE  MailsLimited'
<1> SUFFICES ASSUME ~overlapped', NEW t \in 0 .. tick'
             PROVE  Cardinality(SentAround(t)') <= MailLimit
  BY DEF MailsLimited, SentAround
<1>0. ~overlapped
  BY DEF RateNext, Admit, Refuse, Ingest, BeginMail, EndMail, NextTick
<1>1. RateTypeOK /\ MailsInTime /\ HistoryKept /\ \A s \in 0 .. tick : Cardinality(SentAround(s)) <= MailLimit
  BY <1>0 DEF MailInv, MailsLimited, SentAround
<1>2. /\ tick \in Nat /\ MailWindow \in Nat \ {0} /\ MailLimit \in Nat \ {0}
      /\ mailed \subseteq Mails /\ IsFiniteSet(Mails) /\ \A x \in Mails : mailing[x].now \in Nat
      /\ \A x \in Mails : mailing[x].history \subseteq Mails
  BY <1>1, MailFacts
<1>3. /\ mailed \subseteq mailed' /\ \A y \in mailed : mailing'[y].now = mailing[y].now
      /\ tick' \in {tick, tick + 1}
  BY <1>1, SentStay
<1>4. CASE mailed' = mailed
  <2>1. SentAround(t)' = SentAround(t)
    BY <1>3, <1>4 DEF SentAround
  <2>2. CASE t \in 0 .. tick
    BY <1>1, <2>1, <2>2
  <2>3. CASE t = tick + 1
    <3>1. SentAround(t) \subseteq SentAround(tick) /\ SentAround(tick) \subseteq Mails
      BY <1>1, <1>2, <2>3 DEF SentAround, MailsInTime
    <3>2. IsFiniteSet(SentAround(tick))
      BY <1>2, <3>1, Small
    <3>3. /\ Cardinality(SentAround(t)) <= Cardinality(SentAround(tick))
          /\ Cardinality(SentAround(t)) \in Nat /\ Cardinality(SentAround(tick)) \in Nat
      BY <3>1, <3>2, Small
    <3>4. Cardinality(SentAround(tick)) <= MailLimit
      BY <1>1, <1>2
    <3> QED BY <1>2, <2>1, <3>3, <3>4
  <2> QED BY <1>2, <1>3, <2>2, <2>3
<1>5. ASSUME NEW x \in Mails, EndMail(x, TRUE)
      PROVE  Cardinality(SentAround(t)') <= MailLimit
  <2>1. /\ UnderWay(x) /\ mailed' = mailed \cup {x} /\ tick' = tick
        /\ mailing'[x].now = mailing[x].now
    BY <1>1, <1>5 DEF EndMail, RateTypeOK
  <2>2. CASE x \in SentAround(t)'
    <3>1. mailing[x].now <= t
      BY <2>1, <2>2 DEF SentAround
    <3>2. SentAround(t)' \subseteq Recent(mailing[x].now) \cup {x}
      BY <1>2, <1>3, <2>1, <3>1 DEF SentAround, Recent
    <3>3. /\ Recent(mailing[x].now) \subseteq mailing[x].history
          /\ Cardinality(mailing[x].history) < MailLimit
      BY <1>1, <2>1 DEF HistoryKept
    <3>4. IsFiniteSet(mailing[x].history)
      BY <1>2, Small
    <3>5. /\ IsFiniteSet(mailing[x].history \cup {x})
          /\ Cardinality(mailing[x].history \cup {x}) <= Cardinality(mailing[x].history) + 1
          /\ Cardinality(mailing[x].history) \in Nat
      BY <3>4, OneMore
    <3>6. SentAround(t)' \subseteq mailing[x].history \cup {x}
      BY <3>2, <3>3
    <3>7. /\ Cardinality(SentAround(t)') <= Cardinality(mailing[x].history \cup {x})
          /\ Cardinality(SentAround(t)') \in Nat /\ Cardinality(mailing[x].history \cup {x}) \in Nat
      BY <3>5, <3>6, Small
    <3> QED BY <1>2, <3>3, <3>5, <3>7
  <2>3. CASE x \notin SentAround(t)'
    <3>1. SentAround(t)' = SentAround(t)
      <4>1. SentAround(t)' \subseteq SentAround(t)
        BY <1>3, <2>1, <2>3 DEF SentAround
      <4>2. SentAround(t) \subseteq SentAround(t)'
        BY <1>3 DEF SentAround
      <4> QED BY <4>1, <4>2
    <3> QED BY <1>1, <2>1, <3>1
  <2> QED BY <2>2, <2>3
<1>6. mailed' = mailed \/ \E x \in Mails : EndMail(x, TRUE)
  BY DEF RateNext, Admit, Refuse, Ingest, BeginMail, EndMail, NextTick
<1> QED BY <1>4, <1>5, <1>6

LEMMA MailInvInit == RateInit => MailInv
<1> SUFFICES ASSUME RateInit PROVE MailInv
  OBVIOUS
<1>1. RateTypeOK
  BY RateTypeInit
<1>2. MailsInTime /\ HistoryKept
  BY <1>1 DEF RateInit, MailsInTime, HistoryKept, Recent, UnderWay
<1>3. MailsLimited
  <2> SUFFICES ASSUME NEW t \in 0 .. tick PROVE Cardinality(SentAround(t)) <= MailLimit
    BY DEF MailsLimited, SentAround
  <2>1. SentAround(t) = {}
    BY DEF RateInit, SentAround
  <2> QED BY <1>1, <2>1, FS_EmptySet, MailFacts
<1> QED BY <1>1, <1>2, <1>3 DEF MailInv

LEMMA MailInvStep == RateShape /\ MailInv /\ [RateNext]_rateVars => MailInv'
<1>1. ASSUME RateShape, MailInv, RateNext PROVE MailInv'
  <2>1. RateTypeOK' /\ MailsInTime'
    BY <1>1, RateTypeStep, MailsInTimeStep DEF MailInv
  <2>2. ~overlapped' => HistoryKept'
    BY <1>1, HistoryKeptStep DEF MailInv
  <2> QED BY <1>1, <2>1, <2>2, MailsLimitedStep DEF MailInv
<1>2. ASSUME MailInv, UNCHANGED rateVars PROVE MailInv'
  BY <1>2 DEF MailInv, RateTypeOK, MailsInTime, HistoryKept, Recent, UnderWay, MailsLimited, rateVars
<1> QED BY <1>1, <1>2

-----------------------------------------------------------------------------
(* No limiter lets more through than its window allows.                      *)
THEOREM LimitsHoldAlways == RateSpec => []LimitsHold
<1>1. SlidingInv /\ BucketInv /\ MailInv => LimitsHold
  BY DEF SlidingInv, KeyTrue, SlidingHolds, BucketInv, MailInv, LimitsHold
<1>2. RateInit => SlidingInv /\ BucketInv /\ MailInv
  BY SlidingInvInit, BucketInvInit, MailInvInit
<1>3. SlidingInv /\ BucketInv /\ MailInv /\ [RateNext]_rateVars
        => (SlidingInv /\ BucketInv /\ MailInv)'
  BY SlidingInvStep, BucketInvStep, MailInvStep DEF BucketInv
<1> QED BY <1>1, <1>2, <1>3, PTL DEF RateSpec

-----------------------------------------------------------------------------
(***************************************************************************)
(* The guards are functions of the request: that they agree is proved for   *)
(* every request, rule by rule.                                            *)
(***************************************************************************)

LEMMA InviteRules ==
  ASSUME NEW q \in InviteRequests PROVE InviteRulesAgree(q.i, q.email, q.now)
<1> DEFINE i == q.i
           matched == MatchEmailPattern(i.pattern, q.email)
<1>1. q.now \in Int /\ i.expiresAt \in Int /\ i.used \in Nat /\ i.max \in Nat
  BY DEF InviteRequests
<1>2. MatchActiveInvite(i, q.email, q.now)
        <=> i.revokedAt = NoHeader /\ i.expiresAt > q.now /\ i.used < i.max /\ matched
  BY DEF MatchActiveInvite
<1>3. DeriveInviteStatus(i, q.now) = "active"
        <=> i.revokedAt = NoHeader /\ i.expiresAt > q.now /\ i.used < i.max
  BY <1>1 DEF DeriveInviteStatus
<1>4. RevalidateInvite(i, q.now) = "valid"
        <=> /\ ~(i.revokedAt # NoHeader /\ i.revokedAt <= q.now)
            /\ i.expiresAt > q.now /\ i.used < i.max
  BY <1>1 DEF RevalidateInvite
<1>5. ClassifyInvite(i, q.email, q.now) = "ok"
        <=> i.revokedAt = NoHeader /\ q.now <= i.expiresAt /\ i.used < i.max /\ matched
  BY <1>1 DEF ClassifyInvite
<1> HIDE DEF i, matched
<1> QED BY <1>1, <1>2, <1>3, <1>4, <1>5 DEF InviteRulesAgree, i, matched

LEMMA OriginGuards ==
  ASSUME NEW q \in OriginRequests PROVE OriginGuardsAgree(q.r, q.base)
<1> DEFINE r == q.r
<1> SUFFICES ASSUME r.fetchSite = NoHeader
             PROVE  CheckSigninOrigin(r, q.base) = CheckSameOriginGet(r, q.base)
  BY DEF OriginGuardsAgree
<1>1. r.fetchSite \notin {"same-origin", "none", "same-site", "cross-site"}
  BY HeaderAssumption
<1>2. CASE r.origin = "null"
  BY <1>1, <1>2 DEF CheckSigninOrigin, CheckSameOriginGet
<1> DEFINE verdict(header) == IF SameOrigin(header, q.base) THEN "ok" ELSE "cross-origin"
<1>3. CASE r.origin # "null" /\ r.origin # NoHeader
  <2>1. CheckSigninOrigin(r, q.base) = verdict(r.origin)
    BY <1>3 DEF CheckSigninOrigin
  <2>2. CheckSameOriginGet(r, q.base) = verdict(r.origin)
    BY <1>1, <1>3 DEF CheckSameOriginGet
  <2> QED BY <2>1, <2>2
<1>4. CASE r.origin = NoHeader /\ r.referer # NoHeader
  <2>1. r.origin # "null"
    BY <1>4, HeaderAssumption
  <2>2. CheckSigninOrigin(r, q.base) = verdict(r.referer)
    BY <1>4, <2>1 DEF CheckSigninOrigin
  <2>3. CheckSameOriginGet(r, q.base) = verdict(r.referer)
    BY <1>1, <1>4, <2>1 DEF CheckSameOriginGet
  <2> QED BY <2>2, <2>3
<1>5. CASE r.origin = NoHeader /\ r.referer = NoHeader
  <2>1. r.origin # "null"
    BY <1>5, HeaderAssumption
  <2>2. CheckSigninOrigin(r, q.base) = "missing-origin"
    BY <1>5, <2>1 DEF CheckSigninOrigin
  <2>3. CheckSameOriginGet(r, q.base) = "missing-origin"
    BY <1>1, <1>5, <2>1 DEF CheckSameOriginGet
  <2> QED BY <2>2, <2>3
<1> QED BY <1>2, <1>3, <1>4, <1>5

(* Whom the callback of the token picks is one of the rows of the address. *)
LEMMA PickedRow ==
  ASSUME NEW rows \in Seq(AccessRows)
  PROVE  \/ Jwt(rows) = NoUser
         \/ Jwt(rows) \in AccessRows /\ Jwt(rows).role \in AccessRoles
<1> DEFINE S == LoadUserByEmail(rows)
<1>1. CASE S = {}
  BY <1>1 DEF Jwt
<1>2. CASE S # {}
  <2>1. S \subseteq Nat /\ S \subseteq 1 .. Len(rows)
    BY DEF LoadUserByEmail
  <2>2. Min(S) \in S
    <3> HIDE DEF S
    <3> QED BY <1>2, <2>1, LeastOf DEF Min
  <2>3. Jwt(rows) = rows[Min(S)]
    BY <1>2 DEF Jwt
  <2> QED BY <2>1, <2>2, <2>3 DEF LoadUserByEmail
<1> QED BY <1>1, <1>2

LEMMA Layers ==
  ASSUME NEW q \in LayerRequests PROVE LayersAgree(q.env, q.r, q.cookieRole, q.rows)
<1> DEFINE who == Jwt(q.rows)
           carried == [NoUser EXCEPT !.role = q.cookieRole]
           signedIn == q.cookieRole # NoHeader
           outer == RootMiddleware(q.env, q.r, signedIn, carried) = "next"
           inner == RequireRole(~IsAuthRequired(q.env) \/ signedIn, Auth(q.env, who), {"admin"}) = "next"
<1>1. q.env.authRequired \in BOOLEAN /\ q.rows \in Seq(AccessRows)
  BY DEF LayerRequests, AccessEnvs
<1>2. carried.role = q.cookieRole
  BY DEF NoUser
<1>3. "role" \in DOMAIN who
  <2>1. who = NoUser \/ who \in AccessRows
    BY <1>1, PickedRow
  <2>2. DOMAIN NoUser = {"id", "role", "org"}
    BY DEF NoUser
  <2>3. \A row \in AccessRows : DOMAIN row = {"id", "role", "org", "sso"}
    BY DEF AccessRows
  <2> HIDE DEF who
  <2> QED BY <2>1, <2>2, <2>3
<1>4. SessionOf(who).role = "admin" <=> who.role = "admin"
  <2>1. SessionOf(who).role = IF who.role \in AccessRoles THEN who.role ELSE NoHeader
    <3> HIDE DEF who
    <3> QED BY <1>3 DEF SessionOf
  <2> QED BY <2>1, HeaderAssumption DEF AccessRoles
<1>5. ASSUME IsAuthRequired(q.env)
      PROVE  inner <=> signedIn /\ who.role = "admin"
  BY <1>4, <1>5 DEF RequireRole, Auth
<1>6. ASSUME IsAuthRequired(q.env), q.r.path = "/manager/admin"
      PROVE  outer <=> signedIn /\ q.cookieRole = "admin"
  BY <1>2, <1>6 DEF RootMiddleware, Authorized, ManagerRoles
<1>7. ASSUME ~IsAuthRequired(q.env), outer PROVE IsLocalhostHost(q.r.host)
  BY <1>7 DEF RootMiddleware
<1> HIDE DEF who, outer, inner
<1>8. /\ q.r.path = "/manager/admin" /\ outer /\ inner =>
            who.role = "admin" \/ (~IsAuthRequired(q.env) /\ IsLocalhostHost(q.r.host))
      /\ q.r.path = "/manager/admin" /\ IsAuthRequired(q.env) /\ q.cookieRole = who.role
            => (outer <=> inner)
  BY <1>5, <1>6, <1>7
<1> QED BY <1>8 DEF LayersAgree, who, outer, inner

LEMMA Secrets ==
  ASSUME NEW q \in SecretRequests PROVE SecretsAgree(q.env, q.provided)
<1>1. q.env.cronSecret \in STRING /\ q.env.e2eBypass \in BOOLEAN /\ q.env.bypassAllowed \in BOOLEAN
  BY DEF SecretRequests, AccessEnvs
<1>2. IsAuthorizeOn(q.env) <=> q.env.e2eBypass /\ ~RefusesBypass(q.env)
  BY DEF IsAuthorizeOn, RefusesBypass, BypassOptedIn
<1>3. AssertCronSecret(q.env, q.provided) <=> AssertInternalCronAuth(q.env, q.provided)
  BY <1>1, HeaderAssumption DEF AssertCronSecret, AssertInternalCronAuth
<1>4. AssertInternalCronAuth(q.env, q.provided) => q.provided \notin {NoHeader, ""}
  BY <1>3 DEF AssertCronSecret, AssertInternalCronAuth
<1>5. q.env.node = "production" /\ ~RefusesCronSecret(q.env) => AssertCronSecret(q.env, q.env.cronSecret)
  BY <1>1, HeaderAssumption DEF RefusesCronSecret, AssertCronSecret
<1> QED BY <1>2, <1>3, <1>4, <1>5 DEF SecretsAgree

(* Whatever is asked, the rules that make an invite good, the checks of        *)
(* Origin, the middleware and the pages, and the secrets say the same, but    *)
(* for the differences GuardsAgree names.                                    *)
THEOREM GuardsAlwaysAgree == ASSUME input \in GuardRequests PROVE GuardsAgree
<1>1. input.kind = "invite" => input \in InviteRequests
  BY DEF GuardRequests, OriginRequests, LayerRequests, SecretRequests
<1>2. input.kind = "origin" => input \in OriginRequests
  BY DEF GuardRequests, InviteRequests, LayerRequests, SecretRequests
<1>3. input.kind = "layer" => input \in LayerRequests
  BY DEF GuardRequests, InviteRequests, OriginRequests, SecretRequests
<1>4. input.kind = "secret" => input \in SecretRequests
  BY DEF GuardRequests, InviteRequests, OriginRequests, LayerRequests
<1> QED BY <1>1, <1>2, <1>3, <1>4, InviteRules, OriginGuards, Layers, Secrets DEF GuardsAgree
=============================================================================
