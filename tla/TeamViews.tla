------------------------------ MODULE TeamViews ------------------------------
(***************************************************************************)
(* What managers are shown of their teams (apps/server/lib/queries/         *)
(* manager-v2.ts and team-outcomes.ts), and the two exports and the page of  *)
(* the audit log (audit-log.ts, app/manager/audit-log, teams/[id]/export).   *)
(*                                                                         *)
(* db is the snapshot of SpendViews with the daily rollups of the cron jobs: *)
(* db.metrics, db.teamOutcomes and the dismissals of anomalies.  A rollup of  *)
(* a day belongs to a window of n days when it is one of the last n dates,   *)
(* so it starts a day later than the window of the sessions.                *)
(***************************************************************************)
EXTENDS SpendViews, SequencesExt

-----------------------------------------------------------------------------
(* Trends, from the rollups.                                                *)

RollupsIn(db, org, team, days) ==
  {m \in db.metrics : m.org = org /\ m.team = team /\ m.day >= db.now - (days - 1)}
GetTeamCacheHitTrend(db, org, team, days) ==
  {[day |-> m.day, pct |-> m.hit] : m \in RollupsIn(db, org, team, days)}
GetTeamCompositeTrend(db, org, team, days) ==
  {[day |-> m.day, pct |-> m.composite] : m \in RollupsIn(db, org, team, days)}

(* Weighted by the sessions of the days that have a share. *)
GetTeamGoodSessionPct(db, org, team, days) ==
  LET rows == RollupsIn(db, org, team, days)
      counted == {m \in rows : m.goodPct # None}
      sessions == Total(counted, LAMBDA m : m.sessions)
  IN [pct |-> IF sessions = 0 THEN [num |-> 0, den |-> 1]
              ELSE [num |-> Total(counted, LAMBDA m : m.goodPct * m.sessions), den |-> sessions],
      trend |-> {[day |-> m.day, pct |-> m.goodPct] : m \in rows}]

-----------------------------------------------------------------------------
(* Trends, from the sessions of the members of a team.                       *)

TeamIds(db, org, team) == {u.id : u \in {v \in Members(db, org) : v.team = team}}
TeamSessions(db, org, team, days) ==
  Since(SessionsOf(db, TeamIds(db, org, team)), db.now, days)
GetTeamToolMix30d(db, org, team) ==
  LET rows == TeamSessions(db, org, team, 30)
      On(d) == ToolsOf(db, {s \in rows : s.startedOn = d})
  IN [d \in {e \in {s.startedOn : s \in rows} : On(e) # {}} |-> BucketizeToolMix(On(d))]
GetTeamSubagentAdoption(db, org, team, days) ==
  LET rows == TeamSessions(db, org, team, days)
  IN [pct |-> ShareOf(rows, UsesSubagents),
      trend |-> [d \in {s.startedOn : s \in rows} |->
                   ShareOf({s \in rows : s.startedOn = d}, UsesSubagents)]]

(* The radar of at least two teams; what a team lacks counts as nothing.  The  *)
(* days count alike for the cache, the sessions alike for the good ones.      *)
GetRadarComparison(db, org, teams) ==
  LET Rows(t) == RollupsIn(db, org, t, 30)
      Sessions30(t) == Total(Rows(t), LAMBDA m : m.sessions)
      Quot(num, den) == IF den = 0 THEN 0 ELSE num \div den
      Hit(t) == LET mean == MeanOf(Rows(t), LAMBDA m : m.hit)
                IN IF mean = None THEN 0 ELSE mean.num \div mean.den
      Good(t) == Quot(Total({m \in Rows(t) : m.goodPct # None},
                            LAMBDA m : m.goodPct * m.sessions), Sessions30(t))
      Adoption(t) == LET share == ShareOf(TeamSessions(db, org, t, 30), UsesSubagents)
                     IN share.num \div share.den
      Tools(t) == ToolsOf(db, TeamSessions(db, org, t, 30))
      Named(t, tool) == {r \in Tools(t) : r.tool = tool}
      Count(rows) == Total(rows, LAMBDA r : r.count)
      Share(t, tool) == Quot(100 * Count(Named(t, tool)), Count(Tools(t)))
  IN NormalizeRadarMetrics(
       [cacheHit |-> [t \in teams |-> Hit(t)],
        goodSessionPct |-> [t \in teams |-> Good(t)],
        subagentAdoptionPct |-> [t \in teams |-> Adoption(t)],
        editToolShare |-> [t \in teams |-> Share(t, "Edit")],
        readToolShare |-> [t \in teams |-> Share(t, "Read")]], teams, None)

-----------------------------------------------------------------------------
(* Whom to talk to.  Every manager of an organisation is shown all its teams. *)

LoadManagerTeams(db, org) == {t.id : t \in {x \in db.teams : x.org = org}}
LoadActiveDismissals(db, manager, org) ==
  {<<d.target, d.kind>> : d \in {x \in db.dismissals :
     x.org = org /\ x.manager = manager /\ x.until > db.now}}
InTeams(db, org) == {u \in Members(db, org) : u.team \in LoadManagerTeams(db, org)}
Between(rows, first, last) == {s \in rows : first <= s.startedOn /\ s.startedOn < last}
CostIn(rows) == Total(rows, LAMBDA s : s.cost)

(* A member without sessions counts in the mean of his team.  The spike over   *)
(* thirty days hides the one of the week, also when it was dismissed.         *)
GetCheckInOpportunities(db, manager, org) ==
  LET dismissed == LoadActiveDismissals(db, manager, org)
      Of(u) == SessionsOf(db, {u.id})
      sample(team) == [u \in {v \in InTeams(db, org) : v.team = team}
                         |-> CostIn(Since(Of(u), db.now, 30))]
      Spike(u) == DetectSpike(sample(u.team), u)
      Wow(u) == DetectWowSpike(CostIn(Since(Of(u), db.now, 7)),
                               CostIn(Between(Of(u), db.now - 14, db.now - 7)))
      Trigger(u) == IF Spike(u) THEN "spend-spike-30d" ELSE "spend-spike-wow"
  IN {[target |-> u.id, trigger |-> Trigger(u)] :
        u \in {v \in InTeams(db, org) :
                 (Spike(v) \/ Wow(v)) /\ <<v.id, Trigger(v)>> \notin dismissed}}

(* Usage is the number of sessions. *)
GetDropOffCandidates(db, manager, org) ==
  LET dismissed == LoadActiveDismissals(db, manager, org)
      Of(u) == SessionsOf(db, {u.id})
  IN {u.id : u \in {v \in InTeams(db, org) :
        /\ DetectDropOff(Cardinality(Since(Of(v), db.now, 7)),
                         Cardinality(Between(Of(v), db.now - 14, db.now - 7)))
        /\ <<v.id, "dropoff-wow">> \notin dismissed}}

(* Features one team uses far more than the others.  The subagents are compared *)
(* among the teams that have sessions, a tool among all; order ranks the teams. *)
GetKnowledgeSharingOpportunities(db, org, order) ==
  LET teams == LoadManagerTeams(db, org)
      Rows(t) == TeamSessions(db, org, t, 30)
      active == {t \in teams : Rows(t) # {}}
      Adoption(t) == LET share == ShareOf(Rows(t), UsesSubagents)
                     IN share.num \div share.den
      Mix(t) == BucketizeToolMix(ToolsOf(db, Rows(t)))
      Usage(t, b) == LET all == SumOver(Mix(t))
                     IN IF all = 0 THEN 0 ELSE (100 * Mix(t)[b]) \div all
      UsageOf(feature) ==
        IF feature = "subagents" THEN [t \in active |-> Adoption(t)]
        ELSE [t \in teams |-> Usage(t, feature)]
      Row(feature) == [feature |-> feature, top |-> TopOf(UsageOf(feature), order),
                       bottom |-> BottomOf(UsageOf(feature), order)]
  IN IF Cardinality(teams) < 2 THEN {}
     ELSE {Row(f) : f \in {g \in (ToolBuckets \ {"Other"}) \cup {"subagents"} :
             Cardinality(DOMAIN UsageOf(g)) >= 2 /\ DetectKnowledgeSharing(UsageOf(g), order)}}

GetTeamMembersForManager(db, org, team) == TeamIds(db, org, team)

-----------------------------------------------------------------------------
(* team-outcomes.ts.  A quotient is [num, den], or None.                      *)

RatioOrNone(num, den) == IF den = 0 THEN None ELSE [num |-> num, den |-> den]
TokensPerMergedLoc(t) == RatioOrNone(t.tokens, t.added)
CostPerMergedLoc(t) == RatioOrNone(t.cost, t.added)
RevertRate(t) == RatioOrNone(t.reverts, t.commits)
AvgMergedPrsPerSessionWithOutcome(t) ==
  IF t.merged = None THEN None ELSE RatioOrNone(t.merged, t.sessions)

GetTeamOutcomesForOrg(db, org, since, until) ==
  {r \in db.teamOutcomes : r.org = org /\ since <= r.day /\ r.day <= until}
AggregateOrgRollup(rows) ==
  LET merged == {r \in rows : r.merged # None}
  IN [commits |-> Total(rows, LAMBDA r : r.commits), added |-> Total(rows, LAMBDA r : r.added),
      reverts |-> Total(rows, LAMBDA r : r.reverts), tokens |-> Total(rows, LAMBDA r : r.tokens),
      cost |-> Total(rows, LAMBDA r : r.cost), sessions |-> Total(rows, LAMBDA r : r.sessions),
      merged |-> IF merged = {} THEN None ELSE Total(merged, LAMBDA r : r.merged)]

-----------------------------------------------------------------------------
(* The audit log.  Events are seen by the organisation some user of which has  *)
(* the address; filters maps what is asked for to a value, a range is          *)
(* [from, to].  log is the table, the newest first; matching holds its rows    *)
(* that pass the filters.                                                   *)

MAX_PAGE == 10000

(* What the address of the page may say: anything unreadable (None) is page 0. *)
PageParam(text) == IF text \in 0 .. MAX_PAGE THEN text ELSE 0
Kept(log, hashes, matching) ==
  FoldLeft(LAMBDA rows, e : IF e.email \in hashes /\ e \in matching THEN Append(rows, e) ELSE rows,
           <<>>, log)
LoadAuditLogPage(log, hashes, matching, page, pageSize) ==
  LET kept == Kept(log, hashes, matching)
  IN IF page < 0 THEN None
     ELSE [rows |-> SubSeq(kept, page * pageSize + 1, Min({(page + 1) * pageSize, Len(kept)})),
           totalCount |-> IF hashes = {} THEN 0 ELSE Len(kept),
           page |-> page, pageSize |-> pageSize]
AuditLogPage(log, hashes, matching, text, pageSize) ==
  LET result == LoadAuditLogPage(log, hashes, matching, PageParam(text), pageSize)
      pages == Max({1, (result.totalCount + pageSize - 1) \div pageSize})
  IN [rows |-> result.rows, hasPrev |-> result.page > 0, hasNext |-> result.page + 1 < pages]

ManagersMayExport(role1) == role1 \in {"manager", "admin"}
ExportAuditLog(log, hashes, matching, guard, session, cap) ==
  LET page == LoadAuditLogPage(log, hashes, matching, 0, cap)
  IN CASE guard # "ok" -> [status |-> 403]
       [] guard = "ok" /\ session.role = None -> [status |-> 401]
       [] guard = "ok" /\ session.role # None /\ ~ManagersMayExport(session.role) -> [status |-> 403]
       [] OTHER -> [status |-> 200, rows |-> page.rows, truncated |-> page.totalCount > cap]

(* The members of a team as a file; the rows are those of its page.           *)
ExportTeamRoster(db, team, org, filter, guard, session, cap) ==
  LET detail == GetTeamDetail(db, team, org, filter)
      allowed == session.role # None /\ ManagersMayExport(session.role)
  IN CASE guard # "ok" \/ ~allowed -> [status |-> 403]
       [] guard = "ok" /\ allowed /\ detail = None -> [status |-> 404]
       [] OTHER -> [status |-> 200,
                    rows |-> Min({cap, Cardinality(DOMAIN detail.members)}),
                    truncated |-> Cardinality(DOMAIN detail.members) > cap]

-----------------------------------------------------------------------------
(* The pages.  A mean of means is truncated to a hundredth at each step.       *)

Mean(values) ==
  LET known == {i \in DOMAIN values : values[i] # None}
  IN IF known = {} THEN 0
     ELSE MapThenSumSet(LAMBDA i : values[i], known) \div Cardinality(known)
Percent(quotient) == quotient.num \div quotient.den
DayOf(trend, d) == LET on == {p \in trend : p.day = d} IN
  IF on = {} THEN None ELSE (CHOOSE p \in on : TRUE).pct
(* Of each day some team has a value for, the mean of those values. *)
AggregateDailyTrend(trends) ==
  [d \in {p.day : p \in {q \in UNION {trends[t] : t \in DOMAIN trends} : q.pct # None}} |->
     Mean([t \in DOMAIN trends |-> DayOf(trends[t], d)])]
AggregateToolMix(mixes) ==
  [d \in UNION {DOMAIN mixes[t] : t \in DOMAIN mixes} |->
     [b \in ToolBuckets |->
        MapThenSumSet(LAMBDA t : mixes[t][d][b], {t \in DOMAIN mixes : d \in DOMAIN mixes[t]})]]
LatestKnown(trend) ==
  LET known == {p \in trend : p.pct # None}
  IN IF known = {} THEN None ELSE DayOf(known, Max({p.day : p \in known}))

(* Teams weigh alike, those without any data included; the composite is the    *)
(* last known one of each team, and the good sessions where no team has one.   *)
ManagerEffectivenessPage(db, org) ==
  LET teams == LoadManagerTeams(db, org)
      hits == [t \in teams |-> GetTeamCacheHitTrend(db, org, t, 30)]
      good == Mean([t \in teams |-> Percent(GetTeamGoodSessionPct(db, org, t, 30).pct)])
      latest == [t \in teams |-> LatestKnown(GetTeamCompositeTrend(db, org, t, 30))]
      HitMean(t) == Mean([d \in {p.day : p \in hits[t]} |-> DayOf(hits[t], d)])
  IN [cacheHit |-> Mean([t \in teams |-> HitMean(t)]), goodSession |-> good,
      subagents |-> Mean([t \in teams |-> Percent(GetTeamSubagentAdoption(db, org, t, 30).pct)]),
      composite |-> IF \A t \in teams : latest[t] = None THEN good ELSE Mean(latest),
      cacheHitTrend |-> AggregateDailyTrend(hits),
      toolMix |-> AggregateToolMix([t \in teams |-> GetTeamToolMix30d(db, org, t)]),
      radar |-> GetRadarComparison(db, org, teams)]

(* One team: the last day stands for itself, whether or not it has a value.     *)
TeamEffectivenessPage(db, team, org) ==
  LET LastDay(trend) == IF trend = {} THEN None ELSE DayOf(trend, Max({p.day : p \in trend}))
  IN IF team \notin LoadManagerTeams(db, org) THEN None
     ELSE [cacheHit |-> LastDay(GetTeamCacheHitTrend(db, org, team, 30)),
           goodSession |-> Percent(GetTeamGoodSessionPct(db, org, team, 30).pct),
           subagents |-> Percent(GetTeamSubagentAdoption(db, org, team, 30).pct),
           composite |-> LastDay(GetTeamCompositeTrend(db, org, team, 30))]

ManagerOutcomesPage(db, org) ==
  LET rows == GetTeamOutcomesForOrg(db, org, db.now - 29, db.now)
      Of(t) == AggregateOrgRollup({r \in rows : r.team = t})
      On(d) == {r \in rows : r.day = d}
      shown == {r.team : r \in rows}
      priced == {d \in {r.day : r \in rows} :
                   Total(On(d), LAMBDA r : r.added) > 0 /\ CostIn(On(d)) > 0}
  IN IF rows = {} THEN None
     ELSE [org |-> AggregateOrgRollup(rows),
           teams |-> IF Cardinality(shown) >= 2 THEN [t \in shown |-> Of(t)]
                     ELSE [t \in {} |-> t],
           trend |-> [d \in priced |->
                        CostPerMergedLoc(AggregateOrgRollup(On(d)))]]

(* What developers are shown; a page that is no positive number is refused.    *)
MyVisibilityPage(db, u, audit, page) ==
  LET log == GetMyDrilldownAudit(audit, page, 25)
  IN IF page < 1 THEN None
     ELSE [kpis |-> GetMyKpis(db, u), outcomes |-> GetMyOutcomeKpis(db, u), items |-> log.items,
           hasPrev |-> page > 1, hasNext |-> page < Max({1, (log.total + 24) \div 25})]

-----------------------------------------------------------------------------
(* What the tables hold, from the ingests and the cron jobs alone: finitely     *)
(* many rows, keys that identify one, teams within one organisation, amounts    *)
(* that are not negative, and of a day with a rollup how many of its sessions   *)
(* were good.                                                               *)
StoredFits(db) ==
  /\ db.now \in Int
  /\ \A table \in {db.users, db.teams, db.sessions, db.tools, db.metrics, db.teamOutcomes} :
       IsFiniteSet(table)
  /\ \A u \in db.users, v \in db.users : u.id = v.id => u = v
  /\ \A t \in db.teams, v \in db.teams : t.id # None /\ (t.id = v.id => t = v)
  /\ \A u \in db.users : u.team # None => \E t \in db.teams : t.id = u.team /\ t.org = u.org
  /\ \A s \in db.sessions, r \in db.sessions :
       s.user = r.user /\ s.session = r.session => s = r
  /\ \A s \in db.sessions : /\ s.user \in MemberIds(db.users) /\ s.startedOn \in Int
                            /\ s.cost \in Nat /\ s.otelCost \in Nat \cup {None}
  /\ \A r \in db.tools : r.count \in Nat
  /\ \A m \in db.metrics : m.goodPct \in Nat /\ m.sessions \in Nat
  /\ \A r \in db.teamOutcomes :
       \A f \in {"commits", "added", "reverts", "tokens", "cost", "sessions"} : r[f] \in Nat

SnapshotFits(db) ==
  StoredFits(db) /\ \A u \in MemberIds(db.users) : RatesFit(db.calibrations[u])

(* The pages of a team list all of its projects and of their sessions.        *)
NothingCutOff(db, team) ==
  /\ Cardinality({s.project : s \in {r \in db.sessions : r.startedOn >= db.now - 30 /\
        \E u \in db.users : u.id = r.user /\ u.team = team}}) <= ROW_LIMIT_TOP_PROJECTS
  /\ \A u \in MemberIds(db.users) :
       Cardinality(Since(SessionsOf(db, {u}), db.now, 30)) <= DEFAULT_SESSION_LIST_LIMIT

-----------------------------------------------------------------------------
(* How the views fit together.                                              *)

(* The tools and the subagents of the teams are those of their members, day by *)
(* day or all together, and the radar agrees with the page of a team.         *)
TeamsAddUp(db, org) ==
  LET teams == LoadManagerTeams(db, org)
      page == ManagerEffectivenessPage(db, org)
      Tool(b) == MapThenSumSet(LAMBDA d : page.toolMix[d][b], DOMAIN page.toolMix)
      raw(t) == GetTeamSubagentAdoption(db, org, t, 30)
  IN /\ \A b \in ToolBuckets :
          Tool(b) = MapThenSumSet(LAMBDA u : GetDevToolUsage(db, u.id, 30)[b], InTeams(db, org))
     /\ \A t \in teams :
          /\ raw(t).pct.num = SumOver([d \in DOMAIN raw(t).trend |-> raw(t).trend[d].num])
          /\ TeamEffectivenessPage(db, t, org).subagents = Percent(raw(t).pct)
     /\ (page.radar = None) <=> (Cardinality(teams) < 2)
     /\ page.cacheHit = 0 \/ DOMAIN page.cacheHitTrend # {}

(* A team that leads in good sessions on the page of each leads on the radar. *)
RadarRanksAsPages(db, org) ==
  LET radar == ManagerEffectivenessPage(db, org).radar
      Good(t) == TeamEffectivenessPage(db, t, org).goodSession
  IN radar # None =>
       \A t, x \in DOMAIN radar.goodSessionPct :
         Good(t) <= Good(x) => radar.goodSessionPct[t] <= radar.goodSessionPct[x]

(* A manager is never shown an anomaly he dismissed, nor a user of another      *)
(* organisation, and nobody twice.                                          *)
AlertsRespectDismissals(db, manager, org) ==
  LET shown == GetCheckInOpportunities(db, manager, org)
      dropped == GetDropOffCandidates(db, manager, org)
      active == LoadActiveDismissals(db, manager, org)
  IN /\ \A c \in shown : <<c.target, c.trigger>> \notin active
     /\ \A u \in dropped : <<u, "dropoff-wow">> \notin active
     /\ \A u \in dropped \cup {c.target : c \in shown} :
          \E t \in LoadManagerTeams(db, org) : u \in GetTeamMembersForManager(db, org, t)
     /\ Cardinality({c.target : c \in shown}) = Cardinality(shown)

(* The outcomes of an organisation are those of its teams, and a quotient is    *)
(* missing exactly when there is nothing to divide by.                       *)
OutcomesAddUp(db, org) ==
  LET page == ManagerOutcomesPage(db, org)
      fields == {"commits", "added", "reverts", "tokens", "cost", "sessions"}
  IN page # None =>
       /\ DOMAIN page.teams # {} => \A f \in fields :
            page.org[f] = MapThenSumSet(LAMBDA t : page.teams[t][f], DOMAIN page.teams)
       /\ (page.org.added = 0) <=> (CostPerMergedLoc(page.org) = None)
       /\ (TokensPerMergedLoc(page.org) = None) <=> (CostPerMergedLoc(page.org) = None)
       /\ (RevertRate(page.org) = None) <=> (page.org.commits = 0)
       /\ AvgMergedPrsPerSessionWithOutcome(page.org) # None => page.org.merged # None
       /\ page.org.added = 0 => DOMAIN page.trend = {}

(* A team said to lead the others in subagents is at the rim of the radar, and  *)
(* the one said to trail is not; the two queries are not the same.            *)
SharingMatchesRadar(db, org, order) ==
  LET radar == GetRadarComparison(db, org, LoadManagerTeams(db, org))
  IN \A row \in GetKnowledgeSharingOpportunities(db, org, order) :
       /\ row.top # row.bottom /\ {row.top, row.bottom} \subseteq LoadManagerTeams(db, org)
       /\ row.feature = "subagents" =>
            /\ radar.subagentAdoptionPct[row.top] = 100
            /\ radar.subagentAdoptionPct[row.bottom] < 100

(* Following the links of the audit log from page 0 shows what the export holds, *)
(* in the same order, up to its cap; and neither shows an address of another    *)
(* organisation.  A link leads only to a page that has rows, except from a page  *)
(* past the end.                                                            *)
ExportsMatchPages(log, hashes, matching, pageSize, cap) ==
  LET session == [role |-> "manager"]
      file == ExportAuditLog(log, hashes, matching, "ok", session, cap)
      View(p) == AuditLogPage(log, hashes, matching, p, pageSize)
      total == LoadAuditLogPage(log, hashes, matching, 0, pageSize).totalCount
  IN /\ \A i \in 1 .. Len(file.rows) :
          LET rows == View((i - 1) \div pageSize).rows
          IN file.rows[i] = rows[((i - 1) % pageSize) + 1]
     /\ Len(file.rows) = Min({cap, total})
     /\ file.truncated <=> Len(file.rows) < total
     /\ \A i \in 1 .. Len(file.rows) : file.rows[i].email \in hashes
     /\ \A p \in 0 .. Len(log) : View(p).hasNext => View(p + 1).rows # <<>>
     /\ View(None) = View(0)

(* Only managers export, and only teams of their own organisation. *)
RostersStayInside(db, team, org, guard, role1) ==
  LET answer == ExportTeamRoster(db, team, org, "all", guard, [role |-> role1], 1)
  IN /\ answer.status = 200 =>
          guard = "ok" /\ role1 \in {"manager", "admin"} /\ team \in LoadManagerTeams(db, org)
     /\ answer.status = 200 /\ answer.truncated =>
          answer.rows < Cardinality(TeamIds(db, org, team))

TeamsAgree(db, order) ==
  \A o \in {t.org : t \in db.teams} :
    /\ TeamsAddUp(db, o) /\ RadarRanksAsPages(db, o)
    /\ OutcomesAddUp(db, o) /\ SharingMatchesRadar(db, o, order)
    /\ \A manager \in MemberIds(db.users) : AlertsRespectDismissals(db, manager, o)
    /\ \A t \in db.teams, role1 \in {None, "member", "manager", "admin"} :
         \A guard \in {"ok", "cross-site"} : RostersStayInside(db, t.id, o, guard, role1)

(* Three standard deviations take ten members: the guard of the cron job on     *)
(* teams of fewer than five never decides about a spike.                      *)
SpikesNeedTen(sample) ==
  (\E i \in DOMAIN sample : DetectSpike(sample, i)) => Cardinality(DOMAIN sample) >= 10
=============================================================================
