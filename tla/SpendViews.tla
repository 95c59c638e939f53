----------------------------- MODULE SpendViews -----------------------------
(***************************************************************************)
(* What the central server shows of the costs of sessions: the three views *)
(* that add them up (the overview of an organisation, the page of a team,  *)
(* the drill-down into a developer) and what developers see of themselves. *)
(*                                                                         *)
(* A view reads one snapshot db, a record of sets of rows.  The model of a  *)
(* session is the family of the model it spent most on.  Costs are whole    *)
(* cents; views add hundredths of a cent, to which a calibrated cost is     *)
(* truncated.  A day stands for every instant of it, so a window of n days  *)
(* back from now starts at the day now - n.                                *)
(***************************************************************************)
EXTENDS CentralSchema, ManagerMetrics, CostCalibration, Sequences

-----------------------------------------------------------------------------
(* Calibrations of several users: db.calibrations maps each to his rows.     *)

Members(db, org) == {u \in db.users : u.org = org}
MemberIds(users) == {u.id : u \in users}
SessionsOf(db, ids) == {s \in db.sessions : s.user \in ids}
(* Only users that have rows are in the map of the organisation. *)
LoadCalibrationByUser(db, org) ==
  [u \in {i \in MemberIds(Members(db, org)) : DOMAIN db.calibrations[i] # {}}
     |-> db.calibrations[u]]
(* Every user asked for is in the one of a team, with or without rows. *)
LoadCalibrationsForUsers(db, ids) == [u \in ids |-> db.calibrations[u]]

BuildOrgGlobalCalibration(byUser) ==
  LET Having(f) == {u \in DOMAIN byUser : f \in DOMAIN byUser[u]}
      Entry(f) == [otel |-> MapThenSumSet(LAMBDA u : byUser[u][f].otel, Having(f)),
                   local |-> MapThenSumSet(LAMBDA u : byUser[u][f].local, Having(f))]
  IN [f \in {g \in FAMILY_KEYS : Having(g) # {} /\ Entry(g).local > 0} |-> Entry(f)]

-----------------------------------------------------------------------------
(* overview.ts                                                              *)

LoadSessionsForOrg(db, org) ==
  Since(SessionsOf(db, MemberIds(Members(db, org))), db.now, 90)
(* A user without any calibration row is charged at the organisation's rates. *)
OverviewCost(db, org, s) ==
  LET byUser == LoadCalibrationByUser(db, org)
  IN EffectiveCost(s, IF s.user \in DOMAIN byUser THEN byUser[s.user]
                      ELSE BuildOrgGlobalCalibration(byUser))
Sparkline7dKeys(now) == (now - 6) .. now

TeamRowOf(db, rows, org) ==
  LET Cost(s) == OverviewCost(db, org, s).value IN
  [spend30d |-> Total(Since(rows, db.now, 30), Cost),
   activeUsers7d |-> Cardinality({s.user : s \in Since(rows, db.now, 7)}),
   sparkline7d |-> [d \in Sparkline7dKeys(db.now) |->
                      Total({s \in rows : s.startedOn = d}, Cost)]]
GetOrgOverview(db, org) ==
  LET rows == LoadSessionsForOrg(db, org)
      Cost(s) == OverviewCost(db, org, s).value
      teamOf == [s \in rows |-> (CHOOSE u \in db.users : u.id = s.user).team]
      Active(days) == {s.user : s \in Since(rows, db.now, days)}
  IN [spend7d |-> Total(Since(rows, db.now, 7), Cost),
      spend30d |-> Total(Since(rows, db.now, 30), Cost),
      spend90d |-> Total(rows, Cost),
      spendTrend30d |-> ByDay(Since(rows, db.now, 30), Cost),
      teamBreakdown |-> [t \in {teamOf[s] : s \in rows} \ {None} |->
                           TeamRowOf(db, {s \in rows : teamOf[s] = t}, org)],
      dau |-> Cardinality(Active(1)), wau |-> Cardinality(Active(7)),
      mau |-> Cardinality(Active(30)),
      totalSeats |-> Cardinality(Members(db, org)),
      sourceMix |-> [k \in {"otel", "calibrated", "list"} |->
                       Cardinality({s \in rows : OverviewCost(db, org, s).source = k})]]

-----------------------------------------------------------------------------
(* teams.ts                                                                 *)

ROW_LIMIT_TOP_PROJECTS == 10

(* The machine a member was given last says how he came; a sign-in is known   *)
(* by the hash of his address.                                             *)
ProvisionedVia(db, u) ==
  LET mine == {m \in db.machines : m.user = u}
  IN IF mine = {} THEN "pre-v2-unknown"
     ELSE (CHOOSE m \in mine : \A n \in mine : n.createdOn <= m.createdOn).via
LastLoginAt(db, u) ==
  LET mine == {e \in db.authEvents : e.email = u /\ e.outcome = "accepted-sso-auto"}
  IN IF mine = {} THEN None ELSE Max({e.occurredOn : e \in mine})
PassesFilter(via, filter) ==
  CASE filter = "all" -> TRUE
    [] filter = "token" -> via = "manual-token"
    [] filter = "sso-auto" -> via = "sso-auto"

(* The page of a team is not found from another organisation. *)
GetTeamDetail(db, team, org, filter) ==
  LET ids == {u.id : u \in {v \in db.users :
                v.team = team /\ PassesFilter(ProvisionedVia(db, v.id), filter)}}
      rows == {s \in Since(SessionsOf(db, ids), db.now, 30) : s.cost >= 0}
      calibrations == LoadCalibrationsForUsers(db, ids)
      Cost(s) == EffectiveCost(s, calibrations[s.user]).value
      Of(u) == {s \in rows : s.user = u}
      Spend(p) == Total({s \in rows : s.project = p}, Cost)
      projects == FirstRows({s.project : s \in rows}, ROW_LIMIT_TOP_PROJECTS, Spend)
  IN IF ~\E t \in db.teams : t.id = team /\ t.org = org THEN None
     ELSE [members |-> [u \in ids |->
             [sessions30d |-> Cardinality(Of(u)), spend30d |-> Total(Of(u), Cost),
              via |-> ProvisionedVia(db, u), lastLoginAt |-> LastLoginAt(db, u)]],
           spendTrend30d |-> ByDay(rows, Cost),
           dau30d |-> [d \in {s.startedOn : s \in rows} |->
                         Cardinality({s.user : s \in {r \in rows : r.startedOn = d}})],
           topProjects |-> [p \in projects |-> Spend(p)]]

-----------------------------------------------------------------------------
(* manager-drilldown.ts: one developer, at list prices.                     *)

DEFAULT_SESSION_LIST_LIMIT == 100

GetDevSpendDetail(db, u, days) ==
  LET rows == Since(SessionsOf(db, {u}), db.now, days)
  IN IF rows = {} THEN None
     ELSE [thirtyDaySpendUsd |-> Total(rows, ListPrice),
           sevenDaySpendUsd |-> Total(Since(SessionsOf(db, {u}), db.now, 7), ListPrice),
           trend |-> ByDay(rows, ListPrice)]
GetDevSessionList(db, u, days, limit) ==
  FirstRows(Since(SessionsOf(db, {u}), db.now, days), limit, LAMBDA s : s.startedOn)
ToolsOf(db, sessions) ==
  {t \in db.tools : \E s \in sessions : s.user = t.user /\ s.session = t.session}
GetDevToolUsage(db, u, days) ==
  BucketizeToolMix(ToolsOf(db, Since(SessionsOf(db, {u}), db.now, days)))

-----------------------------------------------------------------------------
(* me-visibility.ts.  A mean is [num, den], in hundredths.                   *)

MyGoodSession(s) == (s.rating # None /\ s.rating >= 4) \/ (s.hit # None /\ s.hit >= 60)
UsesSubagents(s) == s.subagent # None /\ s.subagent > 0
ShareOf(rows, P(_)) ==
  IF rows = {} THEN [num |-> 0, den |-> 1]
  ELSE [num |-> 100 * Cardinality({s \in rows : P(s)}), den |-> Cardinality(rows)]

GetMyKpis(db, u) ==
  LET rows == Since(SessionsOf(db, {u}), db.now, 30)
  IN [cacheHitRatioAvg |-> MeanOf(rows, LAMBDA s : s.hit),
      goodSessionPct |-> ShareOf(rows, MyGoodSession),
      subagentAdoptionPct |-> ShareOf(rows, UsesSubagents),
      toolMix |-> BucketizeToolMix(ToolsOf(db, rows))]

(* Page 1 is the newest; audit is the user's rows, the newest first. *)
GetMyDrilldownAudit(audit, page, pageSize) ==
  IF page <= 0 \/ pageSize <= 0 THEN None
  ELSE [items |-> SubSeq(audit, (page - 1) * pageSize + 1, Min({page * pageSize, Len(audit)})),
        total |-> Len(audit)]

GetMyOutcomeKpis(db, u) ==
  LET mine == {o \in db.outcomes : o.user = u /\ o.status = "evaluated"}
      Of(o) == {s \in Since(SessionsOf(db, {u}), db.now, 30) : s.session = o.session}
      counted == {o \in mine : Of(o) # {}}
      merged == {o \in counted : o.merged # None}
      Sum(Field(_)) == Total({o \in counted : Field(o) # None}, Field)
  IN [commits |-> Sum(LAMBDA o : o.commits), locAdded |-> Sum(LAMBDA o : o.added),
      reverts |-> Sum(LAMBDA o : o.reverts),
      costUsd |-> Total(UNION {Of(o) : o \in counted}, ListPrice),
      sessions |-> Cardinality(counted),
      merged |-> IF merged = {} THEN None ELSE Total(merged, LAMBDA o : o.merged)]

-----------------------------------------------------------------------------
(* How the views fit together.                                              *)

(* Every cent of the last thirty days is in the trend of the overview, and in *)
(* the row of one team or with the users that have none; the sparkline of a    *)
(* team never shows more than it spent; every session has one source of cost. *)
OverviewAddsUp(db, org) ==
  LET view == GetOrgOverview(db, org)
      teamless == {u.id : u \in {v \in Members(db, org) : v.team = None}}
      Cost(s) == OverviewCost(db, org, s).value
      without == Total(Since(SessionsOf(db, teamless), db.now, 30), Cost)
  IN /\ view.spend30d = SumOver(view.spendTrend30d)
     /\ view.spend30d = without
          + MapThenSumSet(LAMBDA t : view.teamBreakdown[t].spend30d, DOMAIN view.teamBreakdown)
     /\ view.spend7d <= view.spend30d /\ view.spend30d <= view.spend90d
     /\ \A t \in DOMAIN view.teamBreakdown :
          SumOver(view.teamBreakdown[t].sparkline7d) <= view.teamBreakdown[t].spend30d
     /\ SumOver(view.sourceMix) = Cardinality(LoadSessionsForOrg(db, org))
     /\ view.dau <= view.wau /\ view.wau <= view.mau /\ view.mau <= view.totalSeats

(* The rates an organisation lends its users are always usable: they lie       *)
(* between the rates they are made from.                                     *)
LentRatesUsable(db, org) ==
  LET lent == BuildOrgGlobalCalibration(LoadCalibrationByUser(db, org))
  IN \A f \in DOMAIN lent : IsRateInBounds(lent[f])

(* The page of a team and its row of the overview say the same, unless a member *)
(* has no calibration of his own where others have one: the overview lends him *)
(* the organisation's, the page of the team does not.                        *)
TeamPageMatchesOverview(db, team, org) ==
  LET page == GetTeamDetail(db, team, org, "all")
      view == GetOrgOverview(db, org)
      lends == DOMAIN BuildOrgGlobalCalibration(LoadCalibrationByUser(db, org)) # {}
      own == \A u \in DOMAIN page.members : DOMAIN db.calibrations[u] # {}
      shown == MapThenSumSet(LAMBDA u : page.members[u].spend30d, DOMAIN page.members)
  IN page # None =>
       /\ shown = SumOver(page.spendTrend30d)
       /\ shown = SumOver(page.topProjects)
       /\ own \/ ~lends =>
            shown = (IF team \in DOMAIN view.teamBreakdown
                       THEN view.teamBreakdown[team].spend30d ELSE 0)
       /\ \A u \in DOMAIN page.members :
            page.members[u].sessions30d =
              Cardinality(GetDevSessionList(db, u, 30, DEFAULT_SESSION_LIST_LIMIT))

(* The filters of the page of a team pick disjoint sets of its members, who    *)
(* are shown with the same amounts.                                         *)
FiltersPartition(db, team, org) ==
  LET Page(filter) == GetTeamDetail(db, team, org, filter)
  IN Page("all") # None =>
       /\ DOMAIN Page("token").members \cap DOMAIN Page("sso-auto").members = {}
       /\ \A filter \in {"token", "sso-auto"} : \A u \in DOMAIN Page(filter).members :
            Page(filter).members[u] = Page("all").members[u]

(* A developer drilled into is shown what he sees of himself: the same tools   *)
(* and the same sessions, and a price that differs from the one on the page    *)
(* of his team only where OTEL or a calibration has a say.                    *)
DrilldownMatchesSelf(db, u, org) ==
  LET detail == GetDevSpendDetail(db, u, 30)
      mine == GetMyKpis(db, u)
      rows == Since(SessionsOf(db, {u}), db.now, 30)
      Cost(s) == EffectiveCost(s, db.calibrations[u]).value
  IN /\ GetDevToolUsage(db, u, 30) = mine.toolMix
     /\ (detail = None) <=> (rows = {})
     /\ detail # None =>
          /\ detail.thirtyDaySpendUsd = SumOver(detail.trend)
          /\ detail.sevenDaySpendUsd <= detail.thirtyDaySpendUsd
          /\ (\A s \in rows : s.otelCost = None) /\ db.calibrations[u] = NoCalibration
               => Total(rows, Cost) = detail.thirtyDaySpendUsd
     /\ GetMyOutcomeKpis(db, u).costUsd <= Total(rows, ListPrice)

(* The pages of the drill-downs of a user hold every row once, in order. *)
PagesCoverAudit(audit, pageSize) ==
  LET pages == (Len(audit) + pageSize - 1) \div pageSize
      Items(p) == GetMyDrilldownAudit(audit, p, pageSize).items
  IN /\ \A p \in 1 .. pages : \A i \in 1 .. Len(Items(p)) :
          Items(p)[i] = audit[(p - 1) * pageSize + i]
     /\ MapThenSumSet(LAMBDA p : Len(Items(p)), 1 .. pages) = Len(audit)
     /\ Items(pages + 1) = <<>>

SpendAgrees(db, audit) ==
  /\ \A o \in {t.org : t \in db.teams} :
       OverviewAddsUp(db, o) /\ LentRatesUsable(db, o)
  /\ \A t \in db.teams : \A o \in {x.org : x \in db.teams} :
       TeamPageMatchesOverview(db, t.id, o) /\ FiltersPartition(db, t.id, o)
  /\ \A u \in db.users : DrilldownMatchesSelf(db, u.id, u.org)
  /\ \A n \in 1 .. 2 : PagesCoverAudit(audit, n)
=============================================================================
