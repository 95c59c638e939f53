------------------------------ MODULE LocalEffort ------------------------------
(***************************************************************************)
(* What the local dashboard says of how well it went: scores               *)
(* (lib/analytics/scoring.ts), the queries of effectiveness                *)
(* (lib/queries/effectiveness.ts, effectiveness-v2.ts, subagent.ts), their  *)
(* charts (lib/analytics/heatmap.ts, tool-trend.ts, regression.ts,          *)
(* components/overview/activity-heatmap.tsx) and the two pages that show    *)
(* them (app/page.tsx, app/effectiveness/page.tsx).                         *)
(*                                                                         *)
(* A session has its turns, in order, besides the columns LocalCosts reads; *)
(* a turn has its calls of tools, each of its own n.  Ratios are            *)
(* thousandths and scores hundredths of a point, both truncated.            *)
(***************************************************************************)
EXTENDS LocalCosts

Ratio(num, den) == IF den = 0 THEN None ELSE (1000 * num) \div den
Thousandths(mean) == IF mean = None THEN None ELSE Ratio(mean.num, mean.den)

EditTools == {"Edit", "MultiEdit", "Write"}
SUBAGENT_TOOL_NAME == "Agent"
CallsOf(s) == UNION {Range(s.turns[i].calls) : i \in DOMAIN s.turns}
CallsTo(calls, tools) == {c \in calls : c.tool \in tools}
Errors(calls) == Cardinality({c \in calls : c.error})
ErrorRate(calls) == Ratio(Errors(calls), Cardinality(calls))

(* The first type among a turn's calls of Agent that is one. *)
ExtractSubagentType(calls) ==
  LET valid == {i \in DOMAIN calls : calls[i].tool = SUBAGENT_TOOL_NAME /\ calls[i].type # None}
  IN IF valid = {} THEN None ELSE calls[Min(valid)].type

-----------------------------------------------------------------------------
(* scoring.ts                                                               *)

(* A prompt that corrects is held against the turn before it. *)
CorrectionPenalties(turns) ==
  [i \in {k \in 1 .. Len(turns) - 1 : turns[k + 1].prompt \in {"mild", "strong"}} |->
     IF turns[i + 1].prompt = "strong" THEN 1000 ELSE 500]

Weights == [outIn |-> 10, hit |-> 10, rating |-> 30, density |-> 20, errors |-> 15, accept |-> 15]
Signals == DOMAIN Weights
Clip(x, lo, hi) == CASE x < lo -> lo [] x > hi -> hi [] OTHER -> x
Worth(k, x) ==
  CASE k = "outIn" -> Clip(x, 0, 2000) \div 2
    [] k = "rating" -> (Clip(x, -1000, 1000) + 1000) \div 2
    [] k \in {"hit", "accept"} -> Clip(x, 0, 1000)
    [] k \in {"density", "errors"} -> 1000 - Clip(x, 0, 1000)
WeightedWorth(input, given) ==
  IF given \subseteq {"density"} THEN 0
  ELSE (10 * Total(given, LAMBDA k : Weights[k] * Worth(k, input[k])))
         \div Total(given, LAMBDA k : Weights[k])
EffectivenessScore(input) == WeightedWorth(input, {k \in Signals : input[k] # None})

(* How many of the values, a function, are in each of n equal ranges. *)
BucketCostPerTurn(values, n) ==
  LET all == Range(values)
      low == Min(all)
      width == Max(all) - low
      Bucket(v) == Min({n - 1, ((v - low) * n) \div width})
  IN CASE all = {} -> <<>>
       [] all # {} /\ width = 0 -> <<Cardinality(DOMAIN values)>>
       [] OTHER -> [b \in 1 .. n |-> Cardinality({i \in DOMAIN values : Bucket(values[i]) = b - 1})]

-----------------------------------------------------------------------------
(* effectiveness.ts                                                         *)

Hit(s) == Ratio(s.cacheRead, s.input + s.cacheRead + s.cacheCreation)
IsRated(s) == \E i \in DOMAIN s.turns : s.turns[i].rating # None
session_effectiveness(s) ==
  [hit |-> Hit(s), outIn |-> Ratio(s.output, s.input),
   rating |-> Thousandths(MeanOf(DOMAIN s.turns, LAMBDA i : s.turns[i].rating))]

ScoreOf(s, view, rates) ==
  EffectivenessScore(
    [outIn |-> view.outIn, hit |-> view.hit, rating |-> view.rating,
     density |-> Ratio(Cardinality(DOMAIN CorrectionPenalties(s.turns)), Len(s.turns)),
     errors |-> ErrorRate(CallsOf(s)),
     accept |-> IF s.id \in DOMAIN rates THEN Thousandths(rates[s.id]) ELSE None])
ScoresWith(rates, rows) == [s \in rows |-> ScoreOf(s, session_effectiveness(s), rates)]
GetSessionScores(db, days) ==
  ScoresWith(GetAcceptRatesBySession(db, days), StartedSince(db.sessions, db.now, days))
GetSessionScoreDistribution(db, days) ==
  LET scores == GetSessionScores(db, days)
  IN [b \in 0 .. 4 |-> Cardinality({s \in DOMAIN scores : Min({4, scores[s] \div 2000}) = b})]
GetEffectivenessKpis(db, days) ==
  LET rows == StartedSince(db.sessions, db.now, days)
      scores == GetSessionScores(db, days)
  IN [avgScore |-> MeanOf(rows, LAMBDA s : scores[s]), avgCacheHitRatio |-> MeanOf(rows, Hit),
      avgOutputInputRatio |-> Ratio(Total(rows, LAMBDA s : s.output), Total(rows, LAMBDA s : s.input)),
      ratedSessionCount |-> Cardinality({s \in rows : IsRated(s)})]
GetWeeklyRatio(db, weeks) ==
  LET In(w) == {s \in StartedSince(db.sessions, db.now, 7 * weeks) : WeekOf(s.startedAt) = w}
      Input(w) == Total(In(w), LAMBDA s : s.input)
  IN [w \in {WeekOf(s.startedAt) : s \in {x \in db.sessions : Input(WeekOf(x.startedAt)) > 0}} |->
        Ratio(Total(In(w), LAMBDA s : s.output), Input(w))]
GetCostPerTurnValues(db, days) ==
  [s \in {r \in StartedSince(db.sessions, db.now, days) : r.turnCount > 0} |->
     EFFECTIVE_COST_EXPR(db, s) \div s.turnCount]

WindowCalls(db, days) == UNION {CallsOf(s) : s \in StartedSince(db.sessions, db.now, days)}
LeaderboardRow(calls, tool) ==
  LET own == CallsTo(calls, {tool})
  IN [tool |-> tool, calls |-> Cardinality(own), errors |-> Errors(own)]
LeaderboardRows(calls) == {LeaderboardRow(calls, tool) : tool \in {c.tool : c \in calls}}
GetToolLeaderboard(db, days, limit) ==
  FirstRows(LeaderboardRows(WindowCalls(db, days)), limit, LAMBDA r : r.calls)

(* tool-trend.ts: weeks without a rate for any of the tools are left out.      *)
MIN_CALLS_PER_BUCKET == 5
BuildTrend(rows, topN) ==
  LET totals == {[tool |-> t, calls |-> Total({r \in rows : r.tool = t}, LAMBDA r : r.calls)] :
                   t \in {r.tool : r \in rows}}
      tools == {r.tool : r \in FirstRows(totals, Max({1, topN}), LAMBDA r : r.calls)}
      In(w) == {r \in rows : r.week = w /\ r.tool \in tools}
      Shown(r) == r.calls >= MIN_CALLS_PER_BUCKET
      weeks == {w \in {r.week : r \in rows} : \E r \in In(w) : Shown(r)}
      RateOf(r) == IF Shown(r) THEN Clip(Ratio(r.errors, r.calls), 0, 1000) ELSE None
  IN [tools |-> tools,
      points |-> [w \in weeks |-> {[tool |-> r.tool, rate |-> RateOf(r), calls |-> r.calls] :
                                     r \in In(w)}]]
GetToolErrorTrend(db, days, topN) ==
  LET rows == StartedSince(db.sessions, db.now, days)
      Calls(w) == UNION {CallsOf(s) : s \in {r \in rows : WeekOf(r.startedAt) = w}}
      Row(w, r) == [week |-> w, tool |-> r.tool, calls |-> r.calls, errors |-> r.errors]
  IN BuildTrend(UNION {{Row(w, r) : r \in LeaderboardRows(Calls(w))} :
                         w \in {WeekOf(s.startedAt) : s \in rows}}, Clip(topN, 1, 10))

(* model.ts: turns that cost nothing have no family. *)
DeriveModelFamily(model) == IF model \in CalibrationFamilies THEN model ELSE "other"
GetModelBreakdown(db, days) ==
  LET rows == StartedSince(db.sessions, db.now, days)
      TurnAt(p) == p[1].turns[p[2]]
      Turns(f) == {p \in UNION {{<<r, k>> : k \in DOMAIN r.turns} : r \in rows} :
                     TurnAt(p).cost > 0 /\ DeriveModelFamily(TurnAt(p).model) = f}
      Cost(f) == Total(Turns(f), LAMBDA p : TurnAt(p).cost)
  IN [f \in {g \in CalibrationFamilies \cup {"other"} : Cost(g) > 0} |-> Cost(f)]

GetSubagentUsage(db, days) ==
  LET recent == StartedSince(db.sessions, db.now, days)
      agents == {s \in recent : CallsTo(CallsOf(s), {SUBAGENT_TOOL_NAME}) # {}}
      Tokens(s) == s.input + s.output + s.cacheCreation
  IN [sessionsTotal |-> Cardinality(recent), sessionsWithAgent |-> Cardinality(agents),
      tokensTotal |-> Total(recent, Tokens), tokensFromAgentSessions |-> Total(agents, Tokens)]
(* subagent.ts: None is the main agent. *)
GetSubagentBreakdown(s) ==
  LET Of(type) == {i \in DOMAIN s.turns : s.turns[i].subagent = type}
      Cost(type) == Total(Of(type), LAMBDA i : s.turns[i].cost)
      types == {s.turns[i].subagent : i \in DOMAIN s.turns}
      total == Total(types, Cost)
  IN IF total = 0 THEN {}
     ELSE {[type |-> t, turns |-> Cardinality(Of(t)), cost |-> Cost(t), pct |-> Ratio(Cost(t), total)] :
             t \in types}

(* overview.ts: the worst first, of one score by id. *)
GetTopSessionsByScore(db, limit, days) ==
  LET scores == GetSessionScores(db, days)
      Worse(s) == {t \in DOMAIN scores : scores[t] < scores[s] \/ (scores[t] = scores[s] /\ t.id < s.id)}
  IN Items(db, {s \in DOMAIN scores : Cardinality(Worse(s)) < limit})

-----------------------------------------------------------------------------
(* effectiveness-v2.ts                                                      *)

TokensUntilFirstEdit(s) ==
  LET edits == {i \in DOMAIN s.turns : CallsTo(Range(s.turns[i].calls), EditTools) # {}}
  IN IF edits = {} THEN None
     ELSE Total({i \in DOMAIN s.turns : i < Min(edits)}, LAMBDA i : s.turns[i].tokens)
ReadsOf(calls, path) == Cardinality({c \in CallsTo(calls, {"Read"}) : c.path = path})
RereadCount(calls) ==
  LET paths == {c.path : c \in CallsTo(calls, {"Read"})} \ {None}
  IN Total({p \in paths : ReadsOf(calls, p) > 1}, LAMBDA p : ReadsOf(calls, p) - 1)
ReadsToEdits(calls) ==
  Ratio(Cardinality(CallsTo(calls, {"Read"})), Cardinality(CallsTo(calls, EditTools)))
GetPersonalEffectivenessSession(s) ==
  [tokensUntilFirstEdit |-> TokensUntilFirstEdit(s), rereadCount |-> RereadCount(CallsOf(s)),
   toolErrorRate |-> ErrorRate(CallsOf(s)), readsToEditsRatio |-> ReadsToEdits(CallsOf(s)),
   compactionEventCount |-> s.compactions,
   subagentUsageRatio |->
     Ratio(Cardinality({i \in DOMAIN s.turns : s.turns[i].subagent # None}), s.turnCount)]

(* One statement for all sessions, from the calls of all of them: a session    *)
(* without calls has no row of its own and counts with zeros.               *)
AggregateMetricsForSessions(rows) ==
  LET calls == UNION {{[session |-> s.id, call |-> c] : c \in CallsOf(s)} : s \in rows}
      reads == {x \in calls : x.call.tool = "Read" /\ x.call.path # None}
      groups == {[session |-> x.session, path |-> x.call.path,
                  reads |-> Cardinality({y \in reads : y.session = x.session
                                                         /\ y.call.path = x.call.path})] : x \in reads}
      Count(id, P(_)) == Cardinality({x \in calls : x.session = id /\ P(x.call)})
  IN [id \in {s.id : s \in rows} |->
        [rereadCount |-> Total({g \in groups : g.session = id /\ g.reads > 1},
                               LAMBDA g : g.reads - 1),
         reads |-> Count(id, LAMBDA c : c.tool = "Read"),
         edits |-> Count(id, LAMBDA c : c.tool \in EditTools),
         errors |-> Count(id, LAMBDA c : c.error), total |-> Count(id, LAMBDA c : TRUE)]]
GetPersonalEffectivenessAggregates(db, days) ==
  LET rows == StartedSince(db.sessions, db.now, days)
      agg == AggregateMetricsForSessions(rows)
  IN [avgRereadCount |-> MeanOf(rows, LAMBDA s : agg[s.id].rereadCount),
      avgTokensUntilFirstEdit |-> MeanOf(rows, TokensUntilFirstEdit),
      avgReadsToEditsRatio |-> MeanOf(rows, LAMBDA s : Ratio(agg[s.id].reads, agg[s.id].edits)),
      avgToolErrorRate |-> MeanOf(rows, LAMBDA s : Ratio(agg[s.id].errors, agg[s.id].total)),
      sessionsWithCompaction |-> Cardinality({s \in rows : s.compactions > 0}),
      totalSessions |-> Cardinality(rows)]

(* The model most of a session's cost is of. *)
DominantModel(s) ==
  LET Cost(m) == Total({i \in DOMAIN s.turns : s.turns[i].model = m}, LAMBDA i : s.turns[i].cost)
      models == {s.turns[i].model : i \in DOMAIN s.turns}
  IN IF models = {} THEN None ELSE CHOOSE m \in models : \A o \in models : Cost(m) >= Cost(o)
GetCostRatingScatter(db, days) ==
  LET calibration == GetCostCalibration(db.calibration)
  IN {[id |-> s.id, rating |-> session_effectiveness(s).rating,
       cost |-> EffectiveCost([s EXCEPT !.model = DominantModel(s)], calibration).value] :
        s \in {r \in StartedSince(db.sessions, db.now, days) : IsRated(r)}}

ComputeAvgMetrics(rows) ==
  [avgCacheHitRatio |-> MeanOf(rows, Hit), avgTokensUntilFirstEdit |-> MeanOf(rows, TokensUntilFirstEdit),
   avgReadsToEditsRatio |-> MeanOf(rows, LAMBDA s : ReadsToEdits(CallsOf(s))),
   avgToolErrorRate |-> MeanOf(rows, LAMBDA s : ErrorRate(CallsOf(s))),
   sampleSize |-> Cardinality(rows)]
(* In the order of the sort, which keeps that of the query: the dearest first. *)
QuartersOf(db, scores) ==
  LET rows == DOMAIN scores
      n == Cardinality(rows)
      size == Max({1, n \div 4})
      Dearer(t, s) == EFFECTIVE_COST_EXPR(db, t) > EFFECTIVE_COST_EXPR(db, s)
                        \/ (EFFECTIVE_COST_EXPR(db, t) = EFFECTIVE_COST_EXPR(db, s) /\ t.id < s.id)
      Place(s) == Cardinality({t \in rows : scores[t] < scores[s]
                                              \/ (scores[t] = scores[s] /\ Dearer(t, s))})
  IN [bottom |-> {s \in rows : Place(s) < size}, top |-> {s \in rows : Place(s) >= n - size}]
Quartiles(db, days) == QuartersOf(db, GetSessionScores(db, days))
GetQuartileComparison(db, days) ==
  IF Cardinality(StartedSince(db.sessions, db.now, days)) < 4 THEN None
  ELSE [topQuartile |-> ComputeAvgMetrics(Quartiles(db, days).top),
        bottomQuartile |-> ComputeAvgMetrics(Quartiles(db, days).bottom)]

(* Twice the median of the rows that have a value. *)
ComputeMedian(value) ==
  LET known == {r \in DOMAIN value : value[r] # None}
      n == Cardinality(known)
      Below(v) == Cardinality({r \in known : value[r] < v})
      UpTo(v) == Cardinality({r \in known : value[r] <= v})
      At(k) == CHOOSE v \in {value[r] : r \in known} : Below(v) <= k /\ k < UpTo(v)
  IN IF known = {} THEN None
     ELSE IF n % 2 = 1 THEN 2 * At(n \div 2) ELSE At(n \div 2 - 1) + At(n \div 2)
MIN_FUNNEL_SESSIONS == 5
LOW_TOOL_ERROR_RATE_THRESHOLD == 100
GetEffectivenessFunnel(db, days) ==
  LET rows == StartedSince(db.sessions, db.now, days)
      withEdit == {s \in rows : CallsTo(CallsOf(s), EditTools) # {}}
      median == ComputeMedian([s \in withEdit |-> Hit(s)])
      cached == {s \in withEdit : median # None /\ Hit(s) # None /\ 2 * Hit(s) >= median}
      few == {s \in cached : ErrorRate(CallsOf(s)) # None
                               /\ ErrorRate(CallsOf(s)) < LOW_TOOL_ERROR_RATE_THRESHOLD}
  IN IF Cardinality(rows) < MIN_FUNNEL_SESSIONS THEN <<>>
     ELSE <<Cardinality(rows), Cardinality(withEdit), Cardinality(cached), Cardinality(few)>>
GetDailyEffectivenessHeatmap(db, days) ==
  LET scores == GetSessionScores(db, days)
      On(d) == {s \in DOMAIN scores : LocalDay(s.startedAt) = d}
  IN [d \in LastDays(db.now, days) |->
        [score |-> MeanOf(On(d), LAMBDA s : scores[s]), sessionCount |-> Cardinality(On(d))]]
EffectivenessLevelFor(score) ==
  IF score = None THEN 0 ELSE 1 + Cardinality({t \in {25, 50, 75} : score.num >= 100 * t * score.den})

-----------------------------------------------------------------------------
(* heatmap.ts, activity-heatmap.tsx: points maps consecutive days to what was  *)
(* spent; a week begins on the day 0 of seven.                              *)

ComputeLevels(spends) ==
  LET max == Max(Range(spends) \cup {0})
  IN [d \in DOMAIN spends |->
        IF max = 0 \/ spends[d] = 0 THEN 0 ELSE Min({4, (4 * spends[d] + max - 1) \div max})]
ArrangeWeeks(points) ==
  LET start == Min(DOMAIN points)
      end == Max(DOMAIN points)
      first == start - (start % 7)
  IN IF DOMAIN points = {} THEN <<>>
     ELSE [w \in 1 .. ((end - (end % 7) - first) \div 7) + 1 |->
             [row \in 1 .. 7 |-> LET d == first + 7 * (w - 1) + row - 1
                                 IN IF d \in start .. end THEN d ELSE None]]
Cells(week) == {week[row] : row \in 1 .. 7} \ {None}
ActivityHeatmap(points) ==
  LET weeks == ArrangeWeeks(points)
      trim == Cardinality(Cells(weeks[1])) <= 1 /\ Len(weeks) > 1
  IN IF \A d \in DOMAIN points : points[d] = 0 THEN <<>>
     ELSE SubSeq(weeks, IF trim THEN 2 ELSE 1, Len(weeks))

(* regression.ts, over a function from places to points: numerators over the   *)
(* square of their number.                                                  *)
LinearRegression(points) ==
  LET n == Cardinality(DOMAIN points)
      Sum(Term(_)) == Total(DOMAIN points, LAMBDA i : Term(points[i]))
      sx == Sum(LAMBDA p : p.x)
      sy == Sum(LAMBDA p : p.y)
      sxx == n * Sum(LAMBDA p : p.x * p.x) - sx * sx
      sxy == n * Sum(LAMBDA p : p.x * p.y) - sx * sy
      syy == n * Sum(LAMBDA p : p.y * p.y) - sy * sy
  IN IF n < 3 \/ sxx = 0 THEN None
     ELSE [slope |-> [num |-> sxy, den |-> sxx],
           intercept |-> [num |-> sy * sxx - sxy * sx, den |-> n * sxx],
           r2 |-> IF syy = 0 THEN [num |-> 1, den |-> 1] ELSE [num |-> sxy * sxy, den |-> sxx * syy]]

-----------------------------------------------------------------------------
(* The pages.                                                               *)

Home(db) ==
  LET days == GetDailySpend(db, 365)
  IN [hasData |-> GetOverviewKpis(db).sessionCount30d > 0,
      kpis |-> GetEffectivenessKpis(db, 30), distribution |-> GetSessionScoreDistribution(db, 30),
      heatmap |-> ActivityHeatmap([d \in DOMAIN days |-> days[d].spend]),
      top |-> [cost |-> GetTopSessions(db, 10, 30), score |-> GetTopSessionsByScore(db, 10, 30),
               turns |-> GetTopSessionsByTurns(db, 10, 30)],
      costPerTurn |-> GetCostPerTurnValues(db, 30), models |-> GetModelBreakdown(db, 30)]
EffectivenessPage(db) ==
  LET days == GetDailyEffectivenessHeatmap(db, 365)
  IN [hasData |-> GetPersonalEffectivenessAggregates(db, 30).totalSessions > 0,
      kpis |-> GetEffectivenessKpis(db, 30), distribution |-> GetSessionScoreDistribution(db, 30),
      heatmap |-> ActivityHeatmap([d \in DOMAIN days |-> IF days[d].sessionCount > 0 THEN 1 ELSE 0]),
      funnel |-> GetEffectivenessFunnel(db, 30), quartiles |-> GetQuartileComparison(db, 30),
      scatter |-> GetCostRatingScatter(db, 30)]

-----------------------------------------------------------------------------
(* What the views are given.                                                *)

(* The turns of a session and their calls are sequences; what a turn is of was  *)
(* taken from its calls.                                                     *)
TurnsFit(db) ==
  \A s \in db.sessions :
    /\ DOMAIN s.turns = 1 .. s.turnCount /\ Len(s.turns) = s.turnCount
    /\ \A i \in DOMAIN s.turns :
         /\ s.turns[i].cost \in Nat /\ s.turns[i].tokens \in Nat
         /\ s.turns[i].rating \in Int \cup {None}
         /\ Len(s.turns[i].calls) \in Nat /\ DOMAIN s.turns[i].calls = 1 .. Len(s.turns[i].calls)
         /\ s.turns[i].subagent = ExtractSubagentType(s.turns[i].calls)
(* A row has the columns it has. *)
RowsAreRecords(db) == \A s \in db.sessions : s = [k \in DOMAIN s |-> s[k]]
(* The calls of no more than ten tools are all on the board. *)
FewTools(db) == Cardinality(LeaderboardRows(WindowCalls(db, 30))) <= 10
SignalsFit(input) == input \in [Signals -> Int \cup {None}]
PointsFit(points) ==
  IsFiniteSet(DOMAIN points) /\ \A i \in DOMAIN points : points[i].x \in Int /\ points[i].y \in Int
(* A number spent on each of consecutive days. *)
DaysFit(points) ==
  /\ \A d \in DOMAIN points : d \in Nat /\ points[d] \in Nat
  /\ DOMAIN points # {} => \E a, b \in DOMAIN points : DOMAIN points = a .. b

-----------------------------------------------------------------------------
(* How the views fit together.                                              *)

(* A score is of 0 to 100 points, and no signal is better for being worse. *)
ScoresAreSound(input) ==
  LET Better(k) == IF k \in {"density", "errors"} THEN input[k] - 500 ELSE input[k] + 500
      Sound(score) ==
        /\ score \in 0 .. 10000
        /\ \A k \in Signals : input[k] # None =>
             EffectivenessScore([input EXCEPT ![k] = Better(k)]) >= score
  IN Sound(EffectivenessScore(input))

(* The statement for all sessions gives the means of what each session's page  *)
(* says, and the quarters are means of the same.                            *)
AggregatesAreMeans(db) ==
  LET rows == StartedSince(db.sessions, db.now, 30)
      all == GetPersonalEffectivenessAggregates(db, 30)
      Own(s) == GetPersonalEffectivenessSession(s)
  IN /\ all.avgRereadCount = MeanOf(rows, LAMBDA s : Own(s).rereadCount)
     /\ all.avgTokensUntilFirstEdit = MeanOf(rows, LAMBDA s : Own(s).tokensUntilFirstEdit)
     /\ all.avgReadsToEditsRatio = MeanOf(rows, LAMBDA s : Own(s).readsToEditsRatio)
     /\ all.avgToolErrorRate = MeanOf(rows, LAMBDA s : Own(s).toolErrorRate)

(* The quarters of a window do not meet, and none of the better one scores     *)
(* less than one of the worse; the list of the worst agrees.                *)
QuartilesApart(db) ==
  LET Apart(scores, q) ==
        Cardinality(DOMAIN scores) >= 4 =>
          /\ q.top \cap q.bottom = {} /\ Cardinality(q.top) = Cardinality(q.bottom)
          /\ \A t \in q.top, b \in q.bottom : scores[t] >= scores[b]
          /\ LET worst == {i.id : i \in GetTopSessionsByScore(db, Cardinality(q.bottom), 30)}
             IN \A b \in q.bottom, s \in DOMAIN scores : scores[s] < scores[b] => s.id \in worst
  IN Apart(GetSessionScores(db, 30), Quartiles(db, 30))

(* The charts of a window are about the same sessions: the distribution holds   *)
(* each once, a stage of the funnel is part of the one before, and the days of  *)
(* the heatmap hold them all but those of a day cut in two.                  *)
ChartsAddUp(db) ==
  LET rows == StartedSince(db.sessions, db.now, 30)
      cut == {s \in rows : LocalDay(s.startedAt) = LocalDay(db.now) - 30}
      AddUp(page, days, values) ==
        /\ page.hasData = Home(db).hasData
        /\ SumOver(page.distribution) = Cardinality(rows)
        /\ page.kpis.ratedSessionCount = Cardinality(page.scatter)
        /\ \A i \in DOMAIN page.funnel, j \in DOMAIN page.funnel :
             i <= j => page.funnel[i] >= page.funnel[j]
        /\ Total(DOMAIN days, LAMBDA d : days[d].sessionCount) + Cardinality(cut)
             = Cardinality(rows)
        /\ \A d \in DOMAIN days :
             (days[d].sessionCount = 0) = (EffectivenessLevelFor(days[d].score) = 0)
        /\ SumOver(BucketCostPerTurn(values, 8)) = Cardinality(DOMAIN values)
  IN AddUp(EffectivenessPage(db), GetDailyEffectivenessHeatmap(db, 30), GetCostPerTurnValues(db, 30))

(* Shares are shares of the same cost: families of models, types of agents, and *)
(* the list price of the sessions they are of.                               *)
SharesAddUp(db) ==
  LET rows == StartedSince(db.sessions, db.now, 30)
      Costs(s) == Total(DOMAIN s.turns, LAMBDA i : s.turns[i].cost)
      Shares(s) == GetSubagentBreakdown(s)
  IN /\ SumOver(GetModelBreakdown(db, 30)) = Total(rows, Costs)
     /\ \A s \in rows : Shares(s) # {} =>
          /\ Total(Shares(s), LAMBDA r : r.cost) = Costs(s)
          /\ Total(Shares(s), LAMBDA r : r.turns) = s.turnCount
          /\ Total(Shares(s), LAMBDA r : r.pct) \in 1001 - Cardinality(Shares(s)) .. 1000
     /\ Cardinality({s \in rows : GetPersonalEffectivenessSession(s).subagentUsageRatio
                                    \notin {None, 0}})
          <= GetSubagentUsage(db, 30).sessionsWithAgent
     /\ \A p \in GetCostRatingScatter(db, 30), s \in rows :
          p.id = s.id /\ s.model = DominantModel(s) => p.cost = EffectiveCostFor(db, s)

(* A tool of the chart is one of the leaderboard, its rates are at most one, and *)
(* a week is shown only if some tool was called often enough in it.          *)
TrendsAreRates(db) ==
  LET trend == GetToolErrorTrend(db, 30, 2)
      board == GetToolLeaderboard(db, 30, 10)
  IN /\ \A t \in trend.tools : \E r \in board : r.tool = t
     /\ \A w \in DOMAIN trend.points :
          /\ \A p \in trend.points[w] : p.rate # None => p.rate \in 0 .. 1000
          /\ \E p \in trend.points[w] : p.rate # None
     /\ \A r \in board : r.errors <= r.calls
     /\ Cardinality(WindowCalls(db, 30)) = Total(board, LAMBDA r : r.calls)

(* Every day of the window is a cell, in order and once, but for the day that    *)
(* is a week of its own at the start; the most expensive is of the last level.  *)
HeatmapCoversDays(points) ==
  LET weeks == ActivityHeatmap(points)
      shown == UNION {Cells(weeks[w]) : w \in DOMAIN weeks}
      levels == ComputeLevels(points)
  IN /\ weeks # <<>> =>
          DOMAIN points \ shown \in {{}, {Min(DOMAIN points)}} /\ shown \subseteq DOMAIN points
     /\ Total(DOMAIN weeks, LAMBDA w : Cardinality(Cells(weeks[w]))) = Cardinality(shown)
     /\ \A w \in DOMAIN weeks, row \in 1 .. 7 : weeks[w][row] # None => weeks[w][row] % 7 = row - 1
     /\ \A d \in DOMAIN points : (levels[d] = 0) = (points[d] = 0)
     /\ (weeks # <<>>) = (\E d \in DOMAIN points : levels[d] = 4)

(* A fit explains between nothing and all of what varies, and passes through     *)
(* points that are on one line.                                              *)
FitIsSound(points) ==
  LET fit == LinearRegression(points)
      Exact(p) == p.y * fit.slope.den * fit.intercept.den =
                    fit.slope.num * p.x * fit.intercept.den + fit.intercept.num * fit.slope.den
  IN fit # None => /\ fit.r2.num \in 0 .. fit.r2.den
                   /\ (fit.r2.num = fit.r2.den) = (\A i \in DOMAIN points : Exact(points[i]))
=============================================================================
