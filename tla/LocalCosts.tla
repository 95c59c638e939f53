------------------------------ MODULE LocalCosts ------------------------------
(***************************************************************************)
(* What the local dashboard says of costs: list prices                     *)
(* (lib/analytics/pricing.ts), the effective cost of a session as its SQL  *)
(* has it, the overview (lib/queries/overview.ts), the lists of sessions   *)
(* and their pages (lib/queries/session.ts, lib/analytics/pagination.ts),  *)
(* what OTEL counted (lib/queries/otel.ts), what the sessions came to       *)
(* (lib/queries/outcomes.ts), and the repair of costs                      *)
(* (scripts/recompute-costs.ts).                                           *)
(*                                                                         *)
(* A query reads one snapshot db of the database at the instant db.now.    *)
(* Instants are half days, so that a window of days may cut a day in two.  *)
(* Costs are cents, those shown hundredths of a cent; rows of equal rank   *)
(* are told apart by their id.                                             *)
(***************************************************************************)
EXTENDS CostCalibration, Functions, Sequences

LocalDay(t) == t \div 2
StartedSince(rows, now, days) == {s \in rows : s.startedAt >= now - 2 * days}
(* Mutant of LastDays: a day too few. *)
LastDaysFewer(now, days) == (LocalDay(now) - days + 2) .. LocalDay(now)
LastDays(now, days) == (LocalDay(now) - days + 1) .. LocalDay(now)

-----------------------------------------------------------------------------
(* pricing.ts, in hundredths of a millionth of a dollar for a token.         *)

Opus == [input |-> 1500, output |-> 7500, read |-> 150, write5m |-> 1875, write1h |-> 3000]
Sonnet == [input |-> 300, output |-> 1500, read |-> 30, write5m |-> 375, write1h |-> 600]
Haiku == [input |-> 100, output |-> 500, read |-> 10, write5m |-> 125, write1h |-> 200]
Claude5 == [input |-> 1000, output |-> 5000, read |-> 100, write5m |-> 1250, write1h |-> 2000]
FamilyPricing == [opus |-> Opus, sonnet |-> Sonnet, haiku |-> Haiku, fable |-> Claude5,
                  mythos |-> Claude5]
GetPricing(model) == IF model \in DOMAIN FamilyPricing THEN FamilyPricing[model] ELSE None

(* None is a field the caller did not give. *)
CacheWrites(t) ==
  LET Or0(n) == IF n = None THEN 0 ELSE n
  IN IF t.write5m = None /\ t.write1h = None
       THEN [short |-> Or0(t.write), long |-> 0]
       ELSE [short |-> Or0(t.write5m), long |-> Or0(t.write1h)]
Rounded(hundredths) == (hundredths + 50) \div 100
ComputeCost(t) ==
  LET price == GetPricing(t.model)
      writes == CacheWrites(t)
      raw == t.input * price.input + t.output * price.output + t.read * price.read
               + writes.short * price.write5m + writes.long * price.write1h
  IN IF price = None THEN 0 ELSE Rounded(IF t.tier = "batch" THEN raw \div 2 ELSE raw)

(* What the parser keeps of the cache writes a transcript tells: the split, or  *)
(* the total as short ones, or nothing (parser.ts).                          *)
ParsedWrites(usage) ==
  CASE usage.split # None -> usage.split
    [] usage.split = None /\ usage.legacy # None -> [short |-> usage.legacy, long |-> 0]
    [] OTHER -> [short |-> 0, long |-> 0]
TurnOf(usage) ==
  LET writes == ParsedWrites(usage)
  IN [model |-> usage.model, input |-> usage.input, output |-> usage.output, read |-> usage.read,
      write5m |-> writes.short, write1h |-> writes.long, write |-> writes.short + writes.long,
      tier |-> usage.tier]

(* What an ingest charges for a turn, and a repair for its row: the repair of a *)
(* row from before the split takes the total, and none looks at the tier.     *)
IngestedCost(t) == ComputeCost([t EXCEPT !.write = None])
RepairedCost(t) ==
  LET split == t.write5m > 0 \/ t.write1h > 0
  IN ComputeCost([t EXCEPT !.tier = "standard", !.write = IF split THEN None ELSE @,
                           !.write5m = IF split THEN @ ELSE None,
                           !.write1h = IF split THEN @ ELSE None])

-----------------------------------------------------------------------------
(* The cost of a session in the SQL of the local queries: any OTEL value       *)
(* counts, and of the calibration only the global row.                       *)

GetCostCalibration(table) == [f \in DOMAIN table \cap FAMILY_KEYS |-> table[f]]
RecomputeCostCalibration(sessions) == RecomputePerUserCalibration(sessions)

EFFECTIVE_COST_EXPR(db, s) ==
  CASE s.otelCost # None -> 100 * s.otelCost
    [] s.otelCost = None /\ "global" \in DOMAIN db.calibration ->
         (100 * s.cost * db.calibration["global"].otel) \div db.calibration["global"].local
    [] OTHER -> ListPrice(s)
COST_SOURCE_EXPR(db, s) ==
  CASE s.otelCost # None -> "otel"
    [] s.otelCost = None /\ "global" \in DOMAIN db.calibration -> "calibrated"
    [] OTHER -> "list"

-----------------------------------------------------------------------------
(* overview.ts                                                              *)

TokensOf(s) == s.input + s.output + s.cacheRead + s.cacheCreation
Spend(db, rows) == Total(rows, LAMBDA s : EFFECTIVE_COST_EXPR(db, s))

GetTokenBreakdown(db, days) ==
  LET rows == StartedSince(db.sessions, db.now, days)
      inOut == Total(rows, LAMBDA s : s.input + s.output)
      creation == Total(rows, LAMBDA s : s.cacheCreation)
      read == Total(rows, LAMBDA s : s.cacheRead)
  IN [inputOutput |-> inOut, cacheCreation |-> creation, cacheRead |-> read,
      total |-> inOut + creation + read]
(* A ratio is [num, den]; the code's value of one over nothing is 0. *)
GetOverviewKpis(db) ==
  LET rows30 == StartedSince(db.sessions, db.now, 30)
      today == {s \in db.sessions : s.startedAt >= 2 * LocalDay(db.now)}
  IN [spend30d |-> Spend(db, rows30), spendToday |-> Spend(db, today),
      spend7d |-> Spend(db, StartedSince(db.sessions, db.now, 7)),
      tokens30d |-> Total(rows30, TokensOf),
      cacheHitRatio30d |-> [num |-> Total(rows30, LAMBDA s : s.cacheRead),
                            den |-> Total(rows30, LAMBDA s : s.input + s.cacheRead + s.cacheCreation)],
      sessionCount30d |-> Cardinality(rows30),
      sources |-> [k \in {"otel", "calibrated", "list"} |->
                     Cardinality({s \in rows30 : COST_SOURCE_EXPR(db, s) = k})]]
GetDailySpend(db, days) ==
  LET On(d) == {s \in StartedSince(db.sessions, db.now, days) : LocalDay(s.startedAt) = d}
  IN [d \in LastDays(db.now, days) |->
        [spend |-> Spend(db, On(d)), tokens |-> Total(On(d), TokensOf),
         sessionCount |-> Cardinality(On(d))]]

(* What every list shows of a session. *)
Item(db, s) == [id |-> s.id, cost |-> EFFECTIVE_COST_EXPR(db, s), turnCount |-> s.turnCount,
                source |-> COST_SOURCE_EXPR(db, s)]
Items(db, rows) == {Item(db, s) : s \in rows}
GetTopSessions(db, limit, days) ==
  Items(db, FirstRows(StartedSince(db.sessions, db.now, days), limit,
                      LAMBDA s : EFFECTIVE_COST_EXPR(db, s)))
GetTopSessionsByTurns(db, limit, days) ==
  Items(db, FirstRows(StartedSince(db.sessions, db.now, days), limit, LAMBDA s : s.turnCount))

-----------------------------------------------------------------------------
(* session.ts, pagination.ts, app/sessions/page.tsx                          *)

Earlier(s, t) == s.startedAt < t.startedAt \/ (s.startedAt = t.startedAt /\ s.id < t.id)
PageOf(rows, offset, limit) ==
  {s \in rows : Cardinality({t \in rows : Earlier(s, t)}) \in offset .. (offset + limit - 1)}
OnDay(rows, d) == {s \in rows : s.startedAt >= 2 * d /\ s.startedAt < 2 * (d + 1)}

GetSession(db, id) ==
  IF \E s \in db.sessions : s.id = id
    THEN Item(db, CHOOSE s \in db.sessions : s.id = id) ELSE None
ListSessions(db, offset, limit) == Items(db, PageOf(db.sessions, offset, limit))
ListSessionsByDate(db, d, offset, limit) ==
  Items(db, PageOf(OnDay(db.sessions, d), offset, limit))

MaxOffset == 10000
ComputePagination(raw, total, pageSize) ==
  LET offset == IF raw \in 0 .. MaxOffset THEN raw ELSE 0
      end == Min({offset + pageSize, total})
      none == [offset |-> offset, hasPrev |-> FALSE, hasNext |-> FALSE, rangeStart |-> 0,
               rangeEnd |-> 0, overflow |-> FALSE]
  IN CASE total = 0 -> none
       [] total > 0 /\ offset >= total -> [none EXCEPT !.hasPrev = TRUE, !.overflow = TRUE]
       [] OTHER -> [none EXCEPT !.hasPrev = offset > 0, !.hasNext = end < total,
                                !.rangeStart = offset + 1, !.rangeEnd = end]

(* date is None when the query has none, and is no day when it does not parse. *)
SessionsPage(db, date, raw, pageSize) ==
  LET filtered == date # None /\ date \in Nat
      rows == IF filtered THEN OnDay(db.sessions, date) ELSE db.sessions
      p == ComputePagination(raw, Cardinality(rows), pageSize)
      List == IF filtered THEN ListSessionsByDate(db, date, p.offset, pageSize)
                          ELSE ListSessions(db, p.offset, pageSize)
  IN [items |-> IF p.overflow THEN {} ELSE List, total |-> Cardinality(rows), pagination |-> p]

-----------------------------------------------------------------------------
(* percent.ts: units of the last decimal shown, by largest remainder.        *)

DistributePercents(fractions, target) ==
  LET n == Len(fractions)
      sum == Total(1 .. n, LAMBDA i : fractions[i])
      Floor(i) == (fractions[i] * target) \div sum
      Rest(i) == (fractions[i] * target) % sum
      residue == target - Total(1 .. n, Floor)
      Before(i) == {j \in 1 .. n : Rest(j) > Rest(i) \/ (Rest(j) = Rest(i) /\ j < i)}
  IN [i \in 1 .. n |-> IF sum = 0 THEN 0
                       ELSE Floor(i) + (IF Cardinality(Before(i)) < residue THEN 1 ELSE 0)]

-----------------------------------------------------------------------------
(* otel.ts.  A scrape repeats a running count of a session and a label; what   *)
(* was counted is the greatest of them.                                      *)

SeriesOf(db, metric, id, label) ==
  {o.value : o \in {x \in db.scrapes : x.metric = metric /\ x.session = id /\ x.label = label}}
FinalValue(db, metric, id, label) ==
  LET values == SeriesOf(db, metric, id, label) IN IF values = {} THEN 0 ELSE Max(values)
(* The scalar metrics are not told apart by label. *)
FinalScalar(db, metric, id) ==
  LET values == {o.value : o \in {x \in db.scrapes : x.metric = metric /\ x.session = id}}
  IN IF values = {} THEN 0 ELSE Max(values)
Rate(accepts, rejects) ==
  IF accepts + rejects = 0 THEN None ELSE [num |-> accepts, den |-> accepts + rejects]

GetSessionOtelStats(db, id) ==
  LET accepts == FinalValue(db, "decision", id, "accept")
      rejects == FinalValue(db, "decision", id, "reject")
  IN [accepts |-> accepts, rejects |-> rejects, acceptRate |-> Rate(accepts, rejects),
      linesAdded |-> FinalValue(db, "lines", id, "added"),
      linesRemoved |-> FinalValue(db, "lines", id, "removed"),
      activeSeconds |-> FinalScalar(db, "active", id), commits |-> FinalScalar(db, "commits", id)]
GetOtelInsights(db, days) ==
  LET rows == StartedSince(db.sessions, db.now, days)
      Labels(metric, label) == Total(rows, LAMBDA s : FinalValue(db, metric, s.id, label))
      Scalars(metric) == Total(rows, LAMBDA s : FinalScalar(db, metric, s.id))
      lines == Labels("lines", "added") + Labels("lines", "removed")
  IN [accepts |-> Labels("decision", "accept"), rejects |-> Labels("decision", "reject"),
      acceptRate |-> Rate(Labels("decision", "accept"), Labels("decision", "reject")),
      linesAdded |-> Labels("lines", "added"), linesRemoved |-> Labels("lines", "removed"),
      commits |-> Scalars("commits"), activeSeconds |-> Scalars("active"),
      costPerLineOfCode |-> IF lines = 0 THEN None
                            ELSE [num |-> Total(rows, ListPrice), den |-> lines]]
GetAcceptRatesBySession(db, days) ==
  LET rates == [id \in {s.id : s \in StartedSince(db.sessions, db.now, days)} |->
                  GetSessionOtelStats(db, id).acceptRate]
  IN [id \in {i \in DOMAIN rates : rates[i] # None} |-> rates[id]]
WeekOf(t) == LocalDay(t) \div 7
GetWeeklyAcceptRate(db, weeks) ==
  LET rows == StartedSince(db.sessions, db.now, 7 * weeks)
      In(w, label) == Total({s \in rows : WeekOf(s.startedAt) = w},
                            LAMBDA s : FinalValue(db, "decision", s.id, label))
      all == {WeekOf(s.startedAt) : s \in rows}
  IN [w \in {v \in all : In(v, "accept") + In(v, "reject") > 0} |->
        [accepts |-> In(w, "accept"), rejects |-> In(w, "reject")]]
GetOtelCostBySession(db) ==
  LET Models(id) == {o.label : o \in {x \in db.scrapes : x.metric = "cost" /\ x.session = id}}
      Cost(id) == Total(Models(id), LAMBDA m : FinalValue(db, "cost", id, m))
      ids == {o.session : o \in {x \in db.scrapes : x.metric = "cost"}} \ {None}
  IN [id \in {i \in ids : Cost(i) > 0} |-> Cost(id)]
(* overview.ts:315 adds up the samples of a day instead. *)
GetDailyAcceptRate(db, days) ==
  LET On(d, labels) ==
        Total({o \in db.scrapes : o.metric = "decision" /\ o.label \in labels
                 /\ o.scrapedAt >= db.now - 2 * days /\ LocalDay(o.scrapedAt) = d},
              LAMBDA o : o.value)
  IN [d \in LastDays(db.now, days) |-> Rate(On(d, {"accept"}), On(d, {"reject"}))]

-----------------------------------------------------------------------------
(* outcomes.ts: here a cost is the calibrated one of the shared package.      *)

JoinedInWindow(db, days) ==
  {s \in StartedSince(db.sessions, db.now, days) : \E o \in db.outcomes : o.session = s.id}
GetSessionOutcome(db, id) == CHOOSE o \in db.outcomes : o.session = id
EffectiveCostFor(db, s) == EffectiveCost(s, GetCostCalibration(db.calibration)).value
CostPer(db, days, column) ==
  LET rows == JoinedInWindow(db, days)
      output == Total(rows, LAMBDA s : GetSessionOutcome(db, s.id)[column])
  IN [totalCost |-> Total(rows, LAMBDA s : EffectiveCostFor(db, s)), output |-> output]
GetCostPerLoc(db, days) == CostPer(db, days, "added")
GetCostPerCommit(db, days) == CostPer(db, days, "commits")
GetRevertRate(db, days) ==
  LET With(P(_)) == Cardinality({s \in JoinedInWindow(db, days) : P(GetSessionOutcome(db, s.id))})
  IN [sessionsWithCommits |-> With(LAMBDA o : o.commits > 0),
      sessionsWithReverts |-> With(LAMBDA o : o.reverts > 0)]
GetHighCostNoOutputSessions(db, days, limit) ==
  FirstRows({s \in JoinedInWindow(db, days) : GetSessionOutcome(db, s.id).commits = 0}, limit,
            LAMBDA s : EffectiveCostFor(db, s))

-----------------------------------------------------------------------------
(* What the tables and the transcripts hold.                                 *)

LocalRow(s) ==
  /\ CostedRow(s) /\ s.id \in Int /\ s.startedAt \in Int /\ s.turnCount \in Nat
  /\ s.input \in Nat /\ s.output \in Nat /\ s.cacheRead \in Nat /\ s.cacheCreation \in Nat
LocalFits(db) ==
  /\ db.now \in Int /\ IsFiniteSet(db.sessions) /\ RatesFit(db.calibration)
  /\ \A s \in db.sessions : LocalRow(s) /\ s.startedAt <= db.now
  /\ \A s, t \in db.sessions : s.id = t.id => s = t
(* A scrape repeats counts that only grow. *)
ScrapesFit(db) ==
  /\ IsFiniteSet(db.scrapes) /\ \A o \in db.scrapes : o.value \in Nat /\ o.scrapedAt \in Int
  /\ \A o, x \in db.scrapes :
       /\ o.metric = x.metric /\ o.session = x.session /\ o.label = x.label
       /\ o.scrapedAt <= x.scrapedAt
       => o.value <= x.value
(* A session without commits has none that were reverted. *)
OutcomeRowsFit(db) ==
  \A o \in db.outcomes : /\ o.commits \in Nat /\ o.reverts \in Nat
                         /\ o.reverts > 0 => o.commits > 0
(* A transcript tells the cache writes of a turn split by life, in one number, or  *)
(* not at all.                                                               *)
CacheWriteSplit == [short : Nat, long : Nat]
Usage == [model : STRING, input : Nat, output : Nat, read : Nat,
          split : {None} \cup CacheWriteSplit, legacy : {None} \cup Nat, tier : {"standard", "batch"}]

-----------------------------------------------------------------------------
(* How the views fit together.                                              *)

(* A window of thirty days is a day shorter in the chart than in the total: the *)
(* sessions of the afternoon it starts in are in the one only.               *)
WindowsAddUp(db) ==
  LET view == GetOverviewKpis(db)
      days == GetDailySpend(db, 30)
      cut == {s \in StartedSince(db.sessions, db.now, 30) :
                LocalDay(s.startedAt) = LocalDay(db.now) - 30}
      Charted(Field(_)) == Total(DOMAIN days, LAMBDA d : Field(days[d]))
  IN /\ view.spend30d = Charted(LAMBDA p : p.spend) + Spend(db, cut)
     /\ view.sessionCount30d = Charted(LAMBDA p : p.sessionCount) + Cardinality(cut)
     /\ view.spendToday = days[LocalDay(db.now)].spend
     /\ view.spendToday <= view.spend7d /\ view.spend7d <= view.spend30d
     /\ view.tokens30d = GetTokenBreakdown(db, 30).total
     /\ view.tokens30d = Charted(LAMBDA p : p.tokens) + Total(cut, TokensOf)
     /\ view.cacheHitRatio30d.num <= view.cacheHitRatio30d.den
     /\ SumOver(view.sources) = view.sessionCount30d

(* A session costs the same on its page, in every list and in the totals of     *)
(* outcomes, but for an OTEL value of nothing, which only the SQL takes for a   *)
(* measure, and for a rate of its family, which the SQL does not know.        *)
CostsAgree(db) ==
  /\ \A item \in GetTopSessions(db, 3, 30) \cup GetTopSessionsByTurns(db, 3, 30) :
       item = GetSession(db, item.id)
  /\ \A s \in db.sessions :
       s.otelCost # 0 /\ s.model \notin DOMAIN db.calibration
         => EFFECTIVE_COST_EXPR(db, s) = EffectiveCostFor(db, s)
  /\ \A item \in GetTopSessions(db, 2, 30), s \in StartedSince(db.sessions, db.now, 30) :
       s.id \notin {i.id : i \in GetTopSessions(db, 2, 30)}
         => EFFECTIVE_COST_EXPR(db, s) <= item.cost

(* Following the links of the list shows every session once, on the day asked   *)
(* for when one is.                                                          *)
PagesCoverSessions(db, date, pageSize) ==
  LET rows == IF date = None THEN db.sessions ELSE OnDay(db.sessions, date)
      Page(n) == SessionsPage(db, date, n * pageSize, pageSize)
      last == (Cardinality(rows) - 1) \div pageSize
  IN /\ rows = {} => Page(0).items = {} /\ ~Page(0).pagination.hasNext
     /\ rows # {} =>
          /\ UNION {Page(n).items : n \in 0 .. last} = Items(db, rows)
          /\ \A n \in 0 .. last : Page(n).pagination.hasNext = (n < last)
          /\ \A n \in 0 .. last, k \in 0 .. last : n # k => Page(n).items \cap Page(k).items = {}
          /\ Page(last + 1).pagination.overflow

(* As long as an offset is one the page takes: a link past MaxOffset leads back *)
(* to the first page.                                                        *)
LinksReachAll(total, pageSize) ==
  \A n \in 0 .. (total - 1) \div pageSize :
    LET p == ComputePagination(n * pageSize, total, pageSize)
    IN p.rangeStart = (IF n * pageSize <= MaxOffset THEN n * pageSize ELSE 0) + 1

(* Percents add up to a hundred, none is further than a unit from what it        *)
(* stands for, and a larger part has no smaller one.                         *)
PercentsAddUp(fractions, target) ==
  LET shown == DistributePercents(fractions, target)
      sum == SumOver(fractions)
  IN sum > 0 =>
       /\ SumOver(shown) = target
       /\ \A i \in DOMAIN fractions :
            /\ shown[i] * sum < fractions[i] * target + sum
            /\ fractions[i] * target < shown[i] * sum + sum
            /\ \A j \in DOMAIN fractions : fractions[i] > fractions[j] => shown[i] >= shown[j]

(* What OTEL counted of a window is what it counted of its sessions, week by     *)
(* week or one by one, and of a session what its last sample says; samples of   *)
(* no known session count nowhere but in the chart of the day.               *)
OtelAddsUp(db) ==
  LET view == GetOtelInsights(db, 28)
      rows == StartedSince(db.sessions, db.now, 28)
      weeks == GetWeeklyAcceptRate(db, 4)
      Of(Field(_)) == Total(rows, LAMBDA s : Field(GetSessionOtelStats(db, s.id)))
  IN /\ view.accepts = Of(LAMBDA x : x.accepts) /\ view.rejects = Of(LAMBDA x : x.rejects)
     /\ view.linesAdded = Of(LAMBDA x : x.linesAdded) /\ view.commits = Of(LAMBDA x : x.commits)
     /\ view.accepts = Total(DOMAIN weeks, LAMBDA w : weeks[w].accepts)
     /\ view.rejects = Total(DOMAIN weeks, LAMBDA w : weeks[w].rejects)
     /\ (view.acceptRate = None) = (DOMAIN GetAcceptRatesBySession(db, 28) = {})
     /\ \A s \in rows : LET seen == {o \in db.scrapes : o.metric = "decision" /\ o.session = s.id
                                                           /\ o.label = "accept"}
                         last == {o.value : o \in {x \in seen : \A y \in seen : y.scrapedAt <= x.scrapedAt}}
                     IN last \subseteq {GetSessionOtelStats(db, s.id).accepts}

(* A running count scraped once is shown as it is; scraped again on its day it is *)
(* added to itself in the chart of the day, and nowhere else.                *)
ChartCountsSamples(db) ==
  LET once == \A o \in db.scrapes, x \in db.scrapes :
                (o.metric = "decision" /\ x.metric = "decision" /\ o # x)
                  => o.session # x.session \/ o.label # x.label
      known == \A o \in db.scrapes : o.metric = "decision" =>
                 \E s \in db.sessions : s.id = o.session /\ s.startedAt = o.scrapedAt
      chart == GetDailyAcceptRate(db, 30)
      Charted(d) == IF chart[d] = None THEN 0 ELSE chart[d].num
      cut == {s \in StartedSince(db.sessions, db.now, 30) :
                LocalDay(s.startedAt) = LocalDay(db.now) - 30}
      missed == Total(cut, LAMBDA s : GetSessionOtelStats(db, s.id).accepts)
  IN once /\ known =>
       Total(DOMAIN chart, Charted) + missed = GetOtelInsights(db, 30).accepts

(* The costs set against lines and against commits are those of the same         *)
(* sessions; a session without output is not among those with commits.        *)
OutcomesAddUp(db) ==
  LET loc == GetCostPerLoc(db, 30)
      commits == GetCostPerCommit(db, 30)
      reverts == GetRevertRate(db, 30)
      idle == GetHighCostNoOutputSessions(db, 30, Cardinality(db.sessions))
  IN /\ loc.totalCost = commits.totalCost
     /\ reverts.sessionsWithReverts <= reverts.sessionsWithCommits
     /\ Cardinality(idle) + reverts.sessionsWithCommits = Cardinality(JoinedInWindow(db, 30))
     /\ Total(idle, LAMBDA s : EffectiveCostFor(db, s)) <= loc.totalCost

(* Repairing the costs changes nothing an ingest of the same prices wrote, but    *)
(* for turns of the batch tier, which it charges twice (up to the rounding).   *)
RepairMatchesIngest(usage) ==
  LET t == TurnOf(usage)
  IN IF usage.tier = "batch"
       THEN RepairedCost(t) - 2 * IngestedCost(t) \in -1 .. 1
       ELSE RepairedCost(t) = IngestedCost(t)
=============================================================================
