--------------------------- MODULE LocalViewsProofs ---------------------------
(***************************************************************************)
(* Proofs about the views of the local pages (LocalCosts, LocalEffort,       *)
(* LocalQuota), one theorem for each agreement, for any snapshot the tables   *)
(* can hold, any transcript, any settings and any text.                      *)
(***************************************************************************)
EXTENDS LocalEffort, LocalQuota, CostProofs, SequenceTheorems

-----------------------------------------------------------------------------
(* Windows and their days.                                                  *)

(* What the SQL takes for the cost of a session is one, of a known source.  *)
LEMMA SqlCosts ==
  ASSUME NEW db, LocalFits(db), NEW s \in db.sessions
  PROVE  /\ EFFECTIVE_COST_EXPR(db, s) \in Nat
         /\ COST_SOURCE_EXPR(db, s) \in {"otel", "calibrated", "list"}
<1>1. s.cost \in Nat /\ s.otelCost \in Nat \cup {None}
  BY DEF LocalFits, LocalRow, CostedRow
<1>2. CASE s.otelCost # None
  BY <1>1, <1>2 DEF EFFECTIVE_COST_EXPR, COST_SOURCE_EXPR
<1>3. CASE s.otelCost = None /\ "global" \in DOMAIN db.calibration
  <2> DEFINE rate == db.calibration["global"]
  <2>1. rate \in RateEntries /\ IsRateInBounds(rate)
    BY <1>3 DEF LocalFits, RatesFit
  <2>2. rate.otel \in Nat /\ rate.local \in Nat /\ rate.local > 0
    BY <2>1 DEF RateEntries, IsRateInBounds
  <2>3. (100 * s.cost * rate.otel) \div rate.local \in Nat
    <3>1. 100 * s.cost * rate.otel \in Nat
      BY <1>1, <2>2
    <3> QED BY <2>2, <3>1, Quotients
  <2>4. /\ EFFECTIVE_COST_EXPR(db, s) = (100 * s.cost * rate.otel) \div rate.local
        /\ COST_SOURCE_EXPR(db, s) = "calibrated"
    BY <1>3 DEF EFFECTIVE_COST_EXPR, COST_SOURCE_EXPR
  <2> QED BY <2>3, <2>4
<1>4. CASE s.otelCost = None /\ "global" \notin DOMAIN db.calibration
  <2>1. EFFECTIVE_COST_EXPR(db, s) = 100 * s.cost /\ COST_SOURCE_EXPR(db, s) = "list"
    BY <1>4 DEF EFFECTIVE_COST_EXPR, COST_SOURCE_EXPR, ListPrice
  <2> QED BY <1>1, <2>1
<1> QED BY <1>2, <1>3, <1>4

(* The costs of all sessions, as a function. *)
CostsOf(db) == [s \in db.sessions |-> EFFECTIVE_COST_EXPR(db, s)]

(* The spend of some sessions is the sum of their costs, none of them        *)
(* negative.                                                                 *)
LEMMA SpendIsSum ==
  ASSUME NEW db, LocalFits(db)
  PROVE  /\ CostsOf(db) \in [db.sessions -> Int] /\ \A s \in db.sessions : CostsOf(db)[s] >= 0
         /\ \A S \in SUBSET db.sessions : Spend(db, S) = Sigma(CostsOf(db), S)
<1>1. CostsOf(db) \in [db.sessions -> Int] /\ \A s \in db.sessions : CostsOf(db)[s] >= 0
  BY SqlCosts DEF CostsOf
<1>2. ASSUME NEW S \in SUBSET db.sessions PROVE Spend(db, S) = Sigma(CostsOf(db), S)
  <2> DEFINE f == [s \in S |-> EFFECTIVE_COST_EXPR(db, s)]  h == CostsOf(db)
  <2>1. Spend(db, S) = SumOver(f)
    BY DEF Spend, Total
  <2>2. f = [s \in S |-> h[s]]
    BY DEF CostsOf
  <2> HIDE DEF f, h
  <2>3. SumOver(f) = Sigma(h, S)
    BY <1>1, <2>2, SumOfPart DEF LocalFits, h
  <2> QED BY <2>1, <2>3 DEF h
<1> QED BY <1>1, <1>2

(* The sessions of a window, of a day of it, and of the day that it cuts. *)
Recent(db) == StartedSince(db.sessions, db.now, 30)
OfDay(db, d) == {s \in Recent(db) : LocalDay(s.startedAt) = d}
CutOff(db) == {s \in Recent(db) : LocalDay(s.startedAt) = LocalDay(db.now) - 30}

(* The days of the chart and the day that is cut make up the window.        *)
LEMMA DaysOfWindow ==
  ASSUME NEW db, LocalFits(db)
  PROVE  /\ LocalDay(db.now) \in Int
         /\ Recent(db) \in SUBSET db.sessions /\ IsFiniteSet(Recent(db))
         /\ CutOff(db) \in SUBSET Recent(db)
         /\ \A s \in Recent(db) : \/ s \in CutOff(db)
                                  \/ LocalDay(s.startedAt) \in LastDays(db.now, 30)
         /\ \A s \in CutOff(db) : LocalDay(s.startedAt) \notin LastDays(db.now, 30)
<1>1. db.now \in Int /\ \A s \in db.sessions : s.startedAt \in Int /\ s.startedAt <= db.now
  BY DEF LocalFits, LocalRow
<1>2. Recent(db) \in SUBSET db.sessions /\ IsFiniteSet(Recent(db))
  <2>1. Recent(db) \in SUBSET db.sessions
    BY DEF Recent, StartedSince
  <2> QED BY <2>1, FS_Subset DEF LocalFits
<1>3. ASSUME NEW s \in Recent(db)
      PROVE  /\ LocalDay(s.startedAt) \in Int /\ LocalDay(s.startedAt) <= LocalDay(db.now)
             /\ LocalDay(s.startedAt) >= LocalDay(db.now) - 30
  <2>1. s.startedAt \in Int /\ s.startedAt <= db.now /\ s.startedAt >= db.now - 60
    BY <1>1, <1>2 DEF Recent, StartedSince
  <2> QED BY <1>1, <2>1 DEF LocalDay
<1>4. LocalDay(db.now) \in Int
  BY <1>1 DEF LocalDay
<1>5. CutOff(db) \in SUBSET Recent(db)
  BY DEF CutOff
<1> QED BY <1>2, <1>3, <1>4, <1>5 DEF CutOff, LastDays

(* Whatever is added up, the chart and the day that is cut make up the total. *)
LEMMA ChartAndCut ==
  ASSUME NEW db, LocalFits(db), NEW f \in [db.sessions -> Int], NEW part,
         part = [d \in LastDays(db.now, 30) |-> Sigma(f, OfDay(db, d))]
  PROVE  SumOver(part) + Sigma(f, CutOff(db)) = Sigma(f, Recent(db))
<1> DEFINE A == Recent(db) \ CutOff(db)  K == LastDays(db.now, 30)
           key == [s \in A |-> LocalDay(s.startedAt)]
<1>1. /\ A \in SUBSET db.sessions /\ CutOff(db) \in SUBSET db.sessions
      /\ A \cap CutOff(db) = {} /\ A \cup CutOff(db) = Recent(db)
  BY DaysOfWindow
<1>2. key \in [A -> K]
  BY DaysOfWindow
<1>3. IsFiniteSet(K)
  <2>1. LocalDay(db.now) - 30 + 1 \in Int /\ LocalDay(db.now) \in Int
    BY DaysOfWindow
  <2> QED BY <2>1, FS_Interval DEF LastDays
<1>4. \A d \in K : OfDay(db, d) = {x \in A : key[x] = d}
  BY DaysOfWindow DEF OfDay
<1>5. part = [d \in K |-> Sigma(f, {x \in A : key[x] = d})]
  BY <1>4
<1> HIDE DEF A, K, key
<1>6. part \in [K -> Int] /\ Sigma(part, K) = Sigma(f, A)
  <2>1. IsFiniteSet(db.sessions) /\ A \in SUBSET db.sessions
    BY <1>1 DEF LocalFits
  <2>2. LET p == [d \in K |-> Sigma(f, {x \in A : key[x] = d})]
        IN p \in [K -> Int] /\ Sigma(p, K) = Sigma(f, A)
    BY <1>2, <1>3, <2>1, SigmaByKey
  <2> QED BY <1>5, <2>2
<1>7. SumOver(part) = Sigma(part, K)
  BY <1>6, SumOverIsSigma
<1>8. Sigma(f, A \cup CutOff(db)) = Sigma(f, A) + Sigma(f, CutOff(db))
  BY <1>1, SigmaUnion DEF LocalFits
<1>9. Sigma(f, A) \in Int /\ Sigma(f, CutOff(db)) \in Int
  BY <1>1, SigmaTakes DEF LocalFits
<1> QED BY <1>1, <1>6, <1>7, <1>8, <1>9

TokenCounts(db) == [s \in db.sessions |-> TokensOf(s)]
Ones(D) == [s \in D |-> 1]

(* A window in time, within another.                                        *)
LEMMA WindowsNest ==
  ASSUME NEW db, LocalFits(db)
  PROVE  LET today == {s \in db.sessions : s.startedAt >= 2 * LocalDay(db.now)} IN
         /\ today = OfDay(db, LocalDay(db.now)) /\ LocalDay(db.now) \in LastDays(db.now, 30)
         /\ today \in SUBSET StartedSince(db.sessions, db.now, 7)
         /\ StartedSince(db.sessions, db.now, 7) \in SUBSET Recent(db)
<1> DEFINE today == {s \in db.sessions : s.startedAt >= 2 * LocalDay(db.now)}
<1>1. db.now \in Int /\ \A s \in db.sessions : s.startedAt \in Int /\ s.startedAt <= db.now
  BY DEF LocalFits, LocalRow
<1>2. today \in SUBSET StartedSince(db.sessions, db.now, 7)
  BY <1>1 DEF StartedSince, LocalDay
<1>3. StartedSince(db.sessions, db.now, 7) \in SUBSET Recent(db)
  BY <1>1 DEF StartedSince, Recent
<1>4. ASSUME NEW s \in db.sessions
      PROVE  s \in today <=> s \in Recent(db) /\ LocalDay(s.startedAt) = LocalDay(db.now)
  BY <1>1 DEF Recent, StartedSince, LocalDay
<1>5. today = OfDay(db, LocalDay(db.now))
  <2>1. \A s \in OfDay(db, LocalDay(db.now)) : s \in db.sessions
    BY DaysOfWindow DEF OfDay
  <2> QED BY <1>4, <2>1 DEF OfDay
<1>6. LocalDay(db.now) \in LastDays(db.now, 30)
  BY DaysOfWindow DEF LastDays
<1> QED BY <1>2, <1>3, <1>5, <1>6

(* The kinds of tokens of a set of sessions make up its tokens.             *)
LEMMA TokensAddUp ==
  ASSUME NEW db, LocalFits(db), NEW S \in SUBSET db.sessions
  PROVE  /\ TokenCounts(db) \in [db.sessions -> Int]
         /\ Total(S, TokensOf) = Sigma(TokenCounts(db), S)
         /\ Total(S, LAMBDA s : s.input + s.output) + Total(S, LAMBDA s : s.cacheCreation)
              + Total(S, LAMBDA s : s.cacheRead) = Sigma(TokenCounts(db), S)
         /\ Total(S, LAMBDA s : s.cacheRead)
              <= Total(S, LAMBDA s : s.input + s.cacheRead + s.cacheCreation)
<1> DEFINE D == db.sessions
           inOut == [s \in D |-> s.input + s.output]
           creation == [s \in D |-> s.cacheCreation]
           read == [s \in D |-> s.cacheRead]
           seen == [s \in D |-> s.input + s.cacheRead + s.cacheCreation]
           some == [s \in D |-> s.input + s.output + s.cacheCreation]
           all == TokenCounts(db)
<1>1. \A s \in D : /\ s.input \in Nat /\ s.output \in Nat /\ s.cacheRead \in Nat
                   /\ s.cacheCreation \in Nat
  BY DEF LocalFits, LocalRow
<1>2. /\ inOut \in [D -> Int] /\ creation \in [D -> Int] /\ read \in [D -> Int]
      /\ seen \in [D -> Int] /\ some \in [D -> Int] /\ all \in [D -> Int]
  BY <1>1 DEF TokenCounts, TokensOf
<1>3. /\ \A s \in S : some[s] = inOut[s] + creation[s] /\ all[s] = some[s] + read[s]
      /\ \A s \in S : read[s] <= seen[s]
  BY <1>1 DEF TokenCounts, TokensOf
<1>4. /\ [s \in S |-> s.input + s.output] = [s \in S |-> inOut[s]]
      /\ [s \in S |-> s.cacheCreation] = [s \in S |-> creation[s]]
      /\ [s \in S |-> s.cacheRead] = [s \in S |-> read[s]]
      /\ [s \in S |-> s.input + s.cacheRead + s.cacheCreation] = [s \in S |-> seen[s]]
      /\ [s \in S |-> TokensOf(s)] = [s \in S |-> all[s]]
  BY DEF TokenCounts
<1>5. IsFiniteSet(D) /\ S \in SUBSET D
  BY DEF LocalFits
<1> HIDE DEF inOut, creation, read, seen, some, all
<1>6. /\ Total(S, LAMBDA s : s.input + s.output) = Sigma(inOut, S)
      /\ Total(S, LAMBDA s : s.cacheCreation) = Sigma(creation, S)
      /\ Total(S, LAMBDA s : s.cacheRead) = Sigma(read, S)
      /\ Total(S, LAMBDA s : s.input + s.cacheRead + s.cacheCreation) = Sigma(seen, S)
      /\ Total(S, TokensOf) = Sigma(all, S)
  <2> HIDE DEF D
  <2>1. Total(S, LAMBDA s : s.input + s.output) = Sigma(inOut, S)
    BY <1>2, <1>4, <1>5, SumOfPart DEF Total
  <2>2. Total(S, LAMBDA s : s.cacheCreation) = Sigma(creation, S)
    BY <1>2, <1>4, <1>5, SumOfPart DEF Total
  <2>3. Total(S, LAMBDA s : s.cacheRead) = Sigma(read, S)
    BY <1>2, <1>4, <1>5, SumOfPart DEF Total
  <2>4. Total(S, LAMBDA s : s.input + s.cacheRead + s.cacheCreation) = Sigma(seen, S)
    BY <1>2, <1>4, <1>5, SumOfPart DEF Total
  <2>5. Total(S, TokensOf) = Sigma(all, S)
    BY <1>2, <1>4, <1>5, SumOfPart DEF Total
  <2> QED BY <2>1, <2>2, <2>3, <2>4, <2>5
<1>7. Sigma(some, S) = Sigma(inOut, S) + Sigma(creation, S)
  <2> HIDE DEF D
  <2> QED BY <1>2, <1>3, <1>5, SigmaPlus
<1>8. Sigma(all, S) = Sigma(some, S) + Sigma(read, S)
  <2> HIDE DEF D
  <2> QED BY <1>2, <1>3, <1>5, SigmaPlus
<1>9. Sigma(read, S) <= Sigma(seen, S)
  <2>1. S \in SUBSET (D \cap D)
    BY <1>5
  <2> HIDE DEF D
  <2> QED BY <1>2, <1>3, <1>5, <2>1, SigmaAtMost
<1> QED BY <1>2, <1>6, <1>7, <1>8, <1>9 DEF all

(* The windows of the overview are those of its chart, as far as it goes    *)
(* back (overview.ts: getOverviewKpis, getDailySpend, getTokenBreakdown).    *)
THEOREM WindowsAlwaysAddUp == ASSUME NEW db, LocalFits(db) PROVE WindowsAddUp(db)
<1> DEFINE view == GetOverviewKpis(db)
           days == GetDailySpend(db, 30)
           K == LastDays(db.now, 30)
           cost == CostsOf(db)
           tokens == TokenCounts(db)
           one == Ones(db.sessions)
           now == LocalDay(db.now)
<1>1. /\ Recent(db) \in SUBSET db.sessions /\ CutOff(db) \in SUBSET db.sessions
      /\ \A d : OfDay(db, d) \in SUBSET db.sessions
      /\ IsFiniteSet(Recent(db)) /\ IsFiniteSet(db.sessions)
      /\ CutOff(db) \in SUBSET Recent(db)
  BY DaysOfWindow DEF OfDay, LocalFits
<1>2. /\ cost \in [db.sessions -> Int] /\ \A s \in db.sessions : cost[s] >= 0
      /\ \A S \in SUBSET db.sessions : Spend(db, S) = Sigma(cost, S)
  BY SpendIsSum
<1>3. /\ tokens \in [db.sessions -> Int]
      /\ \A S \in SUBSET db.sessions : Total(S, TokensOf) = Sigma(tokens, S)
  <2>1. db.sessions \in SUBSET db.sessions
    OBVIOUS
  <2>2. tokens \in [db.sessions -> Int]
    BY <2>1, TokensAddUp
  <2>3. \A S \in SUBSET db.sessions : Total(S, TokensOf) = Sigma(tokens, S)
    BY TokensAddUp
  <2> QED BY <2>2, <2>3
<1>4. /\ one \in [db.sessions -> Int]
      /\ \A S \in SUBSET db.sessions : Cardinality(S) = Sigma(one, S)
  <2>1. one \in [db.sessions -> Int] /\ \A s \in db.sessions : one[s] = 1
    BY DEF Ones
  <2> HIDE DEF one
  <2>2. \A S \in SUBSET db.sessions : Cardinality(S) = Sigma(one, S)
    BY <1>1, <2>1, SigmaOfOnes
  <2> QED BY <2>1, <2>2
<1>5. /\ DOMAIN days = K
      /\ \A d \in K : /\ days[d].spend = Spend(db, OfDay(db, d))
                      /\ days[d].tokens = Total(OfDay(db, d), TokensOf)
                      /\ days[d].sessionCount = Cardinality(OfDay(db, d))
  BY DEF GetDailySpend, OfDay, Recent
<1>6. /\ view.spend30d = Spend(db, Recent(db))
      /\ view.spend7d = Spend(db, StartedSince(db.sessions, db.now, 7))
      /\ view.spendToday = Spend(db, {s \in db.sessions : s.startedAt >= 2 * LocalDay(db.now)})
      /\ view.tokens30d = Total(Recent(db), TokensOf)
      /\ view.sessionCount30d = Cardinality(Recent(db))
      /\ view.cacheHitRatio30d.num = Total(Recent(db), LAMBDA s : s.cacheRead)
      /\ view.cacheHitRatio30d.den = Total(Recent(db), LAMBDA s : s.input + s.cacheRead + s.cacheCreation)
      /\ view.sources = [k \in {"otel", "calibrated", "list"} |->
                           Cardinality({s \in Recent(db) : COST_SOURCE_EXPR(db, s) = k})]
  BY DEF GetOverviewKpis, Recent
<1>7. GetTokenBreakdown(db, 30).total
        = Total(Recent(db), LAMBDA s : s.input + s.output)
            + Total(Recent(db), LAMBDA s : s.cacheCreation) + Total(Recent(db), LAMBDA s : s.cacheRead)
  BY DEF GetTokenBreakdown, Recent
<1> HIDE DEF view, days, K, cost, tokens, one
<1>8. view.spend30d = Total(DOMAIN days, LAMBDA d : days[d].spend) + Spend(db, CutOff(db))
  <2> DEFINE part == [d \in K |-> Sigma(cost, OfDay(db, d))]
  <2>1. Total(DOMAIN days, LAMBDA d : days[d].spend) = SumOver(part)
    <3>1. [d \in DOMAIN days |-> days[d].spend] = part
      BY <1>1, <1>2, <1>5
    <3> HIDE DEF part
    <3> QED BY <3>1 DEF Total
  <2>2. SumOver(part) + Sigma(cost, CutOff(db)) = Sigma(cost, Recent(db))
    BY <1>2, ChartAndCut DEF K
  <2> HIDE DEF part
  <2> QED BY <1>1, <1>2, <1>6, <2>1, <2>2
<1>9. view.sessionCount30d = Total(DOMAIN days, LAMBDA d : days[d].sessionCount) + Cardinality(CutOff(db))
  <2> DEFINE part == [d \in K |-> Sigma(one, OfDay(db, d))]
  <2>1. Total(DOMAIN days, LAMBDA d : days[d].sessionCount) = SumOver(part)
    <3>1. [d \in DOMAIN days |-> days[d].sessionCount] = part
      BY <1>1, <1>4, <1>5
    <3> HIDE DEF part
    <3> QED BY <3>1 DEF Total
  <2>2. SumOver(part) + Sigma(one, CutOff(db)) = Sigma(one, Recent(db))
    BY <1>4, ChartAndCut DEF K
  <2> HIDE DEF part
  <2> QED BY <1>1, <1>4, <1>6, <2>1, <2>2
<1>10. view.tokens30d = Total(DOMAIN days, LAMBDA d : days[d].tokens) + Total(CutOff(db), TokensOf)
  <2> DEFINE part == [d \in K |-> Sigma(tokens, OfDay(db, d))]
  <2>1. Total(DOMAIN days, LAMBDA d : days[d].tokens) = SumOver(part)
    <3>1. [d \in DOMAIN days |-> days[d].tokens] = part
      BY <1>1, <1>3, <1>5
    <3> HIDE DEF part
    <3> QED BY <3>1 DEF Total
  <2>2. SumOver(part) + Sigma(tokens, CutOff(db)) = Sigma(tokens, Recent(db))
    BY <1>3, ChartAndCut DEF K
  <2> HIDE DEF part
  <2> QED BY <1>1, <1>3, <1>6, <2>1, <2>2
<1> DEFINE today == {s \in db.sessions : s.startedAt >= 2 * LocalDay(db.now)}
           week == StartedSince(db.sessions, db.now, 7)
<1>11. today = OfDay(db, now) /\ now \in K /\ today \in SUBSET week /\ week \in SUBSET Recent(db)
  BY WindowsNest DEF K
<1>12. view.spendToday = days[now].spend
  BY <1>5, <1>6, <1>11
<1>13. view.spendToday <= view.spend7d /\ view.spend7d <= view.spend30d
  <2>1. today \in SUBSET db.sessions /\ week \in SUBSET db.sessions
    BY <1>1, <1>11
  <2>2. Sigma(cost, week) <= Sigma(cost, Recent(db))
    BY <1>1, <1>2, <1>11, SigmaGrows
  <2>3. Sigma(cost, today) <= Sigma(cost, week)
    <3> HIDE DEF today, week
    <3> QED BY <1>1, <1>2, <1>11, <2>1, SigmaGrows
  <2> HIDE DEF today, week
  <2>4. view.spendToday = Sigma(cost, today) /\ view.spend7d = Sigma(cost, week)
    BY <1>2, <1>6, <2>1 DEF today, week
  <2> QED BY <1>1, <1>2, <1>6, <2>2, <2>3, <2>4
<1>14. view.tokens30d = GetTokenBreakdown(db, 30).total
  <2>1. Total(Recent(db), LAMBDA s : s.input + s.output)
          + Total(Recent(db), LAMBDA s : s.cacheCreation) + Total(Recent(db), LAMBDA s : s.cacheRead)
            = Sigma(TokenCounts(db), Recent(db))
    BY <1>1, TokensAddUp
  <2> QED BY <1>1, <1>3, <1>6, <1>7, <2>1 DEF tokens
<1>15. view.cacheHitRatio30d.num <= view.cacheHitRatio30d.den
  BY <1>1, <1>6, TokensAddUp
<1>16. SumOver(view.sources) = view.sessionCount30d
  <2> DEFINE S == {"otel", "calibrated", "list"}
             key == [s \in Recent(db) |-> COST_SOURCE_EXPR(db, s)]
             part == [k \in S |-> Cardinality({s \in Recent(db) : key[s] = k})]
  <2>1. IsFiniteSet(S)
    <3>1. S = {"otel"} \cup {"calibrated"} \cup {"list"}
      OBVIOUS
    <3>2. IsFiniteSet({"otel"}) /\ IsFiniteSet({"calibrated"}) /\ IsFiniteSet({"list"})
      BY FS_Singleton
    <3>3. IsFiniteSet({"otel"} \cup {"calibrated"})
      BY <3>2, FS_Union
    <3> QED BY <3>1, <3>2, <3>3, FS_Union
  <2>2. key \in [Recent(db) -> S]
    BY <1>1, SqlCosts
  <2>3. view.sources = part
    BY <1>6
  <2> HIDE DEF S, key, part
  <2>4. part \in [S -> Nat] /\ Sigma(part, S) = Cardinality(Recent(db))
    BY <1>1, <2>1, <2>2, CountByKey DEF part
  <2>5. SumOver(part) = Sigma(part, S)
    BY <2>4, SumOverIsSigma
  <2> QED BY <1>6, <2>3, <2>4, <2>5
<1> QED BY <1>8, <1>9, <1>10, <1>12, <1>13, <1>14, <1>15, <1>16
     DEF WindowsAddUp, view, days, CutOff, Recent

(* The dearest sessions of a window, and those of the most turns. *)
LEMMA DearestFirst ==
  ASSUME NEW db, LocalFits(db), NEW n \in Nat, NEW rows \in SUBSET db.sessions
  PROVE  FirstRows(rows, n, LAMBDA s : EFFECTIVE_COST_EXPR(db, s)) \in FirstBy(rows, CostsOf(db), n)
<1> DEFINE P(T) == /\ Cardinality(T) = Min({n, Cardinality(rows)})
                   /\ \A r \in T, other \in rows \ T :
                        EFFECTIVE_COST_EXPR(db, r) >= EFFECTIVE_COST_EXPR(db, other)
           rank == [s \in rows |-> CostsOf(db)[s]]
<1>1. /\ IsFiniteSet(rows) /\ rank \in [rows -> Int]
      /\ \A s \in rows : rank[s] = CostsOf(db)[s] /\ rank[s] = EFFECTIVE_COST_EXPR(db, s)
  <2>1. IsFiniteSet(rows)
    BY FS_Subset DEF LocalFits
  <2>2. \A s \in rows : CostsOf(db)[s] = EFFECTIVE_COST_EXPR(db, s)
    BY DEF CostsOf
  <2> QED BY <2>1, <2>2, SpendIsSum
<1> HIDE DEF rank
<1>2. PICK T : T \in FirstBy(rows, rank, n)
  BY <1>1, FirstExist
<1>3. T \in SUBSET rows /\ P(T)
  BY <1>1, <1>2 DEF FirstBy
<1> DEFINE F == CHOOSE U \in SUBSET rows : P(U)
<1>4. F \in SUBSET rows /\ P(F)
  <2> HIDE DEF P
  <2> QED BY <1>3
<1>5. F \in FirstBy(rows, CostsOf(db), n)
  <2>1. \A s \in rows : CostsOf(db)[s] = EFFECTIVE_COST_EXPR(db, s)
    BY <1>1
  <2> HIDE DEF F
  <2> QED BY <1>4, <2>1 DEF FirstBy
<1> QED BY <1>5 DEF FirstRows

(* By turns, they are sessions of the window.                               *)
LEMMA LongestFirst ==
  ASSUME NEW db, LocalFits(db), NEW n \in Nat, NEW rows \in SUBSET db.sessions
  PROVE  FirstRows(rows, n, LAMBDA s : s.turnCount) \in SUBSET rows
<1> DEFINE P(T) == /\ Cardinality(T) = Min({n, Cardinality(rows)})
                   /\ \A r \in T, other \in rows \ T : r.turnCount >= other.turnCount
           rank == [s \in rows |-> s.turnCount]
<1>1. IsFiniteSet(rows) /\ rank \in [rows -> Int] /\ \A s \in rows : rank[s] = s.turnCount
  <2>1. IsFiniteSet(rows)
    BY FS_Subset DEF LocalFits
  <2> QED BY <2>1 DEF LocalFits, LocalRow
<1> HIDE DEF rank
<1>2. PICK T : T \in FirstBy(rows, rank, n)
  BY <1>1, FirstExist
<1>3. T \in SUBSET rows /\ P(T)
  BY <1>1, <1>2 DEF FirstBy
<1>4. (CHOOSE U \in SUBSET rows : P(U)) \in SUBSET rows
  <2> HIDE DEF P
  <2> QED BY <1>3
<1> QED BY <1>4 DEF FirstRows

(* The session of an id. *)
LEMMA SessionOfId ==
  ASSUME NEW db, LocalFits(db), NEW s \in db.sessions
  PROVE  GetSession(db, s.id) = Item(db, s)
<1>1. (CHOOSE t \in db.sessions : t.id = s.id) = s
  BY DEF LocalFits
<1> QED BY <1>1 DEF GetSession

(* Where the family of a session has no rate, the SQL and the shared package *)
(* price it alike.                                                          *)
LEMMA PricedAlike ==
  ASSUME NEW db, LocalFits(db), NEW s \in db.sessions, s.otelCost # 0,
         s.model \notin DOMAIN db.calibration
  PROVE  EFFECTIVE_COST_EXPR(db, s) = EffectiveCostFor(db, s)
<1> DEFINE table == db.calibration  c == GetCostCalibration(table)  rate == table["global"]
<1>1. s.cost \in Nat /\ s.otelCost \in Nat \cup {None}
  BY DEF LocalFits, LocalRow, CostedRow
<1>2. s.model \notin DOMAIN c /\ ("global" \in DOMAIN c <=> "global" \in DOMAIN table)
  BY DEF GetCostCalibration, FAMILY_KEYS
<1>3. "global" \in DOMAIN table => c["global"] = rate /\ IsRateInBounds(rate) /\ rate \in RateEntries
  BY DEF GetCostCalibration, FAMILY_KEYS, LocalFits, RatesFit
<1> HIDE DEF c
<1>4. EffectiveCostFor(db, s) = EffectiveCost(s, c).value
  BY DEF EffectiveCostFor, c
<1>5. CASE s.otelCost # None
  <2>1. s.otelCost > 0
    BY <1>1, <1>5
  <2> QED BY <1>4, <1>5, <2>1 DEF EffectiveCost, EFFECTIVE_COST_EXPR
<1>6. CASE s.otelCost = None /\ "global" \in DOMAIN table
  <2>1. EFFECTIVE_COST_EXPR(db, s) = (100 * s.cost * rate.otel) \div rate.local
    BY <1>6 DEF EFFECTIVE_COST_EXPR
  <2>2. CASE s.cost = 0
    <3>1. EffectiveCost(s, c).value = 0
      BY <1>6, <2>2 DEF EffectiveCost
    <3>2. rate.otel \in Nat /\ rate.local \in Nat /\ rate.local > 0
      BY <1>3, <1>6 DEF RateEntries, IsRateInBounds
    <3>3. 100 * s.cost * rate.otel = 0 /\ 0 \div rate.local = 0
      BY <2>2, <3>2
    <3> QED BY <1>4, <2>1, <3>1, <3>3
  <2>3. CASE s.cost # 0
    <3>1. EffectiveCost(s, c).value = (100 * s.cost * c["global"].otel) \div c["global"].local
      BY <1>2, <1>3, <1>6, <2>3 DEF EffectiveCost
    <3> QED BY <1>3, <1>4, <1>6, <2>1, <3>1
  <2> QED BY <2>2, <2>3
<1>7. CASE s.otelCost = None /\ "global" \notin DOMAIN table
  <2>1. EFFECTIVE_COST_EXPR(db, s) = 100 * s.cost
    BY <1>7 DEF EFFECTIVE_COST_EXPR, ListPrice
  <2>2. EffectiveCost(s, c).value = 100 * s.cost
    BY <1>1, <1>2, <1>7 DEF EffectiveCost
  <2> QED BY <1>4, <2>1, <2>2
<1> QED BY <1>5, <1>6, <1>7

(* A session costs the same wherever the dashboard shows it, where the code *)
(* means it to (overview.ts: getTopSessions; outcomes.ts).                   *)
THEOREM CostsAlwaysAgree == ASSUME NEW db, LocalFits(db) PROVE CostsAgree(db)
<1> DEFINE Dearest(n) == FirstRows(Recent(db), n, LAMBDA s : EFFECTIVE_COST_EXPR(db, s))
           Longest(n) == FirstRows(Recent(db), n, LAMBDA s : s.turnCount)
<1>1. Recent(db) \in SUBSET db.sessions
  BY DaysOfWindow
<1>2. \A n \in Nat : /\ GetTopSessions(db, n, 30) = {Item(db, s) : s \in Dearest(n)}
                     /\ GetTopSessionsByTurns(db, n, 30) = {Item(db, s) : s \in Longest(n)}
  BY DEF GetTopSessions, GetTopSessionsByTurns, Items, Recent
<1>3. \A n \in Nat : Dearest(n) \in FirstBy(Recent(db), CostsOf(db), n)
  BY <1>1, DearestFirst
<1>4. \A n \in Nat : Longest(n) \in SUBSET Recent(db)
  BY <1>1, LongestFirst
<1> HIDE DEF Dearest, Longest
<1>5. \A n \in Nat : Dearest(n) \in SUBSET Recent(db)
  BY <1>3 DEF FirstBy
<1>6. ASSUME NEW item \in GetTopSessions(db, 3, 30) \cup GetTopSessionsByTurns(db, 3, 30)
      PROVE  item = GetSession(db, item.id)
  <2>1. PICK s \in Dearest(3) \cup Longest(3) : item = Item(db, s)
    BY <1>2, <1>6
  <2>2. s \in db.sessions
    BY <1>1, <1>4, <1>5
  <2>3. item.id = s.id
    BY <2>1 DEF Item
  <2> QED BY <2>1, <2>2, <2>3, SessionOfId
<1>7. \A s \in db.sessions : s.otelCost # 0 /\ s.model \notin DOMAIN db.calibration
        => EFFECTIVE_COST_EXPR(db, s) = EffectiveCostFor(db, s)
  BY PricedAlike
<1>8. ASSUME NEW item \in GetTopSessions(db, 2, 30), NEW s \in Recent(db),
             s.id \notin {i.id : i \in GetTopSessions(db, 2, 30)}
      PROVE  EFFECTIVE_COST_EXPR(db, s) <= item.cost
  <2>1. PICK t \in Dearest(2) : item = Item(db, t)
    BY <1>2, <1>8
  <2>2. s \notin Dearest(2)
    <3>1. SUFFICES ASSUME s \in Dearest(2) PROVE FALSE
      OBVIOUS
    <3>2. Item(db, s) \in GetTopSessions(db, 2, 30) /\ Item(db, s).id = s.id
      BY <1>2, <3>1 DEF Item
    <3> QED BY <1>8, <3>2
  <2>3. CostsOf(db)[t] >= CostsOf(db)[s]
    BY <1>3, <2>1, <2>2 DEF FirstBy
  <2>4. /\ CostsOf(db)[t] = EFFECTIVE_COST_EXPR(db, t) /\ CostsOf(db)[s] = EFFECTIVE_COST_EXPR(db, s)
        /\ CostsOf(db)[t] \in Int /\ CostsOf(db)[s] \in Int
    <3>1. t \in db.sessions /\ s \in db.sessions
      BY <1>1, <1>5
    <3> QED BY <3>1, SpendIsSum DEF CostsOf
  <2>5. item.cost = EFFECTIVE_COST_EXPR(db, t)
    BY <2>1 DEF Item
  <2> QED BY <2>3, <2>4, <2>5
<1> QED BY <1>6, <1>7, <1>8 DEF CostsAgree, Recent

-----------------------------------------------------------------------------
(* Pages of a list (session.ts, pagination.ts).                             *)

(* A page before another ends before it.                                    *)
LEMMA PagesApart ==
  ASSUME NEW size \in Nat \ {0}, NEW n \in Int, NEW k \in Int, n < k
  PROVE  n * size \in Int /\ k * size \in Int /\ n * size + size <= k * size
<1> DEFINE d == k - n - 1
<1>1. d \in Nat /\ k = n + 1 + d
  OBVIOUS
<1>2. d * size >= 0 /\ d * size \in Int
  <2> HIDE DEF d
  <2>1. d >= 0 /\ size >= 0 /\ d \in Int /\ size \in Int
    BY <1>1
  <2> QED BY <2>1
<1>3. (n + 1 + d) * size = n * size + size + d * size
  OBVIOUS
<1> DEFINE a == n * size  c == d * size
<1>4. a \in Int
  OBVIOUS
<1>5. k * size = a + size + c /\ c >= 0 /\ c \in Int
  BY <1>1, <1>2, <1>3
<1> HIDE DEF a, c, d
<1> QED BY <1>4, <1>5 DEF a

(* The pages of so many rows: all but the last have a next one, the one after *)
(* it is past the end, and every row is on one of them.                     *)
LEMMA PageNumbers ==
  ASSUME NEW size \in Nat \ {0}, NEW N \in Nat \ {0}
  PROVE  LET last == (N - 1) \div size IN
         /\ last \in Nat
         /\ (last + 1) * size \in N .. (N - 1 + size)
         /\ \A n \in 0 .. last : n * size \in 0 .. (N - 1) /\ ((n * size + size < N) <=> (n < last))
         /\ \A m \in 0 .. (N - 1) : \E n \in 0 .. last : m \in (n * size) .. (n * size + size - 1)
         /\ \A n, k \in Int, m \in Int :
              m \in (n * size) .. (n * size + size - 1) /\ m \in (k * size) .. (k * size + size - 1)
                => n = k
<1> DEFINE last == (N - 1) \div size  a == last * size
<1>1. N - 1 \in Nat
  OBVIOUS
<1>2. last \in Nat /\ a \in Int /\ a <= N - 1 /\ N - 1 <= a + size - 1
  <2> DEFINE m == N - 1  q == m \div size  r == m % size
  <2>1. q \in Nat /\ r \in 0 .. (size - 1) /\ m = q * size + r
    <3> HIDE DEF m
    <3> QED BY <1>1, Remainders DEF m
  <2> DEFINE p == q * size
  <2>2. p \in Int
    BY <2>1
  <2>3. m = p + r
    BY <2>1
  <2> HIDE DEF p, q, r
  <2>4. p <= N - 1 /\ N - 1 <= p + size - 1
    BY <2>1, <2>2, <2>3
  <2> QED BY <2>1, <2>2, <2>4 DEF p, q
<1>3. (last + 1) * size = a + size
  <2> HIDE DEF last
  <2> QED BY <1>2 DEF a
<1> HIDE DEF last
<1>4. ASSUME NEW n \in 0 .. last
      PROVE  n * size \in 0 .. (N - 1) /\ ((n * size + size < N) <=> (n < last))
  <2> DEFINE b == n * size
  <2>1. b \in Int /\ b >= 0
    OBVIOUS
  <2>2. CASE n = last
    <3>1. b = a
      BY <2>2 DEF a
    <3> HIDE DEF a, b
    <3>2. b \in 0 .. (N - 1) /\ ~(b + size < N) /\ ~(n < last)
      BY <1>2, <2>1, <2>2, <3>1
    <3> QED BY <3>2 DEF b
  <2>3. CASE n < last
    <3>1. b + size <= a
      <4>1. n \in Int /\ last \in Int
        BY <1>2
      <4> QED BY <2>3, <4>1, PagesApart DEF a
    <3> HIDE DEF a, b
    <3>2. b \in 0 .. (N - 1) /\ b + size < N
      BY <1>2, <2>1, <3>1
    <3> QED BY <2>3, <3>2 DEF b
  <2> QED BY <1>2, <2>2, <2>3
<1>5. ASSUME NEW m \in 0 .. (N - 1)
      PROVE  \E n \in 0 .. last : m \in (n * size) .. (n * size + size - 1)
  <2> DEFINE q == m \div size  r == m % size
  <2>1. q \in Nat /\ r \in 0 .. (size - 1) /\ m = q * size + r
    BY Remainders
  <2>2. q <= last
    <3>1. m \in Int /\ N - 1 \in Int /\ size > 0 /\ m <= N - 1
      OBVIOUS
    <3> QED BY <3>1, QuotientsGrow DEF last
  <2> DEFINE p == q * size
  <2>3. p \in Int /\ m = p + r
    BY <2>1
  <2> HIDE DEF p, q, r
  <2>4. m \in p .. (p + size - 1)
    BY <2>1, <2>3
  <2>5. q \in 0 .. last
    BY <1>2, <2>1, <2>2
  <2> QED BY <2>4, <2>5 DEF p
<1>6. ASSUME NEW n \in Int, NEW k \in Int, NEW m \in Int, n < k,
             m \in (n * size) .. (n * size + size - 1)
      PROVE  m \notin (k * size) .. (k * size + size - 1)
  <2>1. n * size \in Int /\ k * size \in Int /\ n * size + size <= k * size
    BY <1>6, PagesApart
  <2> DEFINE b == n * size  c == k * size
  <2>2. b \in Int /\ c \in Int /\ b + size <= c /\ m \in b .. (b + size - 1)
    BY <1>6, <2>1
  <2> HIDE DEF b, c
  <2>3. m \notin c .. (c + size - 1)
    BY <2>2
  <2> QED BY <2>3 DEF c
<1>7. ASSUME NEW n \in Int, NEW k \in Int, NEW m \in Int,
             m \in (n * size) .. (n * size + size - 1), m \in (k * size) .. (k * size + size - 1)
      PROVE  n = k
  <2>1. n < k \/ k < n \/ n = k
    OBVIOUS
  <2> QED BY <1>6, <1>7, <2>1
<1>8. (last + 1) * size \in N .. (N - 1 + size)
  <2> HIDE DEF a
  <2> QED BY <1>2, <1>3
<1> QED BY <1>2, <1>4, <1>5, <1>7, <1>8 DEF last

(* The place of a session in the list, the newest first. *)
PlaceIn(rows, s) == Cardinality({t \in rows : Earlier(s, t)})

(* The places in a list are those from 0 on, each of one session.            *)
LEMMA PlacesInList ==
  ASSUME NEW db, LocalFits(db), NEW rows \in SUBSET db.sessions
  PROVE  /\ IsFiniteSet(rows) /\ Cardinality(rows) \in Nat
         /\ {PlaceIn(rows, s) : s \in rows} = 0 .. Cardinality(rows) - 1
         /\ \A s, t \in rows : PlaceIn(rows, s) = PlaceIn(rows, t) => s = t
<1> DEFINE a == [s \in rows |-> 0 - s.startedAt]  b == [s \in rows |-> 0 - s.id]
           before == [s \in rows |-> {t \in rows : a[t] < a[s] \/ (a[t] = a[s] /\ b[t] < b[s])}]
<1>1. IsFiniteSet(rows)
  BY FS_Subset DEF LocalFits
<1>2. \A s \in rows : s.startedAt \in Int /\ s.id \in Int
  BY DEF LocalFits, LocalRow
<1>3. \A s, t \in rows : s.id = t.id => s = t
  BY DEF LocalFits
<1>4. a \in [rows -> Int] /\ b \in [rows -> Int] /\ \A s, t \in rows : b[s] = b[t] => s = t
  BY <1>2, <1>3
<1>5. \A s \in rows : before[s] = {t \in rows : Earlier(s, t)}
  <2>1. \A s, t \in rows : Earlier(s, t) <=> a[t] < a[s] \/ (a[t] = a[s] /\ b[t] < b[s])
    BY <1>2 DEF Earlier
  <2> HIDE DEF a, b
  <2> QED BY <2>1
<1>6. Orders(before, rows)
  <2> HIDE DEF a, b
  <2> QED BY <1>4, RankThenId
<1> HIDE DEF before, a, b
<1>7. /\ {Cardinality(before[x]) : x \in rows} = 0 .. Cardinality(rows) - 1
      /\ \A x, y \in rows : Cardinality(before[x]) = Cardinality(before[y]) => x = y
  BY <1>1, <1>6, RanksAreTaken
<1>8. \A s \in rows : Cardinality(before[s]) = PlaceIn(rows, s)
  BY <1>5 DEF PlaceIn
<1> QED BY <1>1, <1>7, <1>8, FS_CardinalityType

(* A page of the list, at an offset the page takes. *)
LEMMA PageOfSessions ==
  ASSUME NEW db, NEW date \in Nat \cup {None}, NEW offset \in 0 .. MaxOffset, NEW size
  PROVE  LET rows == IF date = None THEN db.sessions ELSE OnDay(db.sessions, date)
             p == ComputePagination(offset, Cardinality(rows), size)
         IN /\ SessionsPage(db, date, offset, size).pagination = p
            /\ SessionsPage(db, date, offset, size).items
                 = IF p.overflow THEN {} ELSE Items(db, PageOf(rows, offset, size))
<1> DEFINE rows == IF date = None THEN db.sessions ELSE OnDay(db.sessions, date)
           p == ComputePagination(offset, Cardinality(rows), size)
<1>1. p.offset = offset
  BY DEF ComputePagination
<1> HIDE DEF p
<1>2. CASE date = None
  <2>1. ListSessions(db, offset, size) = Items(db, PageOf(rows, offset, size))
    BY <1>2 DEF ListSessions
  <2> QED BY <1>1, <1>2, <2>1 DEF SessionsPage, p
<1>3. CASE date # None
  <2>1. ListSessionsByDate(db, date, offset, size) = Items(db, PageOf(rows, offset, size))
    BY <1>3 DEF ListSessionsByDate
  <2>2. date \in Nat /\ rows = OnDay(db.sessions, date)
    BY <1>3
  <2> HIDE DEF rows
  <2> QED BY <1>1, <1>3, <2>1, <2>2 DEF SessionsPage, p
<1> QED BY <1>2, <1>3 DEF p

(* The links of the list show every session once, on the day asked for when *)
(* one is; the offsets a page takes are enough for them all.                *)
THEOREM PagesAlwaysCoverSessions ==
  ASSUME NEW db, LocalFits(db), NEW date \in Nat \cup {None}, NEW size \in Nat \ {0},
         Cardinality(db.sessions) + size <= MaxOffset
  PROVE  PagesCoverSessions(db, date, size)
<1> DEFINE rows == IF date = None THEN db.sessions ELSE OnDay(db.sessions, date)
           N == Cardinality(rows)
           last == (N - 1) \div size
           Page(n) == SessionsPage(db, date, n * size, size)
           P(n) == ComputePagination(n * size, N, size)
           Part(n) == {s \in rows : PlaceIn(rows, s) \in (n * size) .. (n * size + size - 1)}
<1>1. rows \in SUBSET db.sessions
  BY DEF OnDay
<1>2. /\ IsFiniteSet(rows) /\ N \in Nat /\ MaxOffset \in Int /\ N + size <= MaxOffset
      /\ {PlaceIn(rows, s) : s \in rows} = 0 .. N - 1
      /\ \A s, t \in rows : PlaceIn(rows, s) = PlaceIn(rows, t) => s = t
  <2>1. N <= Cardinality(db.sessions) /\ Cardinality(db.sessions) \in Nat
    BY <1>1, FS_Subset, FS_CardinalityType DEF LocalFits
  <2> HIDE DEF rows
  <2>2. N \in Nat /\ MaxOffset \in Int
    BY <1>1, PlacesInList DEF MaxOffset
  <2> QED BY <1>1, <2>1, <2>2, PlacesInList
<1>3. ASSUME NEW n \in Int, n * size \in 0 .. MaxOffset
      PROVE  /\ Page(n).pagination = P(n)
             /\ Page(n).items = IF P(n).overflow THEN {} ELSE Items(db, Part(n))
  <2> DEFINE o == n * size
  <2>1. o \in 0 .. MaxOffset
    BY <1>3
  <2> HIDE DEF o
  <2>2. PageOf(rows, o, size) = {s \in rows : PlaceIn(rows, s) \in o .. (o + size - 1)}
    BY DEF PageOf, PlaceIn
  <2>3. LET p == ComputePagination(o, N, size)
        IN /\ SessionsPage(db, date, o, size).pagination = p
           /\ SessionsPage(db, date, o, size).items
                = IF p.overflow THEN {} ELSE Items(db, PageOf(rows, o, size))
    BY <2>1, PageOfSessions
  <2> HIDE DEF rows
  <2> QED BY <2>2, <2>3 DEF o
<1>4. CASE rows = {}
  <2>1. N = 0
    BY <1>4, FS_EmptySet
  <2>2. 0 * size = 0 /\ 0 \in 0 .. MaxOffset /\ 0 \in Int
    BY DEF MaxOffset
  <2>3. ~P(0).hasNext /\ ~P(0).overflow
    BY <2>1, <2>2 DEF ComputePagination
  <2> HIDE DEF P, Page
  <2>4. Page(0).pagination = P(0) /\ Page(0).items = Items(db, Part(0))
    BY <1>3, <2>2, <2>3
  <2>5. Part(0) = {}
    BY <1>4
  <2> HIDE DEF Part
  <2>6. Page(0).items = {}
    BY <2>4, <2>5 DEF Items
  <2> QED BY <1>4, <2>3, <2>4, <2>6 DEF PagesCoverSessions, Page
<1>5. CASE rows # {}
  <2>1. N \in Nat \ {0} /\ MaxOffset \in Int /\ N + size <= MaxOffset
    BY <1>2, <1>5, FS_EmptySet
  <2>2. /\ last \in Nat
        /\ (last + 1) * size \in N .. (N - 1 + size)
        /\ \A n \in 0 .. last : n * size \in 0 .. (N - 1) /\ ((n * size + size < N) <=> (n < last))
        /\ \A m \in 0 .. (N - 1) : \E n \in 0 .. last : m \in (n * size) .. (n * size + size - 1)
        /\ \A n, k \in Int, m \in Int :
             m \in (n * size) .. (n * size + size - 1) /\ m \in (k * size) .. (k * size + size - 1)
               => n = k
    <3> HIDE DEF N
    <3> QED BY <2>1, PageNumbers
  <2> HIDE DEF rows, N, last
  <2>3. ASSUME NEW n \in 0 .. last
        PROVE  /\ Page(n).items = Items(db, Part(n))
               /\ Page(n).pagination.hasNext = (n < last)
    <3> DEFINE o == n * size
    <3>1. o \in 0 .. (N - 1) /\ ((o + size < N) <=> (n < last)) /\ o \in 0 .. MaxOffset
      <4>1. o \in 0 .. (N - 1) /\ ((o + size < N) <=> (n < last))
        BY <2>2
      <4> HIDE DEF o
      <4> QED BY <2>1, <4>1
    <3>2. /\ Page(n).pagination = P(n)
          /\ Page(n).items = IF P(n).overflow THEN {} ELSE Items(db, Part(n))
      <4>1. n \in Int
        BY <2>2
      <4> QED BY <1>3, <3>1, <4>1
    <3> HIDE DEF o
    <3>3. Min({o + size, N}) = IF o + size <= N THEN o + size ELSE N
      <4>1. o + size \in Int /\ N \in Int
        BY <2>1, <3>1
      <4> QED BY <4>1, LeastAmong
    <3>4. (Min({o + size, N}) < N) = (n < last)
      BY <2>1, <2>2, <3>1, <3>3
    <3> DEFINE end == Min({o + size, N})
    <3>5. /\ ComputePagination(o, N, size).overflow = FALSE
          /\ ComputePagination(o, N, size).hasNext = (end < N)
      <4>1. N # 0 /\ ~(o >= N)
        BY <2>1, <3>1
      <4> HIDE DEF end
      <4> QED BY <3>1, <4>1 DEF ComputePagination, end
    <3>6. P(n).overflow = FALSE /\ P(n).hasNext = (n < last)
      BY <3>4, <3>5 DEF o
    <3> HIDE DEF P, Page, Part
    <3> QED BY <3>2, <3>6
  <2>4. UNION {Part(n) : n \in 0 .. last} = rows
    <3>1. ASSUME NEW s \in rows PROVE \E n \in 0 .. last : s \in Part(n)
      <4>1. PlaceIn(rows, s) \in 0 .. (N - 1)
        BY <1>2
      <4> QED BY <2>2, <4>1
    <3> QED BY <3>1
  <2>5. ASSUME NEW n \in 0 .. last, NEW k \in 0 .. last, n # k
        PROVE  Part(n) \cap Part(k) = {}
    <3>1. \A s \in rows : PlaceIn(rows, s) \in Int
      BY <1>2
    <3>2. n \in Int /\ k \in Int
      BY <2>2
    <3> QED BY <2>2, <2>5, <3>1, <3>2
  <2>6. \A s, t \in rows : Item(db, s) = Item(db, t) => s = t
    <3>1. \A s, t \in rows : Item(db, s) = Item(db, t) => s.id = t.id
      BY DEF Item
    <3> QED BY <1>1, <3>1 DEF LocalFits
  <2>7. Page(last + 1).pagination.overflow
    <3> DEFINE o == (last + 1) * size
    <3>1. o \in Int /\ o >= N /\ o \in 0 .. MaxOffset /\ o \in N .. (N - 1 + size)
      <4>1. o \in N .. (N - 1 + size)
        BY <2>2
      <4> HIDE DEF o
      <4> QED BY <2>1, <4>1
    <3>2. last + 1 \in Int
      BY <2>2
    <3>3. Page(last + 1).pagination = P(last + 1)
      BY <1>3, <3>1, <3>2
    <3> HIDE DEF o
    <3>4. ComputePagination(o, N, size).overflow
      BY <2>1, <3>1 DEF ComputePagination
    <3> QED BY <3>3, <3>4 DEF o
  <2> HIDE DEF Page, Part
  <2>8. UNION {Page(n).items : n \in 0 .. last} = Items(db, rows)
    <3>1. {Page(n).items : n \in 0 .. last} = {Items(db, Part(n)) : n \in 0 .. last}
      BY <2>3
    <3>2. UNION {Items(db, Part(n)) : n \in 0 .. last} = Items(db, UNION {Part(n) : n \in 0 .. last})
      BY DEF Items
    <3> QED BY <2>4, <3>1, <3>2
  <2>9. ASSUME NEW n \in 0 .. last, NEW k \in 0 .. last, n # k
        PROVE  Page(n).items \cap Page(k).items = {}
    <3>1. Part(n) \in SUBSET rows /\ Part(k) \in SUBSET rows
      BY DEF Part
    <3>2. Items(db, Part(n)) \cap Items(db, Part(k)) = {}
      BY <2>5, <2>6, <2>9, <3>1 DEF Items
    <3> QED BY <2>3, <3>2
  <2> QED BY <1>5, <2>3, <2>7, <2>8, <2>9 DEF PagesCoverSessions, Page, last, N, rows
<1> QED BY <1>4, <1>5

-----------------------------------------------------------------------------
(* Percents (percent.ts): the remainders sum up to the units that are left    *)
(* over, and no part without a remainder gets one of them.                  *)

(* A quotient and its remainder, of natural numbers.                         *)
LEMMA Remainder ==
  ASSUME NEW a \in Nat, NEW s \in Nat \ {0}
  PROVE  /\ a \div s \in Nat /\ a % s \in Nat /\ a % s < s
         /\ s * (a \div s) \in Nat /\ a = s * (a \div s) + (a % s)
<1> DEFINE q == a \div s  r == a % s
<1>1. q \in Nat /\ r \in 0 .. (s - 1) /\ a = q * s + r
  BY Remainders
<1> HIDE DEF q, r
<1>2. q * s = s * q /\ s * q \in Nat
  BY <1>1
<1>3. q \in Nat /\ r \in Nat /\ r < s /\ s * q \in Nat /\ a = s * q + r
  BY <1>1, <1>2
<1> QED BY <1>3 DEF q, r

(* Each part of a whole, in units: so many, and a remainder. *)
Divided(f, floor, rest, target, sum) ==
  \A i \in DOMAIN f : rest[i] < sum /\ f[i] * target = sum * floor[i] + rest[i]

(* The units left over are fewer than the parts with a remainder.           *)
LEMMA LeftOver ==
  ASSUME NEW D, IsFiniteSet(D), NEW f \in [D -> Nat], NEW target \in Nat,
         NEW floor \in [D -> Nat], NEW rest \in [D -> Nat], NEW sum \in Nat \ {0},
         sum = Sigma(f, D), Divided(f, floor, rest, target, sum),
         NEW some, some = {i \in D : rest[i] > 0}
  PROVE  /\ Sigma(floor, D) \in Int /\ target - Sigma(floor, D) \in Nat
         /\ target - Sigma(floor, D) <= Cardinality(some)
         /\ some # {} => target - Sigma(floor, D) < Cardinality(some)
<1> DEFINE all == [i \in D |-> target * f[i]]
           whole == [i \in D |-> sum * floor[i]]
           limit == [i \in D |-> sum - 1]
           residue == target - Sigma(floor, D)
<1>1. /\ f \in [D -> Int] /\ floor \in [D -> Int] /\ rest \in [D -> Int] /\ limit \in [D -> Int]
      /\ D \in SUBSET D /\ some \in SUBSET D /\ D \ some \in SUBSET D
      /\ target \in Int /\ sum \in Int /\ 0 \in Int
  OBVIOUS
<1>2. all \in [D -> Int] /\ whole \in [D -> Int]
  BY <1>1
<1>3. \A i \in D : all[i] = whole[i] + rest[i] /\ rest[i] < sum
  <2>1. ASSUME NEW i \in D PROVE all[i] = whole[i] + rest[i] /\ rest[i] < sum
    <3>1. f[i] * target = sum * floor[i] + rest[i] /\ rest[i] < sum
      BY DEF Divided
    <3>2. f[i] \in Int /\ all[i] = target * f[i] /\ whole[i] = sum * floor[i]
      OBVIOUS
    <3>3. f[i] * target = target * f[i]
      BY <3>2
    <3> QED BY <3>1, <3>2, <3>3
  <2> QED BY <2>1
<1>4. Sigma(all, D) = target * sum
  <2>1. Sigma(all, D) = target * Sigma(f, D)
    BY <1>1, SigmaTimes
  <2> QED BY <2>1
<1>5. Sigma(whole, D) = sum * Sigma(floor, D)
  BY <1>1, SigmaTimes
<1> HIDE DEF all, whole
<1>6. Sigma(all, D) = Sigma(whole, D) + Sigma(rest, D)
  BY <1>1, <1>2, <1>3, SigmaPlus
<1>7. \A i \in D : limit[i] = sum - 1 /\ rest[i] >= 0 /\ sum - 1 \in Int
  OBVIOUS
<1>8. (\A i \in D \ some : rest[i] = 0) /\ some \cup (D \ some) = D /\ some \cap (D \ some) = {}
  OBVIOUS
<1> HIDE DEF limit
<1>9. Sigma(limit, some) = (sum - 1) * Cardinality(some)
  BY <1>1, <1>7, SigmaOfEqual
<1>10. IsFiniteSet(some) /\ IsFiniteSet(D \ some)
  BY <1>1, FS_Subset
<1>11. Cardinality(some) \in Nat /\ Cardinality(D \ some) \in Nat
  BY <1>10, FS_CardinalityType
<1>12. Sigma(rest, D) = Sigma(rest, some)
  <2>1. Sigma(rest, D \ some) = 0 * Cardinality(D \ some)
    BY <1>1, <1>8, SigmaOfEqual
  <2>2. 0 * Cardinality(D \ some) = 0
    BY <1>11
  <2>3. Sigma(rest, some \cup (D \ some)) = Sigma(rest, some) + Sigma(rest, D \ some)
    BY <1>1, <1>8, SigmaUnion
  <2>4. Sigma(rest, some) \in Int
    BY <1>1, SigmaTakes
  <2>5. Sigma(rest, D) = Sigma(rest, some) + 0
    BY <1>8, <2>1, <2>2, <2>3
  <2> QED BY <2>4, <2>5
<1>13. 0 <= Sigma(rest, some) /\ Sigma(rest, some) <= Sigma(limit, some)
  <2>1. \A i \in some : rest[i] <= limit[i]
    BY <1>1, <1>3, <1>7
  <2>2. some \in SUBSET (D \cap D)
    BY <1>1
  <2>3. Sigma(rest, some) <= Sigma(limit, some)
    BY <1>1, <2>1, <2>2, SigmaAtMost
  <2>4. 0 <= Sigma(rest, some)
    BY <1>1, <1>7, SigmaGrows
  <2> QED BY <2>3, <2>4
<1> DEFINE F == Sigma(floor, D)  R == Sigma(rest, D)  c == Cardinality(some)
<1>14. F \in Int /\ R \in Int
  BY <1>1, SigmaTakes
<1>15. target * sum = sum * F + R /\ 0 <= R /\ R <= (sum - 1) * c /\ residue = target - F
  BY <1>4, <1>5, <1>6, <1>9, <1>12, <1>13
<1>16. c \in Nat /\ (some # {} => c # 0)
  BY <1>10, <1>11, FS_EmptySet
<1> HIDE DEF F, R, c, residue
<1>17. sum * residue = R
  <2>1. sum * (target - F) = sum * target - sum * F /\ sum * target = target * sum
    BY <1>1, <1>14
  <2>2. sum * F \in Int /\ target * sum \in Int
    BY <1>1, <1>14
  <2> QED BY <1>14, <1>15, <2>1, <2>2
<1>18. residue >= 0 /\ residue \in Int
  <2>1. residue \in Int /\ sum > 0
    BY <1>14, <1>15
  <2>2. sum * residue >= 0
    BY <1>15, <1>17
  <2> QED BY <1>1, <2>1, <2>2, Products
<1>19. residue <= c /\ (some # {} => residue < c)
  <2>1. sum * (c - residue) = sum * c - sum * residue /\ (sum - 1) * c = sum * c - c
    BY <1>1, <1>16, <1>18
  <2>2. /\ sum * c \in Int /\ sum * residue \in Int /\ c - residue \in Int /\ sum > 0
        /\ sum * 0 = 0 /\ sum * (c - residue) \in Int
    BY <1>1, <1>16, <1>18
  <2>3. sum * (c - residue) >= c
    BY <1>14, <1>15, <1>16, <1>17, <2>1, <2>2
  <2>4. c - residue >= 0
    BY <1>1, <1>16, <2>2, <2>3, Products
  <2>5. some # {} => c - residue # 0
    BY <1>16, <2>2, <2>3
  <2> QED BY <1>16, <1>18, <2>4, <2>5
<1> QED BY <1>14, <1>18, <1>19 DEF F, c, residue

(* A sum of ones and, elsewhere, noughts. *)
LEMMA SigmaOfSome ==
  ASSUME NEW D, IsFiniteSet(D), NEW f \in [D -> Int], NEW T \in SUBSET D,
         \A x \in T : f[x] = 1, \A x \in D \ T : f[x] = 0
  PROVE  Sigma(f, D) = Cardinality(T)
<1> DEFINE U == D \ T
<1>1. U \in SUBSET D /\ T \cap U = {} /\ T \cup U = D /\ 0 \in Int /\ \A x \in U : f[x] = 0
  OBVIOUS
<1> HIDE DEF U
<1>2. Sigma(f, T \cup U) = Sigma(f, T) + Sigma(f, U)
  BY <1>1, SigmaUnion
<1>3. Sigma(f, U) = 0 * Cardinality(U)
  BY <1>1, SigmaOfEqual
<1>4. Sigma(f, T) = Cardinality(T)
  BY SigmaOfOnes
<1>5. Cardinality(T) \in Nat /\ Cardinality(U) \in Nat
  BY <1>1, CountApart
<1> DEFINE c == Cardinality(T)  e == Cardinality(U)
<1>6. Sigma(f, D) = c + 0 * e /\ c \in Nat /\ e \in Nat
  BY <1>1, <1>2, <1>3, <1>4, <1>5
<1> HIDE DEF c, e
<1>7. c + 0 * e = c
  BY <1>6
<1> QED BY <1>6, <1>7 DEF c

(* What each part is given of a whole, in D: the whole part of its share, and *)
(* one of the units left over if its remainder is among the greatest.         *)
GivenTo(D, f, target, sum, floor, rest, before, shown) ==
  /\ D \in SUBSET Int /\ IsFiniteSet(D) /\ f \in [D -> Nat] /\ target \in Nat
  /\ sum \in Nat \ {0} /\ sum = Sigma(f, D)
  /\ floor \in [D -> Nat] /\ rest \in [D -> Nat] /\ Divided(f, floor, rest, target, sum)
  /\ before = [i \in D |-> {j \in D : rest[j] > rest[i] \/ (rest[j] = rest[i] /\ j < i)}]
  /\ shown = [i \in D |-> floor[i] + (IF Cardinality(before[i]) < target - Sigma(floor, D)
                                         THEN 1 ELSE 0)]

(* Shares that are rounded down and given the units left over, those with    *)
(* the greatest remainder first, add up to the target, are less than a unit  *)
(* from the exact ones, and keep their order.                                *)
LEMMA UnitsAddUp ==
  ASSUME NEW D, NEW f, NEW target, NEW sum, NEW floor, NEW rest, NEW before, NEW shown,
         GivenTo(D, f, target, sum, floor, rest, before, shown)
  PROVE  /\ shown \in [D -> Int] /\ Sigma(shown, D) = target
         /\ \A i \in D : /\ shown[i] * sum < f[i] * target + sum
                         /\ f[i] * target < shown[i] * sum + sum
                         /\ \A j \in D : f[i] > f[j] => shown[i] >= shown[j]
<1> DEFINE residue == target - Sigma(floor, D)
           bump == [i \in D |-> IF Cardinality(before[i]) < residue THEN 1 ELSE 0]
<1>1. IsFiniteSet(D) /\ D \in SUBSET Int
  BY DEF GivenTo
<1>2. f \in [D -> Nat] /\ sum = Sigma(f, D) /\ target \in Nat
  BY DEF GivenTo
<1>4. sum \in Nat \ {0}
  BY DEF GivenTo
<1>5. /\ shown = [i \in D |-> floor[i] + bump[i]]
      /\ before = [i \in D |-> {j \in D : rest[j] > rest[i] \/ (rest[j] = rest[i] /\ j < i)}]
  BY DEF GivenTo
<1>6. floor \in [D -> Nat] /\ rest \in [D -> Nat] /\ Divided(f, floor, rest, target, sum)
  BY DEF GivenTo
<1>7. /\ Sigma(floor, D) \in Int /\ residue \in Nat
      /\ residue <= Cardinality({i \in D : rest[i] > 0})
  <2> DEFINE some == {i \in D : rest[i] > 0}
  <2>0. some = {i \in D : rest[i] > 0}
    OBVIOUS
  <2> HIDE DEF bump, residue, some
  <2>1. /\ Sigma(floor, D) \in Int /\ target - Sigma(floor, D) \in Nat
        /\ target - Sigma(floor, D) <= Cardinality(some)
    BY <2>0, <1>1, <1>2, <1>4, <1>6, LeftOver
  <2> QED BY <2>0, <2>1 DEF residue
<1>8. Orders(before, D)
  <2> DEFINE a == [i \in D |-> 0 - rest[i]]  b == [i \in D |-> i]
             other == [i \in D |-> {j \in D : a[j] < a[i] \/ (a[j] = a[i] /\ b[j] < b[i])}]
  <2>1. \A i \in D : rest[i] \in Nat /\ i \in Int
    BY <1>1, <1>6
  <2>2. a \in [D -> Int] /\ b \in [D -> Int] /\ \A i, j \in D : b[i] = b[j] => i = j
    BY <2>1
  <2>3. before = other
    <3>1. \A i, j \in D : (rest[j] > rest[i] \/ (rest[j] = rest[i] /\ j < i))
                            <=> (a[j] < a[i] \/ (a[j] = a[i] /\ b[j] < b[i]))
      BY <2>1
    <3> HIDE DEF a, b
    <3> QED BY <1>5, <3>1
  <2> HIDE DEF a, b
  <2>4. Orders(other, D)
    BY <2>2, RankThenId
  <2> QED BY <2>3, <2>4
<1>9. \A i, j \in D : j \in before[i] <=> rest[j] > rest[i] \/ (rest[j] = rest[i] /\ j < i)
  BY <1>5
<1> HIDE DEF residue
<1>10. /\ \A i \in D : Cardinality(before[i]) \in Nat
       /\ \A i, j \in D : i \in before[j] <=> Cardinality(before[i]) < Cardinality(before[j])
  <2>0. Cardinality(D) \in Nat
    BY <1>1, FS_CardinalityType
  <2>1. /\ \A i \in D : Cardinality(before[i]) \in 0 .. Cardinality(D) - 1
        /\ \A i, j \in D : i \in before[j] <=> Cardinality(before[i]) < Cardinality(before[j])
    <3> QED BY <1>1, <1>8, RanksAreTaken
  <2> QED BY <2>0, <2>1
<1>11. \A i \in D : bump[i] \in {0, 1} /\ (bump[i] = 1 <=> Cardinality(before[i]) < residue)
  OBVIOUS
<1>12. bump \in [D -> Int] /\ floor \in [D -> Int]
  BY <1>6
<1>13. Sigma(bump, D) = residue
  <2> DEFINE T == {i \in D : Cardinality(before[i]) < residue}
  <2>1. residue <= Cardinality(D)
    <3> DEFINE some == {i \in D : rest[i] > 0}
    <3>1. IsFiniteSet(D) /\ some \in SUBSET D
      BY <1>1
    <3> HIDE DEF some
    <3>2. Cardinality(some) <= Cardinality(D) /\ Cardinality(some) \in Nat /\ Cardinality(D) \in Nat
      BY <3>1, CountApart
    <3> QED BY <1>7, <3>2 DEF some
  <2>2. IsFiniteSet(T) /\ Cardinality(T) = residue
    <3> QED BY <1>1, <1>7, <1>8, <2>1, FirstRanks
  <2>3. T \in SUBSET D /\ (\A i \in T : bump[i] = 1) /\ \A i \in D \ T : bump[i] = 0
    OBVIOUS
  <2> HIDE DEF T, bump
  <2>4. Sigma(bump, D) = Cardinality(T)
    <3>1. IsFiniteSet(D) /\ bump \in [D -> Int] /\ T \in SUBSET D
      BY <1>1, <1>12, <2>3
    <3> QED BY <3>1, <2>3, SigmaOfSome
  <2> QED BY <2>2, <2>4
<1>14. shown \in [D -> Int] /\ Sigma(shown, D) = target
  <2>1. shown = [i \in D |-> shown[i]] /\ shown \in [D -> Int] /\ \A i \in D : shown[i] = floor[i] + bump[i]
    <3>1. \A i \in D : floor[i] + bump[i] \in Int
      BY <1>11, <1>12
    <3> HIDE DEF bump
    <3> QED BY <1>5, <3>1
  <2>2. /\ D \in SUBSET D /\ IsFiniteSet(D) /\ floor \in [D -> Int] /\ bump \in [D -> Int]
    BY <1>1, <1>12
  <2> HIDE DEF bump
  <2>4. Sigma(shown, D) = Sigma(floor, D) + Sigma(bump, D)
    BY <2>1, <2>2, SigmaPlus
  <2> QED BY <1>2, <1>7, <1>13, <2>1, <2>4 DEF residue
(* What has no remainder gets no unit.                                      *)
<1>15. ASSUME NEW i \in D, bump[i] = 1 PROVE rest[i] > 0
  <2>1. SUFFICES ASSUME ~(rest[i] > 0) PROVE FALSE
    OBVIOUS
  <2> DEFINE some == {j \in D : rest[j] > 0}
  <2>2. some \in SUBSET before[i]
    <3>1. \A j \in D : rest[j] \in Nat
      BY <1>6
    <3> QED BY <1>9, <2>1, <3>1
  <2>3. IsFiniteSet(before[i])
    <3>1. before[i] \in SUBSET D
      BY <1>8 DEF Orders
    <3> QED BY <1>1, <3>1, FS_Subset
  <2> HIDE DEF some
  <2>4. Cardinality(some) <= Cardinality(before[i]) /\ Cardinality(some) \in Nat
    BY <2>2, <2>3, CountApart
  <2>5. residue <= Cardinality(some)
    BY <1>7 DEF some
  <2> QED BY <1>7, <1>10, <1>11, <1>15, <2>4, <2>5
<1> HIDE DEF bump
<1>16. ASSUME NEW i \in D
       PROVE  /\ shown[i] = floor[i] + bump[i] /\ floor[i] \in Nat /\ rest[i] \in Nat /\ rest[i] < sum
              /\ f[i] \in Nat /\ f[i] * target = sum * floor[i] + rest[i]
              /\ shown[i] * sum = sum * floor[i] + sum * bump[i] /\ sum * floor[i] \in Nat
  <2>1. /\ shown[i] = floor[i] + bump[i] /\ floor[i] \in Nat /\ rest[i] \in Nat /\ rest[i] < sum
        /\ f[i] \in Nat /\ f[i] * target = sum * floor[i] + rest[i]
    <3>1. DOMAIN f = D /\ f[i] \in Nat
      BY <1>2
    <3>2. shown[i] = floor[i] + bump[i]
      BY <1>5
    <3> QED BY <1>6, <3>1, <3>2 DEF Divided
  <2>2. bump[i] \in Int
    BY <1>11
  <2>3. (floor[i] + bump[i]) * sum = sum * floor[i] + sum * bump[i] /\ sum * floor[i] \in Nat
    BY <1>4, <2>1, <2>2
  <2> QED BY <2>1, <2>3
<1>17. ASSUME NEW i \in D
       PROVE  /\ shown[i] * sum < f[i] * target + sum
              /\ f[i] * target < shown[i] * sum + sum
  <2> DEFINE w == sum * floor[i]  a == f[i] * target  b == shown[i] * sum
  <2>1. w \in Nat /\ a = w + rest[i] /\ b = w + sum * bump[i] /\ rest[i] \in Nat /\ rest[i] < sum
    BY <1>16
  <2>2. CASE bump[i] = 0
    <3>1. b = w
      BY <1>4, <2>1, <2>2
    <3> HIDE DEF w, a, b
    <3>2. b < a + sum /\ a < b + sum
      BY <1>4, <2>1, <3>1
    <3> QED BY <3>2 DEF a, b
  <2>3. CASE bump[i] = 1
    <3>1. b = w + sum
      BY <1>4, <2>1, <2>3
    <3>2. rest[i] > 0
      BY <1>15, <2>3
    <3> HIDE DEF w, a, b
    <3>3. b < a + sum /\ a < b + sum
      BY <1>4, <2>1, <3>1, <3>2
    <3> QED BY <3>3 DEF a, b
  <2> QED BY <1>11, <2>2, <2>3
<1>18. ASSUME NEW i \in D, NEW j \in D, f[i] > f[j] PROVE shown[i] >= shown[j]
  <2> DEFINE a == f[i] * target  b == f[j] * target
  <2>1. /\ a \in Int /\ b \in Int /\ b <= a /\ (target > 0 => b < a)
        /\ (target = 0 => b = 0)
    <3>0. f[i] \in Nat /\ f[j] \in Nat /\ target \in Nat /\ f[i] - f[j] > 0 /\ f[i] - f[j] \in Int
      BY <1>2, <1>16, <1>18
    <3>1. a - b = (f[i] - f[j]) * target
      BY <3>0
    <3>2. (f[i] - f[j]) * target >= 0
      BY <3>0
    <3>3. target > 0 => (f[i] - f[j]) * target > 0
      BY <3>0
    <3>4. a \in Int /\ b \in Int /\ (target = 0 => b = 0)
      <4>1. f[i] \in Nat /\ f[j] \in Nat
        BY <1>16
      <4>2. target = 0 => f[j] * target = 0
        BY <4>1
      <4> QED BY <3>0, <4>1, <4>2
    <3> HIDE DEF a, b
    <3> QED BY <3>1, <3>2, <3>3, <3>4
  <2>2. a = sum * floor[i] + rest[i] /\ b = sum * floor[j] + rest[j]
    BY <1>16
  <2>3. floor[i] \in Nat /\ floor[j] \in Nat /\ rest[i] \in Nat /\ rest[j] \in Nat /\ rest[i] < sum /\ rest[j] < sum
    BY <1>16
  <2> DEFINE p == sum * floor[i]  q == sum * floor[j]
  <2>4. p \in Nat /\ q \in Nat
    BY <1>16
  <2> HIDE DEF a, b
  <2>0. sum \in Int /\ sum > 0
    BY <1>4
  <2>5. ~(floor[i] < floor[j])
    <3>1. SUFFICES ASSUME floor[i] < floor[j] PROVE FALSE
      OBVIOUS
    <3>2. p + sum <= q
      <4>1. sum \in Nat \ {0} /\ floor[i] \in Int /\ floor[j] \in Int
        BY <1>4, <2>3
      <4>2. floor[i] * sum + sum <= floor[j] * sum
        BY <3>1, <4>1, PagesApart
      <4>3. floor[i] * sum = p /\ floor[j] * sum = q
        BY <1>4, <2>3
      <4> QED BY <4>2, <4>3
    <3>3. a = p + rest[i] /\ b = q + rest[j]
      BY <2>2
    <3>4. a \in Int /\ b \in Int /\ b <= a
      BY <2>1
    <3> HIDE DEF p, q
    <3> QED BY <2>0, <2>3, <2>4, <3>2, <3>3, <3>4
  <2>6. CASE floor[i] > floor[j]
    <3>1. shown[i] = floor[i] + bump[i] /\ shown[j] = floor[j] + bump[j]
      BY <1>16
    <3>2. bump[i] \in {0, 1} /\ bump[j] \in {0, 1}
      BY <1>11
    <3> QED BY <2>3, <2>6, <3>1, <3>2
  <2>7. CASE floor[i] = floor[j]
    <3>1. bump[j] = 1 => bump[i] = 1
      <4>1. SUFFICES ASSUME bump[j] = 1 PROVE bump[i] = 1
        OBVIOUS
      <4>2. p = q
        BY <2>7
      <4>3. target # 0
        <5>1. SUFFICES ASSUME target = 0 PROVE FALSE
          OBVIOUS
        <5>2. b = 0 /\ b = q + rest[j]
          BY <2>1, <2>2, <5>1
        <5>3. rest[j] > 0
          BY <1>15, <4>1
        <5> HIDE DEF q
        <5> QED BY <2>3, <2>4, <5>2, <5>3
      <4>4. rest[i] > rest[j]
        <5>1. a = p + rest[i] /\ b = q + rest[j] /\ b < a
          <6>1. target > 0
            BY <1>2, <4>3
          <6> QED BY <2>1, <2>2, <6>1
        <5> HIDE DEF p, q
        <5> QED BY <2>3, <2>4, <4>2, <5>1
      <4>5. Cardinality(before[i]) < Cardinality(before[j])
        BY <1>9, <1>10, <4>4
      <4> QED BY <1>7, <1>10, <1>11, <4>1, <4>5
    <3> QED BY <1>11, <1>16, <2>3, <2>7, <3>1
  <2> QED BY <2>3, <2>5, <2>6, <2>7
<1> QED BY <1>14, <1>17, <1>18

(* The percents shown add up to the whole; none is a unit or more from what   *)
(* it stands for, and a larger part has no smaller one (percent.ts,          *)
(* distributePercents).                                                     *)
THEOREM PercentsAlwaysAddUp ==
  ASSUME NEW fractions \in Seq(Nat), NEW target \in Nat
  PROVE  PercentsAddUp(fractions, target)
<1> DEFINE n == Len(fractions)  D == 1 .. n
           sum == SumOver(fractions)
           floor == [i \in D |-> (fractions[i] * target) \div sum]
           rest == [i \in D |-> (fractions[i] * target) % sum]
           residue == target - Sigma(floor, D)
           before == [i \in D |-> {j \in D : rest[j] > rest[i] \/ (rest[j] = rest[i] /\ j < i)}]
           bump == [i \in D |-> IF Cardinality(before[i]) < residue THEN 1 ELSE 0]
           shown == DistributePercents(fractions, target)
<1>1. /\ n \in Nat /\ IsFiniteSet(D) /\ fractions \in [D -> Nat] /\ DOMAIN fractions = D
      /\ fractions \in [D -> Int] /\ D \in SUBSET Int
  <2>1. n \in Nat /\ DOMAIN fractions = D /\ \A i \in D : fractions[i] \in Nat
    BY LenProperties
  <2>2. IsFiniteSet(D) /\ D \in SUBSET Int
    BY <2>1, FS_Interval
  <2>3. fractions \in [D -> Nat]
    BY <2>1
  <2> HIDE DEF D
  <2>4. fractions \in [D -> Int]
    BY <2>3
  <2> QED BY <2>1, <2>2, <2>3, <2>4
<1>2. sum = Sigma(fractions, D) /\ sum \in Int
  <2>1. sum = Sigma(fractions, D)
    <3>1. fractions = [i \in D |-> fractions[i]]
      BY <1>1
    <3> HIDE DEF D
    <3> QED BY <3>1, SumOverIsSigma
  <2>2. D \in SUBSET D
    OBVIOUS
  <2> HIDE DEF D, sum
  <2> QED BY <1>1, <2>1, <2>2, SigmaTakes
<1>3. SUFFICES ASSUME sum > 0
      PROVE  /\ SumOver(shown) = target
             /\ \A i \in D : /\ shown[i] * sum < fractions[i] * target + sum
                             /\ fractions[i] * target < shown[i] * sum + sum
                             /\ \A j \in D : fractions[i] > fractions[j] => shown[i] >= shown[j]
  BY <1>1 DEF PercentsAddUp
<1>4. sum \in Nat \ {0}
  BY <1>2, <1>3
<1>5. shown = [i \in D |-> floor[i] + bump[i]]
  <2>1. Total(1 .. n, LAMBDA i : fractions[i]) = sum
    <3>1. fractions = [i \in 1 .. n |-> fractions[i]]
      BY <1>1
    <3> QED BY <3>1 DEF Total
  <2>2. Total(1 .. n, LAMBDA i : (fractions[i] * target) \div sum) = Sigma(floor, D)
    <3>1. Total(1 .. n, LAMBDA i : (fractions[i] * target) \div sum) = SumOver(floor)
      BY DEF Total
    <3>2. floor = [i \in D |-> floor[i]]
      OBVIOUS
    <3> HIDE DEF floor, D
    <3> QED BY <3>1, <3>2, SumOverIsSigma
  <2> DEFINE s == Total(1 .. n, LAMBDA i : fractions[i])
             Floor(i) == (fractions[i] * target) \div s
             Rest(i) == (fractions[i] * target) % s
             R == target - Total(1 .. n, Floor)
             Before(i) == {j \in 1 .. n : Rest(j) > Rest(i) \/ (Rest(j) = Rest(i) /\ j < i)}
  <2>3. shown = [i \in 1 .. n |-> IF s = 0 THEN 0
                                  ELSE Floor(i) + (IF Cardinality(Before(i)) < R THEN 1 ELSE 0)]
    BY DEF DistributePercents
  <2>4. s = sum /\ s # 0 /\ R = residue
    <3>1. s = sum /\ s # 0
      BY <1>4, <2>1
    <3>2. Total(1 .. n, Floor) = Total(1 .. n, LAMBDA i : (fractions[i] * target) \div sum)
      <4> HIDE DEF s
      <4>1. [i \in 1 .. n |-> Floor(i)] = [i \in 1 .. n |-> (fractions[i] * target) \div sum]
        BY <3>1
      <4> HIDE DEF Floor
      <4> QED BY <4>1 DEF Total
    <3> HIDE DEF s, Floor
    <3> QED BY <2>2, <3>1, <3>2
  <2>5. \A i \in D : Floor(i) = floor[i] /\ Rest(i) = rest[i]
    BY <2>4
  <2>6. \A i \in D : Before(i) = before[i]
    <3> HIDE DEF Rest, rest
    <3> QED BY <2>5
  <2>7. \A i \in D : bump[i] = IF Cardinality(Before(i)) < R THEN 1 ELSE 0
    <3> HIDE DEF R, residue, Before, before
    <3> QED BY <2>4, <2>6
  <2>8. s = sum /\ sum # 0
    BY <1>4, <2>4
  <2>9. \A i \in 1 .. n : (IF s = 0 THEN 0 ELSE Floor(i) + (IF Cardinality(Before(i)) < R THEN 1 ELSE 0))
                           = floor[i] + bump[i]
    <3>1. \A i \in D : Floor(i) = floor[i]
      BY <2>5
    <3> HIDE DEF s, Floor, R, Before, floor, bump, sum, residue, before, rest, Rest, shown
    <3> QED BY <2>7, <2>8, <3>1
  <2> HIDE DEF s, Floor, R, Before, floor, bump, sum, shown
  <2> QED BY <2>3, <2>9
<1>6. /\ floor \in [D -> Nat] /\ rest \in [D -> Nat] /\ Divided(fractions, floor, rest, target, sum)
  <2>1. ASSUME NEW i \in D
        PROVE  /\ floor[i] \in Nat /\ rest[i] \in Nat /\ rest[i] < sum
               /\ fractions[i] * target = sum * floor[i] + rest[i]
    <3> DEFINE a == fractions[i] * target
    <3>1. a \in Nat /\ floor[i] = a \div sum /\ rest[i] = a % sum
      <4>1. fractions[i] \in Nat
        BY <1>1
      <4> QED BY <4>1
    <3> HIDE DEF a, floor, rest, sum, D
    <3> QED BY <1>4, <3>1, Remainder DEF a
  <2> HIDE DEF sum
  <2>2. floor \in [D -> Nat] /\ rest \in [D -> Nat]
    BY <2>1
  <2> HIDE DEF floor, rest
  <2> QED BY <1>1, <2>1, <2>2 DEF Divided
<1> HIDE DEF floor, rest, sum, shown
<1>7. shown \in [D -> Int] /\ Sigma(shown, D) = target
      /\ \A i \in D : /\ shown[i] * sum < fractions[i] * target + sum
                      /\ fractions[i] * target < shown[i] * sum + sum
                      /\ \A j \in D : fractions[i] > fractions[j] => shown[i] >= shown[j]
  <2>1. shown = [i \in D |-> floor[i] + (IF Cardinality(before[i]) < target - Sigma(floor, D)
                                            THEN 1 ELSE 0)]
    BY <1>5
  <2>2. before = [i \in D |-> {j \in D : rest[j] > rest[i] \/ (rest[j] = rest[i] /\ j < i)}]
    OBVIOUS
  <2> HIDE DEF D, n, before, residue
  <2>4. /\ D \in SUBSET Int /\ IsFiniteSet(D) /\ fractions \in [D -> Nat] /\ sum \in Nat \ {0}
        /\ sum = Sigma(fractions, D) /\ floor \in [D -> Nat] /\ rest \in [D -> Nat]
        /\ Divided(fractions, floor, rest, target, sum)
    BY <1>1, <1>2, <1>4, <1>6
  <2>5. GivenTo(D, fractions, target, sum, floor, rest, before, shown)
    BY <2>1, <2>2, <2>4 DEF GivenTo
  <2> QED BY <2>5, UnitsAddUp
<1>8. SumOver(shown) = Sigma(shown, D)
  <2>1. shown = [i \in D |-> shown[i]]
    BY <1>5
  <2> HIDE DEF D, shown
  <2> QED BY <2>1, SumOverIsSigma
<1> QED BY <1>7, <1>8

(* What is nought adds nothing. *)
LEMMA SigmaOfNoughts ==
  ASSUME NEW D, IsFiniteSet(D), NEW f \in [D -> Int], NEW T \in SUBSET D, \A x \in D \ T : f[x] = 0
  PROVE  Sigma(f, D) = Sigma(f, T)
<1> DEFINE U == D \ T
<1>1. U \in SUBSET D /\ T \cap U = {} /\ T \cup U = D /\ 0 \in Int /\ \A x \in U : f[x] = 0
  OBVIOUS
<1> HIDE DEF U
<1>2. Sigma(f, T \cup U) = Sigma(f, T) + Sigma(f, U)
  BY <1>1, SigmaUnion
<1>3. Sigma(f, U) = 0 * Cardinality(U)
  BY <1>1, SigmaOfEqual
<1>4. Sigma(f, T) \in Int /\ Cardinality(U) \in Nat
  BY <1>1, SigmaTakes, CountApart
<1>5. Sigma(f, D) = Sigma(f, T) + 0 * Cardinality(U)
  BY <1>1, <1>2, <1>3
<1> DEFINE c == Sigma(f, T)  e == Cardinality(U)
<1> HIDE DEF c, e
<1>6. c \in Int /\ e \in Nat /\ Sigma(f, D) = c + 0 * e
  BY <1>4, <1>5 DEF c, e
<1>7. c + 0 * e = c
  BY <1>6
<1> QED BY <1>6, <1>7 DEF c

(* A sum of no negative numbers is nought if they all are, and only then.   *)
LEMMA SigmaIsNought ==
  ASSUME NEW D, IsFiniteSet(D), NEW f \in [D -> Int], NEW A \in SUBSET D, \A x \in A : f[x] >= 0
  PROVE  Sigma(f, A) = 0 <=> \A x \in A : f[x] = 0
<1>1. ASSUME NEW x \in A PROVE f[x] <= Sigma(f, A)
  <2>1. {x} \in SUBSET A /\ {x} \in SUBSET D /\ x \in {x} /\ {x} \ {x} = {}
    OBVIOUS
  <2>2. Sigma(f, {x}) = f[x] + 0
    BY <2>1, SigmaTakes
  <2>3. Sigma(f, {x}) <= Sigma(f, A)
    BY <2>1, SigmaGrows
  <2> QED BY <2>2, <2>3
<1>2. ASSUME \A x \in A : f[x] = 0 PROVE Sigma(f, A) = 0
  <2>1. 0 \in Int /\ Cardinality(A) \in Nat
    <3>1. Cardinality(A) \in Nat
      BY CountApart
    <3> QED BY <3>1
  <2>2. Sigma(f, A) = 0 * Cardinality(A)
    BY <1>2, <2>1, SigmaOfEqual
  <2>3. 0 * Cardinality(A) = 0
    BY <2>1
  <2> QED BY <2>2, <2>3
<1>3. ASSUME Sigma(f, A) = 0, NEW x \in A PROVE f[x] = 0
  <2>1. f[x] <= 0 /\ f[x] >= 0 /\ f[x] \in Int
    BY <1>1, <1>3
  <2> QED BY <2>1
<1> QED BY <1>2, <1>3

-----------------------------------------------------------------------------
(* What OTEL counted (otel.ts).                                             *)


(* The last value of a series is the greatest of its values. *)
LEMMA GreatestOfSeries ==
  ASSUME NEW db, ScrapesFit(db), NEW T \in SUBSET db.scrapes, NEW values, values = {o.value : o \in T}
  PROVE  /\ values = {} <=> T = {}
         /\ values # {} => /\ Max(values) \in values /\ Max(values) \in Nat
                           /\ \A o \in T : o.value <= Max(values)
<1>1. IsFiniteSet(T) /\ \A o \in T : o.value \in Nat
  BY FS_Subset DEF ScrapesFit
<1> DEFINE f == [o \in T |-> o.value]
<1>2. values = {f[o] : o \in T}
  OBVIOUS
<1> HIDE DEF f
<1>3. IsFiniteSet(values)
  <2>1. IsFiniteSet({f[o] : o \in T})
    BY <1>1, ImageIsFinite
  <2> QED BY <1>2, <2>1
<1>4. values \in SUBSET Int /\ values \in SUBSET Nat
  BY <1>1
<1>5. values # {} => Max(values) \in values /\ \A y \in values : y <= Max(values)
  BY <1>3, <1>4, MinAndMax
<1> QED BY <1>4, <1>5

(* What was counted is a natural number and no less than any sample said.    *)
LEMMA CountsAreCounts ==
  ASSUME NEW db, ScrapesFit(db), NEW metric, NEW id
  PROVE  /\ FinalScalar(db, metric, id) \in Nat
         /\ \A label : /\ FinalValue(db, metric, id, label) \in Nat
                       /\ \A o \in db.scrapes : o.metric = metric /\ o.session = id /\ o.label = label
                            => o.value <= FinalValue(db, metric, id, label)
<1>1. FinalScalar(db, metric, id) \in Nat
  <2> DEFINE T == {x \in db.scrapes : x.metric = metric /\ x.session = id}
             values == {o.value : o \in T}
  <2>1. T \in SUBSET db.scrapes /\ values = {o.value : o \in T}
    OBVIOUS
  <2>2. FinalScalar(db, metric, id) = IF values = {} THEN 0 ELSE Max(values)
    BY DEF FinalScalar
  <2> HIDE DEF T, values
  <2>3. values # {} => Max(values) \in Nat
    BY <2>1, GreatestOfSeries
  <2> QED BY <2>2, <2>3
<1>2. ASSUME NEW label
      PROVE  /\ FinalValue(db, metric, id, label) \in Nat
             /\ \A o \in db.scrapes : o.metric = metric /\ o.session = id /\ o.label = label
                  => o.value <= FinalValue(db, metric, id, label)
  <2> DEFINE T == {x \in db.scrapes : x.metric = metric /\ x.session = id /\ x.label = label}
             values == {o.value : o \in T}
  <2>1. T \in SUBSET db.scrapes /\ values = {o.value : o \in T}
    OBVIOUS
  <2>2. FinalValue(db, metric, id, label) = IF values = {} THEN 0 ELSE Max(values)
    BY DEF FinalValue, SeriesOf
  <2>3. \A o \in db.scrapes : o.metric = metric /\ o.session = id /\ o.label = label => o \in T
    OBVIOUS
  <2> HIDE DEF T, values
  <2>4. /\ values = {} <=> T = {}
        /\ values # {} => Max(values) \in Nat /\ \A o \in T : o.value <= Max(values)
    BY <2>1, GreatestOfSeries
  <2> QED BY <2>2, <2>3, <2>4
<1> QED BY <1>1, <1>2

(* The counts of the sessions, as functions. *)
LabelCounts(db, metric, label) == [s \in db.sessions |-> FinalValue(db, metric, s.id, label)]

(* A total over sessions of what was counted under a label is a sum.         *)
LEMMA LabelTotals ==
  ASSUME NEW db, LocalFits(db), ScrapesFit(db), NEW metric, NEW label
  PROVE  LET f == LabelCounts(db, metric, label) IN
         /\ f \in [db.sessions -> Int] /\ \A s \in db.sessions : f[s] \in Nat
         /\ \A S \in SUBSET db.sessions :
              Total(S, LAMBDA s : FinalValue(db, metric, s.id, label)) = Sigma(f, S)
<1> DEFINE f == LabelCounts(db, metric, label)
<1>1. f \in [db.sessions -> Int] /\ \A s \in db.sessions : f[s] \in Nat
  <2>1. \A s \in db.sessions : FinalValue(db, metric, s.id, label) \in Nat
    BY CountsAreCounts
  <2> QED BY <2>1 DEF LabelCounts
<1>2. ASSUME NEW S \in SUBSET db.sessions
      PROVE  Total(S, LAMBDA s : FinalValue(db, metric, s.id, label)) = Sigma(f, S)
  <2> DEFINE g == [s \in S |-> FinalValue(db, metric, s.id, label)]
  <2>1. Total(S, LAMBDA s : FinalValue(db, metric, s.id, label)) = SumOver(g)
    BY DEF Total
  <2>2. g = [s \in S |-> f[s]]
    BY DEF LabelCounts
  <2> HIDE DEF f, g
  <2>3. SumOver(g) = Sigma(f, S)
    BY <1>1, <2>2, SumOfPart DEF LocalFits
  <2> QED BY <2>1, <2>3
<1> QED BY <1>1, <1>2

(* A sum key by key, over the keys that have any part of it.               *)
KeySums(f, A, key, K) == [w \in K |-> Sigma(f, {x \in A : key[x] = w})]

(* A sum by key need only show the keys whose sum is not nought.             *)
LEMMA SomeKeys ==
  ASSUME NEW D, IsFiniteSet(D), NEW f \in [D -> Int], NEW A \in SUBSET D, NEW K, IsFiniteSet(K),
         NEW key \in [A -> K], NEW some \in SUBSET K,
         \A w \in K \ some : KeySums(f, A, key, K)[w] = 0
  PROVE  SumOver(KeySums(f, A, key, some)) = Sigma(f, A)
<1> DEFINE whole == KeySums(f, A, key, K)  part == KeySums(f, A, key, some)
<1>1. whole \in [K -> Int] /\ Sigma(whole, K) = Sigma(f, A)
  <2>1. LET p == [w \in K |-> Sigma(f, {x \in A : key[x] = w})]
        IN p \in [K -> Int] /\ Sigma(p, K) = Sigma(f, A)
    BY SigmaByKey
  <2> QED BY <2>1 DEF KeySums
<1>2. part = [w \in some |-> whole[w]]
  BY DEF KeySums
<1> HIDE DEF whole, part
<1>3. Sigma(whole, K) = Sigma(whole, some)
  <2>1. \A w \in K \ some : whole[w] = 0
    BY DEF whole
  <2> QED BY <1>1, <2>1, SigmaOfNoughts
<1>4. SumOver(part) = Sigma(whole, some)
  BY <1>1, <1>2, SumOfPart
<1> QED BY <1>1, <1>3, <1>4 DEF part

(* A sum week by week, over the weeks that have any of two counts.          *)
AnyOf(f, g, week, rows) ==
  {w \in {week[s] : s \in rows} : Sigma(f, {s \in rows : week[s] = w})
                                    + Sigma(g, {s \in rows : week[s] = w}) > 0}

(* A chart that leaves out the weeks without any of two counts loses none of *)
(* either.                                                                   *)
LEMMA WeeksWithAny ==
  ASSUME NEW D, IsFiniteSet(D), NEW f \in [D -> Int], NEW g \in [D -> Int], NEW rows \in SUBSET D,
         \A s \in D : f[s] >= 0 /\ g[s] >= 0, NEW week
  PROVE  SumOver(KeySums(f, rows, week, AnyOf(f, g, week, rows))) = Sigma(f, rows)
<1> DEFINE all == {week[s] : s \in rows}  key == [s \in rows |-> week[s]]
           some == AnyOf(f, g, week, rows)
<1>1. \A w : {s \in rows : key[s] = w} = {s \in rows : week[s] = w}
  OBVIOUS
<1>2. IsFiniteSet(rows) /\ key \in [rows -> all]
  BY FS_Subset
<1>3. IsFiniteSet(all)
  <2> HIDE DEF all
  <2>1. IsFiniteSet({week[s] : s \in rows})
    BY <1>2, ImageIsFinite
  <2> QED BY <2>1 DEF all
<1> HIDE DEF key
<1>4. some \in SUBSET all /\ \A w \in all \ some :
        ~(Sigma(f, {s \in rows : week[s] = w}) + Sigma(g, {s \in rows : week[s] = w}) > 0)
  BY DEF AnyOf
<1> HIDE DEF all, some
<1>5. ASSUME NEW w \in all \ some PROVE KeySums(f, rows, key, all)[w] = 0
  <2> DEFINE S == {s \in rows : week[s] = w}
  <2>1. S \in SUBSET D /\ \A s \in S : f[s] >= 0 /\ g[s] >= 0
    OBVIOUS
  <2>2. KeySums(f, rows, key, all)[w] = Sigma(f, S) /\ ~(Sigma(f, S) + Sigma(g, S) > 0)
    BY <1>1, <1>4 DEF KeySums
  <2> HIDE DEF S
  <2>3. 0 <= Sigma(f, S) /\ Sigma(f, S) \in Int
    BY <2>1, SigmaGrows, SigmaTakes
  <2>4. 0 <= Sigma(g, S) /\ Sigma(g, S) \in Int
    BY <2>1, SigmaGrows, SigmaTakes
  <2> QED BY <2>2, <2>3, <2>4
<1>6. KeySums(f, rows, week, some) = KeySums(f, rows, key, some)
  BY <1>1 DEF KeySums
<1>7. SumOver(KeySums(f, rows, key, some)) = Sigma(f, rows)
  BY <1>2, <1>3, <1>4, <1>5, SomeKeys
<1> QED BY <1>6, <1>7 DEF some

(* There is no rate where nothing was counted, and only there. *)
LEMMA RateOrNone ==
  ASSUME NoneIsNoAnswer, NEW a \in Nat, NEW b \in Nat
  PROVE  Rate(a, b) = None <=> a = 0 /\ b = 0
<1> DEFINE r == [num |-> a, den |-> a + b]
<1>1. r = [x \in DOMAIN r |-> r[x]]
  OBVIOUS
<1>2. None # r
  <2> HIDE DEF r
  <2> QED BY <1>1 DEF NoneIsNoAnswer
<1>3. a + b = 0 <=> a = 0 /\ b = 0
  OBVIOUS
<1> QED BY <1>2, <1>3 DEF Rate

(* A session's own count is the greatest of its samples, and so the last.   *)
LEMMA LastIsGreatest ==
  ASSUME NEW db, ScrapesFit(db), NEW metric, NEW id, NEW label, NEW x \in db.scrapes,
         x.metric = metric /\ x.session = id /\ x.label = label,
         \A y \in db.scrapes : y.metric = metric /\ y.session = id /\ y.label = label
                                => y.scrapedAt <= x.scrapedAt
  PROVE  x.value = FinalValue(db, metric, id, label)
<1> DEFINE seen == {o \in db.scrapes : o.metric = metric /\ o.session = id /\ o.label = label}
           values == {o.value : o \in seen}
<1>1. x.value <= FinalValue(db, metric, id, label) /\ FinalValue(db, metric, id, label) \in Nat
  BY CountsAreCounts
<1>2. FinalValue(db, metric, id, label) = IF values = {} THEN 0 ELSE Max(values)
  BY DEF FinalValue, SeriesOf
<1>3. seen \in SUBSET db.scrapes /\ values = {o.value : o \in seen} /\ x.value \in values
  OBVIOUS
<1>4. \A o \in seen : o.value <= x.value
  BY DEF ScrapesFit
<1>5. values # {} => Max(values) \in values
  <2> HIDE DEF seen, values
  <2> QED BY <1>3, GreatestOfSeries
<1>6. PICK o \in seen : FinalValue(db, metric, id, label) = o.value
  <2>1. Max(values) \in values /\ FinalValue(db, metric, id, label) = Max(values)
    <3> HIDE DEF values
    <3> QED BY <1>2, <1>3, <1>5
  <2> QED BY <2>1
<1>7. x.value \in Nat /\ o.value <= x.value
  BY <1>4 DEF ScrapesFit
<1> QED BY <1>1, <1>6, <1>7

(* The sessions of a window are some of the sessions.                        *)
LEMMA WindowIsPart ==
  ASSUME NEW db, LocalFits(db), NEW days
  PROVE  /\ StartedSince(db.sessions, db.now, days) \in SUBSET db.sessions
         /\ IsFiniteSet(StartedSince(db.sessions, db.now, days)) /\ IsFiniteSet(db.sessions)
<1>1. StartedSince(db.sessions, db.now, days) \in SUBSET db.sessions
  BY DEF StartedSince
<1> QED BY <1>1, FS_Subset DEF LocalFits

(* What OTEL counted of a window is what it counted of its sessions, week   *)
(* by week or one by one (otel.ts).                                         *)
THEOREM OtelAlwaysAddsUp ==
  ASSUME NEW db, LocalFits(db), ScrapesFit(db), NoneIsNoAnswer PROVE OtelAddsUp(db)
<1> DEFINE D == db.sessions
           rows == StartedSince(D, db.now, 28)
           view == GetOtelInsights(db, 28)
           weeks == GetWeeklyAcceptRate(db, 4)
           acc == LabelCounts(db, "decision", "accept")
           rej == LabelCounts(db, "decision", "reject")
           week == [s \in D |-> WeekOf(s.startedAt)]
           some == AnyOf(acc, rej, week, rows)
<1>1. rows \in SUBSET D /\ IsFiniteSet(rows) /\ IsFiniteSet(D)
  BY WindowIsPart
<1>2. /\ acc \in [D -> Int] /\ \A s \in D : acc[s] \in Nat
      /\ \A S \in SUBSET D : Total(S, LAMBDA s : FinalValue(db, "decision", s.id, "accept")) = Sigma(acc, S)
  BY LabelTotals
<1>3. /\ rej \in [D -> Int] /\ \A s \in D : rej[s] \in Nat
      /\ \A S \in SUBSET D : Total(S, LAMBDA s : FinalValue(db, "decision", s.id, "reject")) = Sigma(rej, S)
  BY LabelTotals
<1>4. \A s \in D : week[s] = WeekOf(s.startedAt)
  OBVIOUS
<1>5. /\ view.accepts = Sigma(acc, rows) /\ view.rejects = Sigma(rej, rows)
      /\ view.acceptRate = Rate(Sigma(acc, rows), Sigma(rej, rows))
  BY <1>1, <1>2, <1>3 DEF GetOtelInsights
<1>6. /\ view.accepts = Total(rows, LAMBDA s : GetSessionOtelStats(db, s.id).accepts)
      /\ view.rejects = Total(rows, LAMBDA s : GetSessionOtelStats(db, s.id).rejects)
      /\ view.linesAdded = Total(rows, LAMBDA s : GetSessionOtelStats(db, s.id).linesAdded)
      /\ view.commits = Total(rows, LAMBDA s : GetSessionOtelStats(db, s.id).commits)
  BY DEF GetOtelInsights, GetSessionOtelStats, Total
<1>7. DOMAIN weeks = some /\ \A w \in some : /\ weeks[w].accepts = Sigma(acc, {s \in rows : week[s] = w})
                                            /\ weeks[w].rejects = Sigma(rej, {s \in rows : week[s] = w})
  <2>1. 7 * 4 = 28
    OBVIOUS
  <2>2. \A w : {s \in rows : WeekOf(s.startedAt) = w} = {s \in rows : week[s] = w}
    BY <1>1, <1>4
  <2>3. {WeekOf(s.startedAt) : s \in rows} = {week[s] : s \in rows}
    BY <1>1, <1>4
  <2>4. \A w : /\ Total({s \in rows : WeekOf(s.startedAt) = w}, LAMBDA s : FinalValue(db, "decision", s.id, "accept"))
                    = Sigma(acc, {s \in rows : week[s] = w})
               /\ Total({s \in rows : WeekOf(s.startedAt) = w}, LAMBDA s : FinalValue(db, "decision", s.id, "reject"))
                    = Sigma(rej, {s \in rows : week[s] = w})
    <3> HIDE DEF week, acc, rej
    <3> QED BY <1>1, <1>2, <1>3, <2>2
  <2> HIDE DEF week, acc, rej
  <2> DEFINE A(w) == Total({s \in rows : WeekOf(s.startedAt) = w},
                           LAMBDA s : FinalValue(db, "decision", s.id, "accept"))
             R(w) == Total({s \in rows : WeekOf(s.startedAt) = w},
                           LAMBDA s : FinalValue(db, "decision", s.id, "reject"))
  <2>5. weeks = [w \in {v \in {WeekOf(s.startedAt) : s \in rows} : A(v) + R(v) > 0} |->
                   [accepts |-> A(w), rejects |-> R(w)]]
    BY <2>1 DEF GetWeeklyAcceptRate
  <2>6. \A w : /\ A(w) = Sigma(acc, {s \in rows : week[s] = w})
               /\ R(w) = Sigma(rej, {s \in rows : week[s] = w})
    BY <2>4
  <2> HIDE DEF A, R, weeks, rows
  <2>7. DOMAIN weeks = {v \in {week[s] : s \in rows} : A(v) + R(v) > 0}
    BY <2>3, <2>5
  <2>8. DOMAIN weeks = some
    BY <2>6, <2>7 DEF AnyOf
  <2>9. \A w \in DOMAIN weeks : weeks[w].accepts = A(w) /\ weeks[w].rejects = R(w)
    BY <2>3, <2>5, <2>7
  <2> HIDE DEF some
  <2> QED BY <2>6, <2>8, <2>9
<1> HIDE DEF D, rows, view, weeks, acc, rej, week, some
<1>8. view.accepts = Total(DOMAIN weeks, LAMBDA w : weeks[w].accepts)
  <2>1. [w \in DOMAIN weeks |-> weeks[w].accepts] = KeySums(acc, rows, week, some)
    BY <1>7 DEF KeySums
  <2>2. SumOver(KeySums(acc, rows, week, some)) = Sigma(acc, rows)
    BY <1>1, <1>2, <1>3, WeeksWithAny DEF some
  <2> QED BY <1>5, <2>1, <2>2 DEF Total
<1>9. view.rejects = Total(DOMAIN weeks, LAMBDA w : weeks[w].rejects)
  <2>1. [w \in DOMAIN weeks |-> weeks[w].rejects] = KeySums(rej, rows, week, some)
    BY <1>7 DEF KeySums
  <2>2. some = AnyOf(rej, acc, week, rows)
    <3>1. \A w : {s \in rows : week[s] = w} \in SUBSET D
      BY <1>1
    <3>2. \A S \in SUBSET D : Sigma(acc, S) \in Int /\ Sigma(rej, S) \in Int
      BY <1>1, <1>2, <1>3, SigmaTakes
    <3>3. \A w : Sigma(acc, {s \in rows : week[s] = w}) + Sigma(rej, {s \in rows : week[s] = w})
                   = Sigma(rej, {s \in rows : week[s] = w}) + Sigma(acc, {s \in rows : week[s] = w})
      BY <3>1, <3>2
    <3> QED BY <3>3 DEF some, AnyOf
  <2>3. SumOver(KeySums(rej, rows, week, some)) = Sigma(rej, rows)
    BY <1>1, <1>2, <1>3, <2>2, WeeksWithAny
  <2> QED BY <1>5, <2>1, <2>3 DEF Total
<1>10. (view.acceptRate = None) = (DOMAIN GetAcceptRatesBySession(db, 28) = {})
  <2>1. Sigma(acc, rows) = 0 <=> \A s \in rows : acc[s] = 0
    BY <1>1, <1>2, SigmaIsNought
  <2>2. Sigma(rej, rows) = 0 <=> \A s \in rows : rej[s] = 0
    BY <1>1, <1>3, SigmaIsNought
  <2>3. Sigma(acc, rows) \in Nat /\ Sigma(rej, rows) \in Nat
    <3>1. Sigma(acc, rows) \in Int /\ 0 <= Sigma(acc, rows)
      BY <1>1, <1>2, SigmaTakes, SigmaGrows
    <3>2. Sigma(rej, rows) \in Int /\ 0 <= Sigma(rej, rows)
      BY <1>1, <1>3, SigmaTakes, SigmaGrows
    <3> QED BY <3>1, <3>2
  <2>4. view.acceptRate = None <=> Sigma(acc, rows) = 0 /\ Sigma(rej, rows) = 0
    BY <1>5, <2>3, RateOrNone
  <2>5. ASSUME NEW s \in rows
        PROVE  GetSessionOtelStats(db, s.id).acceptRate = None <=> acc[s] = 0 /\ rej[s] = 0
    <3>1. GetSessionOtelStats(db, s.id).acceptRate = Rate(acc[s], rej[s])
      BY <1>1 DEF GetSessionOtelStats, acc, rej, LabelCounts, D
    <3>2. acc[s] \in Nat /\ rej[s] \in Nat
      BY <1>1, <1>2, <1>3
    <3> QED BY <3>1, <3>2, RateOrNone
  <2>6. DOMAIN GetAcceptRatesBySession(db, 28)
          = {i \in {s.id : s \in rows} : GetSessionOtelStats(db, i).acceptRate # None}
    BY DEF GetAcceptRatesBySession, rows, D
  <2>7. DOMAIN GetAcceptRatesBySession(db, 28) = {} <=> \A s \in rows : acc[s] = 0 /\ rej[s] = 0
    BY <2>5, <2>6
  <2>8. view.acceptRate = None <=> DOMAIN GetAcceptRatesBySession(db, 28) = {}
    BY <2>1, <2>2, <2>4, <2>7
  <2> QED BY <2>8
<1>11. ASSUME NEW s \in rows
       PROVE  LET seen == {o \in db.scrapes : o.metric = "decision" /\ o.session = s.id
                                                /\ o.label = "accept"}
                  last == {o.value : o \in {x \in seen : \A y \in seen : y.scrapedAt <= x.scrapedAt}}
              IN last \subseteq {GetSessionOtelStats(db, s.id).accepts}
  <2> DEFINE seen == {o \in db.scrapes : o.metric = "decision" /\ o.session = s.id /\ o.label = "accept"}
  <2>1. \A x \in seen : (\A y \in seen : y.scrapedAt <= x.scrapedAt)
                          => x.value = FinalValue(db, "decision", s.id, "accept")
    <3> QED BY LastIsGreatest
  <2>2. GetSessionOtelStats(db, s.id).accepts = FinalValue(db, "decision", s.id, "accept")
    BY DEF GetSessionOtelStats
  <2> QED BY <2>1, <2>2
<1> QED BY <1>6, <1>8, <1>9, <1>10, <1>11 DEF OtelAddsUp, view, rows, weeks, D

(* Samples of which a session has one of a label, taken as it starts. *)
Values(db) == [o \in db.scrapes |-> o.value]
Accepts(db) == {o \in db.scrapes : o.metric = "decision" /\ o.label = "accept"}
AcceptsOn(db, d) ==
  {o \in Accepts(db) : o.scrapedAt >= db.now - 2 * 30 /\ LocalDay(o.scrapedAt) = d}
TakenOnce(db) ==
  \A o \in db.scrapes, x \in db.scrapes :
    (o.metric = "decision" /\ x.metric = "decision" /\ o # x)
      => o.session # x.session \/ o.label # x.label
TakenAtStart(db) ==
  \A o \in db.scrapes : o.metric = "decision" =>
    \E s \in db.sessions : s.id = o.session /\ s.startedAt = o.scrapedAt

(* The values of the samples, as a function.                                 *)
LEMMA SampleValues ==
  ASSUME NEW db, ScrapesFit(db)
  PROVE  /\ IsFiniteSet(db.scrapes) /\ Values(db) \in [db.scrapes -> Int]
         /\ \A o \in db.scrapes : Values(db)[o] = o.value
  BY DEF ScrapesFit, Values

(* What was counted of a session is what its one sample says. *)
LEMMA OneSample ==
  ASSUME NEW db, ScrapesFit(db), NEW id, NEW own, own = {o \in Accepts(db) : o.session = id},
         \A o, x \in own : o = x
  PROVE  Sigma(Values(db), own) = FinalValue(db, "decision", id, "accept")
<1> DEFINE values == {o.value : o \in own}
<1>1. own \in SUBSET db.scrapes /\ values = {o.value : o \in own}
  BY DEF Accepts
<1>2. FinalValue(db, "decision", id, "accept") = IF values = {} THEN 0 ELSE Max(values)
  <2>1. own = {x \in db.scrapes : x.metric = "decision" /\ x.session = id /\ x.label = "accept"}
    BY DEF Accepts
  <2> QED BY <2>1 DEF FinalValue, SeriesOf
<1>3. CASE own = {}
  <2>1. Sigma(Values(db), {}) = 0
    BY SampleValues, SigmaTakes
  <2> QED BY <1>2, <1>3, <2>1
<1>4. CASE own # {}
  <2>1. PICK o \in own : TRUE
    BY <1>4
  <2>2. own = {o} /\ own \ {o} = {} /\ values = {o.value}
    BY <2>1
  <2> HIDE DEF values
  <2>3. Max(values) \in values
    <3>1. values # {} => Max(values) \in values
      BY <1>1, GreatestOfSeries DEF values
    <3> QED BY <2>2, <3>1
  <2>4. /\ Sigma(Values(db), own) = Values(db)[o] + Sigma(Values(db), own \ {o})
        /\ Sigma(Values(db), {}) = 0
    BY <1>1, <2>1, SampleValues, SigmaTakes
  <2>5. Values(db)[o] = o.value /\ o.value \in Nat
    BY <1>1, <2>1, SampleValues DEF ScrapesFit
  <2>6. FinalValue(db, "decision", id, "accept") = o.value
    <3>1. values # {} /\ Max(values) = o.value
      BY <2>2, <2>3
    <3> QED BY <1>2, <3>1
  <2>7. Sigma(Values(db), own) = o.value + 0
    <3>1. Sigma(Values(db), own \ {o}) = 0
      BY <2>2, <2>4
    <3> QED BY <2>4, <2>5, <3>1
  <2>8. o.value + 0 = o.value
    <3> DEFINE v == o.value
    <3>1. v \in Nat
      BY <2>5
    <3> HIDE DEF v
    <3>2. v + 0 = v
      BY <3>1
    <3> QED BY <3>2 DEF v
  <2> QED BY <2>6, <2>7, <2>8
<1> QED BY <1>3, <1>4

(* A day of the chart adds up what was counted of the sessions of the day.  *)
LEMMA SamplesOfDay ==
  ASSUME NEW db, LocalFits(db), ScrapesFit(db), TakenOnce(db), TakenAtStart(db), NEW d
  PROVE  Sigma(Values(db), AcceptsOn(db, d)) = Sigma(LabelCounts(db, "decision", "accept"), OfDay(db, d))
<1> DEFINE A == AcceptsOn(db, d)  K == OfDay(db, d)
           Is(o, s) == s.id = o.session /\ s.startedAt = o.scrapedAt
           key == [o \in A |-> CHOOSE s \in db.sessions : Is(o, s)]
           acc == LabelCounts(db, "decision", "accept")
           part == [s \in K |-> Sigma(Values(db), {o \in A : key[o] = s})]
<1>1. A \in SUBSET db.scrapes /\ K \in SUBSET db.sessions /\ IsFiniteSet(K)
  <2>1. A \in SUBSET db.scrapes /\ K \in SUBSET Recent(db)
    BY DEF AcceptsOn, Accepts, OfDay
  <2> QED BY <2>1, DaysOfWindow, FS_Subset
<1>2. \A o \in A : key[o] \in db.sessions /\ Is(o, key[o])
  BY DEF AcceptsOn, Accepts, TakenAtStart
<1>3. \A o \in A : key[o] \in K
  BY <1>2 DEF AcceptsOn, OfDay, Recent, StartedSince
<1>4. key \in [A -> K]
  BY <1>3
<1>5. ASSUME NEW s \in K PROVE part[s] = acc[s]
  <2> DEFINE own == {o \in Accepts(db) : o.session = s.id}
  <2>1. \A o \in Accepts(db) : o \in A /\ key[o] = s <=> o.session = s.id
    <3>1. ASSUME NEW o \in A, key[o] = s PROVE o.session = s.id
      BY <1>2, <3>1
    <3>2. ASSUME NEW o \in Accepts(db), o.session = s.id PROVE o \in A /\ key[o] = s
      <4>1. PICK r \in db.sessions : Is(o, r)
        BY DEF Accepts, TakenAtStart
      <4>2. r = s /\ s \in Recent(db) /\ LocalDay(s.startedAt) = d
        BY <1>1, <3>2, <4>1 DEF LocalFits, OfDay
      <4>3. o \in A
        BY <4>1, <4>2 DEF AcceptsOn, Recent, StartedSince
      <4>4. key[o] = s
        BY <1>1, <1>2, <3>2, <4>3 DEF LocalFits
      <4> QED BY <4>3, <4>4
    <3> QED BY <3>1, <3>2
  <2>2. {o \in A : key[o] = s} = own
    BY <2>1 DEF AcceptsOn
  <2>3. \A o, x \in own : o = x
    BY DEF Accepts, TakenOnce
  <2>4. own = {o \in Accepts(db) : o.session = s.id}
    OBVIOUS
  <2> HIDE DEF own, A, key
  <2>5. Sigma(Values(db), own) = FinalValue(db, "decision", s.id, "accept")
    BY <2>3, <2>4, OneSample
  <2>6. acc[s] = FinalValue(db, "decision", s.id, "accept")
    BY <1>1 DEF LabelCounts
  <2> QED BY <2>2, <2>5, <2>6
<1> HIDE DEF A, K, key, acc
<1>6. part \in [K -> Int] /\ Sigma(part, K) = Sigma(Values(db), A)
  <2>1. LET p == [s \in K |-> Sigma(Values(db), {o \in A : key[o] = s})]
        IN p \in [K -> Int] /\ Sigma(p, K) = Sigma(Values(db), A)
    <3>1. IsFiniteSet(db.scrapes) /\ Values(db) \in [db.scrapes -> Int]
      BY SampleValues
    <3> QED BY <1>1, <1>4, <3>1, SigmaByKey
  <2> QED BY <2>1
<1>7. Sigma(part, K) = Sigma(acc, K)
  <2>1. acc \in [db.sessions -> Int] /\ IsFiniteSet(db.sessions)
    BY LabelTotals DEF acc, LocalFits
  <2>2. K \in SUBSET (K \cap db.sessions)
    BY <1>1
  <2> HIDE DEF part
  <2> QED BY <1>1, <1>5, <1>6, <2>1, <2>2, SigmaSame
<1> QED BY <1>6, <1>7 DEF A, K, acc

(* A running count scraped once is shown as it is (overview.ts:315).        *)
THEOREM ChartAlwaysCountsSamples ==
  ASSUME NEW db, LocalFits(db), ScrapesFit(db), NoneIsNoAnswer PROVE ChartCountsSamples(db)
<1> DEFINE acc == LabelCounts(db, "decision", "accept")
           chart == GetDailyAcceptRate(db, 30)
           charted == [d \in DOMAIN chart |-> IF chart[d] = None THEN 0 ELSE chart[d].num]
           missed == Total(CutOff(db), LAMBDA s : GetSessionOtelStats(db, s.id).accepts)
           K == LastDays(db.now, 30)
<1>1. SUFFICES ASSUME TakenOnce(db), TakenAtStart(db)
               PROVE  SumOver(charted) + missed = GetOtelInsights(db, 30).accepts
  BY DEF ChartCountsSamples, TakenOnce, TakenAtStart, CutOff, Recent, Total
<1>2. /\ acc \in [db.sessions -> Int]
      /\ \A S \in SUBSET db.sessions : Total(S, LAMBDA s : FinalValue(db, "decision", s.id, "accept")) = Sigma(acc, S)
  BY LabelTotals
<1>3. missed = Sigma(acc, CutOff(db))
  <2>1. CutOff(db) \in SUBSET db.sessions
    BY DaysOfWindow
  <2>2. missed = Total(CutOff(db), LAMBDA s : FinalValue(db, "decision", s.id, "accept"))
    BY DEF GetSessionOtelStats
  <2> HIDE DEF acc, missed
  <2> QED BY <1>2, <2>1, <2>2
<1>4. GetOtelInsights(db, 30).accepts = Sigma(acc, Recent(db))
  <2>1. Recent(db) \in SUBSET db.sessions
    BY DaysOfWindow
  <2>2. GetOtelInsights(db, 30).accepts = Total(Recent(db), LAMBDA s : FinalValue(db, "decision", s.id, "accept"))
    BY DEF GetOtelInsights, Recent
  <2> HIDE DEF acc
  <2> QED BY <1>2, <2>1, <2>2
<1>5. DOMAIN chart = K
  BY DEF GetDailyAcceptRate
<1>6. ASSUME NEW d \in K PROVE charted[d] = Sigma(acc, OfDay(db, d))
  <2> DEFINE S(label) == {o \in db.scrapes : o.metric = "decision" /\ o.label \in {label}
                           /\ o.scrapedAt >= db.now - 2 * 30 /\ LocalDay(o.scrapedAt) = d}
             a == Total(S("accept"), LAMBDA o : o.value)
             r == Total(S("reject"), LAMBDA o : o.value)
  <2>1. chart[d] = Rate(a, r)
    BY DEF GetDailyAcceptRate
  <2>2. ASSUME NEW T \in SUBSET db.scrapes
        PROVE  Total(T, LAMBDA o : o.value) = Sigma(Values(db), T) /\ Sigma(Values(db), T) \in Nat
    <3> DEFINE f == [o \in T |-> o.value]  h == Values(db)
    <3>1. f = [o \in T |-> h[o]]
      BY DEF Values
    <3>2. IsFiniteSet(db.scrapes) /\ h \in [db.scrapes -> Int] /\ \A o \in T : h[o] >= 0
      BY SampleValues DEF ScrapesFit
    <3>3. Total(T, LAMBDA o : o.value) = SumOver(f)
      BY DEF Total
    <3> HIDE DEF f, h
    <3>4. SumOver(f) = Sigma(h, T)
      BY <3>1, <3>2, SumOfPart
    <3>5. Sigma(h, T) \in Int /\ 0 <= Sigma(h, T)
      BY <3>2, SigmaTakes, SigmaGrows
    <3> QED BY <3>3, <3>4, <3>5 DEF h
  <2>3. S("accept") = AcceptsOn(db, d) /\ S("accept") \in SUBSET db.scrapes /\ S("reject") \in SUBSET db.scrapes
    BY DEF AcceptsOn, Accepts
  <2> HIDE DEF S
  <2>4. a = Sigma(Values(db), AcceptsOn(db, d)) /\ a \in Nat /\ r \in Nat
    BY <2>2, <2>3
  <2> HIDE DEF a, r
  <2>5. charted[d] = a
    <3>1. CASE chart[d] = None
      <4>1. a = 0 /\ r = 0
        BY <2>1, <2>4, <3>1, RateOrNone
      <4> QED BY <1>5, <3>1, <4>1
    <3>2. CASE chart[d] # None
      <4>1. chart[d] = [num |-> a, den |-> a + r]
        BY <2>1, <3>2 DEF Rate
      <4> QED BY <1>5, <3>2, <4>1
    <3> QED BY <3>1, <3>2
  <2>6. Sigma(Values(db), AcceptsOn(db, d)) = Sigma(acc, OfDay(db, d))
    BY <1>1, SamplesOfDay
  <2> QED BY <2>4, <2>5, <2>6
<1> HIDE DEF acc, chart
<1>7. charted = [d \in K |-> Sigma(acc, OfDay(db, d))]
  BY <1>5, <1>6
<1> HIDE DEF charted, missed
<1>8. SumOver(charted) + Sigma(acc, CutOff(db)) = Sigma(acc, Recent(db))
  BY <1>2, <1>7, ChartAndCut DEF K
<1> QED BY <1>3, <1>4, <1>8


(* What a session costs in the outcomes view is a natural number.            *)
LEMMA OutcomeCosts ==
  ASSUME NEW db, LocalFits(db), NEW s \in db.sessions
  PROVE  EffectiveCostFor(db, s) \in Nat
<1>1. RatesFit(GetCostCalibration(db.calibration))
  BY DEF LocalFits, RatesFit, GetCostCalibration
<1>2. CostedRow(s)
  BY DEF LocalFits, LocalRow
<1> QED BY <1>1, <1>2, CostsAreCosts DEF EffectiveCostFor

(* A list that may hold all rows does. *)
LEMMA AllFirst ==
  ASSUME NEW S, IsFiniteSet(S), NEW n \in Nat, Cardinality(S) <= n, NEW T \in SUBSET S,
         Cardinality(T) = Min({n, Cardinality(S)})
  PROVE  T = S
<1>1. Cardinality(S) \in Nat
  BY FS_CardinalityType
<1>2. Cardinality(T) = Cardinality(S)
  BY <1>1, WholeMin
<1> QED BY <1>2, FS_Subset

(* Lines, commits and reverts are counted of the same sessions (outcomes.ts). *)
THEOREM OutcomesAlwaysAddUp ==
  ASSUME NEW db, LocalFits(db), OutcomeRowsFit(db) PROVE OutcomesAddUp(db)
<1> DEFINE J == JoinedInWindow(db, 30)
           Z == {s \in J : GetSessionOutcome(db, s.id).commits = 0}
           idle == GetHighCostNoOutputSessions(db, 30, Cardinality(db.sessions))
           made == {s \in J : GetSessionOutcome(db, s.id).commits > 0}
           undone == {s \in J : GetSessionOutcome(db, s.id).reverts > 0}
           cost == [s \in db.sessions |-> EffectiveCostFor(db, s)]
<1>1. J \in SUBSET db.sessions /\ IsFiniteSet(J) /\ IsFiniteSet(db.sessions)
  <2>1. J \in SUBSET db.sessions
    BY DEF JoinedInWindow, StartedSince
  <2> QED BY <2>1, FS_Subset DEF LocalFits
<1>2. \A s \in J : LET o == GetSessionOutcome(db, s.id) IN
        /\ o.commits \in Nat
        /\ o.reverts > 0 => o.commits > 0
  <2>1. \A s \in J : GetSessionOutcome(db, s.id) \in db.outcomes
    BY DEF JoinedInWindow, GetSessionOutcome
  <2> QED BY <2>1 DEF OutcomeRowsFit
<1>3. /\ Z \in SUBSET J /\ made \in SUBSET J /\ undone \in SUBSET made /\ J \ Z = made
  <2>1. \A s \in J : s \in undone => s \in made
    BY <1>2
  <2>2. ASSUME NEW s \in J PROVE s \notin Z <=> s \in made
    <3> DEFINE c == GetSessionOutcome(db, s.id).commits
    <3>1. c \in Nat
      BY <1>2
    <3>2. c # 0 <=> c > 0
      BY <3>1
    <3>3. (s \in Z <=> c = 0) /\ (s \in made <=> c > 0)
      OBVIOUS
    <3> HIDE DEF c, Z, made
    <3> QED BY <3>2, <3>3
  <2> QED BY <2>1, <2>2
<1>4. idle = Z
  <2> DEFINE n == Cardinality(db.sessions)
             Is(T) == /\ Cardinality(T) = Min({n, Cardinality(Z)})
                      /\ \A r \in T, other \in Z \ T : EffectiveCostFor(db, r) >= EffectiveCostFor(db, other)
  <2>1. idle = CHOOSE T \in SUBSET Z : Is(T)
    BY DEF GetHighCostNoOutputSessions, FirstRows
  <2>2. IsFiniteSet(Z) /\ n \in Nat /\ Cardinality(Z) <= n
    <3>1. Z \in SUBSET db.sessions
      BY <1>1
    <3> HIDE DEF Z
    <3> QED BY <1>1, <3>1, CountApart, FS_Subset
  <2>3. \A T \in SUBSET Z : Is(T) => T = Z
    <3> HIDE DEF n, Z
    <3> QED BY <2>2, AllFirst
  <2>4. Is(Z)
    <3>1. Cardinality(Z) \in Nat
      BY <2>2, FS_CardinalityType
    <3>2. Min({n, Cardinality(Z)}) = Cardinality(Z)
      <4> HIDE DEF n, Z
      <4> QED BY <2>2, <3>1, WholeMin
    <3> QED BY <3>2
  <2> HIDE DEF idle, Z, Is
  <2> QED BY <2>1, <2>3, <2>4
<1>5. /\ GetCostPerLoc(db, 30).totalCost = Total(J, LAMBDA s : EffectiveCostFor(db, s))
      /\ GetCostPerCommit(db, 30).totalCost = Total(J, LAMBDA s : EffectiveCostFor(db, s))
  BY DEF GetCostPerLoc, GetCostPerCommit, CostPer
<1>6. /\ GetRevertRate(db, 30).sessionsWithCommits = Cardinality(made)
      /\ GetRevertRate(db, 30).sessionsWithReverts = Cardinality(undone)
  BY DEF GetRevertRate
<1> HIDE DEF J, Z, made, undone, idle
<1>7. Cardinality(undone) <= Cardinality(made)
  BY <1>1, <1>3, CountApart, FS_Subset
<1>8. Cardinality(idle) + Cardinality(made) = Cardinality(J)
  <2>1. Cardinality(J) = Cardinality(Z) + Cardinality(J \ Z)
    BY <1>1, <1>3, CountApart
  <2> QED BY <1>3, <1>4, <2>1
<1>9. Total(idle, LAMBDA s : EffectiveCostFor(db, s)) <= Total(J, LAMBDA s : EffectiveCostFor(db, s))
  <2>1. cost \in [db.sessions -> Int] /\ \A s \in db.sessions : cost[s] >= 0
    BY OutcomeCosts
  <2>2. ASSUME NEW S \in SUBSET db.sessions
        PROVE  Total(S, LAMBDA s : EffectiveCostFor(db, s)) = Sigma(cost, S)
    <3> DEFINE f == [s \in S |-> EffectiveCostFor(db, s)]
    <3>1. f = [s \in S |-> cost[s]]
      OBVIOUS
    <3>2. Total(S, LAMBDA s : EffectiveCostFor(db, s)) = SumOver(f)
      BY DEF Total
    <3> HIDE DEF f, cost
    <3> QED BY <1>1, <2>1, <3>1, <3>2, SumOfPart
  <2> HIDE DEF cost
  <2>3. Sigma(cost, Z) <= Sigma(cost, J)
    BY <1>1, <1>3, <2>1, SigmaGrows
  <2>4. Z \in SUBSET db.sessions
    BY <1>1, <1>3
  <2> QED BY <1>1, <1>4, <2>2, <2>3, <2>4
<1> QED BY <1>5, <1>6, <1>7, <1>8, <1>9 DEF OutcomesAddUp, J, idle

(* What a signal is worth: so many thousandths, and more for a better one.  *)
LEMMA WorthGrows ==
  ASSUME NEW k \in Signals, NEW x \in Int, NEW y \in Int, x <= y
  PROVE  /\ Worth(k, x) \in 0 .. 1000
         /\ k \in {"density", "errors"} => Worth(k, y) <= Worth(k, x)
         /\ k \notin {"density", "errors"} => Worth(k, x) <= Worth(k, y)
<1>1. k \in {"outIn", "hit", "rating", "density", "errors", "accept"}
  BY DEF Signals, Weights
<1>2. CASE k = "outIn"
  <2> DEFINE c == Clip(x, 0, 2000)  d == Clip(y, 0, 2000)
  <2>1. Worth(k, x) = c \div 2 /\ Worth(k, y) = d \div 2
    BY <1>2 DEF Worth
  <2>2. c \in Int /\ 0 <= c /\ c <= 2000 /\ c <= d /\ d \in Int
    BY DEF Clip
  <2> HIDE DEF c, d
  <2>3. c \div 2 \in 0 .. 1000 /\ c \div 2 <= d \div 2
    BY <2>2
  <2> QED BY <1>2, <2>1, <2>3
<1>3. CASE k = "rating"
  <2> DEFINE c == Clip(x, -1000, 1000)  d == Clip(y, -1000, 1000)
  <2>1. Worth(k, x) = (c + 1000) \div 2 /\ Worth(k, y) = (d + 1000) \div 2
    BY <1>3 DEF Worth
  <2>2. c \in Int /\ -1000 <= c /\ c <= 1000 /\ c <= d /\ d \in Int
    BY DEF Clip
  <2> HIDE DEF c, d
  <2>3. (c + 1000) \div 2 \in 0 .. 1000 /\ (c + 1000) \div 2 <= (d + 1000) \div 2
    BY <2>2
  <2> QED BY <1>3, <2>1, <2>3
<1>4. CASE k \in {"hit", "accept", "density", "errors"}
  <2> DEFINE c == Clip(x, 0, 1000)  d == Clip(y, 0, 1000)
  <2>1. IF k \in {"hit", "accept"} THEN Worth(k, x) = c /\ Worth(k, y) = d
                                   ELSE Worth(k, x) = 1000 - c /\ Worth(k, y) = 1000 - d
    BY <1>4 DEF Worth
  <2>2. c \in Int /\ 0 <= c /\ c <= 1000 /\ c <= d /\ d \in Int
    BY DEF Clip
  <2> HIDE DEF c, d
  <2>3. CASE k \in {"hit", "accept"}
    <3>1. Worth(k, x) = c /\ Worth(k, y) = d
      BY <2>1, <2>3
    <3> QED BY <2>2, <2>3, <3>1
  <2>4. CASE k \in {"density", "errors"}
    <3>1. Worth(k, x) = 1000 - c /\ Worth(k, y) = 1000 - d
      BY <2>1, <2>4
    <3> QED BY <2>2, <2>4, <3>1
  <2> QED BY <1>4, <2>3, <2>4
<1> QED BY <1>1, <1>2, <1>3, <1>4

(* What a signal is worth is between nothing and all.                        *)
LEMMA WorthBound ==
  ASSUME NEW k \in Signals, NEW x \in Int PROVE Worth(k, x) \in 0 .. 1000
<1>1. x <= x
  OBVIOUS
<1> QED BY <1>1, WorthGrows

(* The weights of the score (scoring.ts) are from 10 to 30.                  *)
LEMMA WeightsFit ==
  /\ IsFiniteSet(Signals) /\ Weights \in [Signals -> Int] /\ \A k \in Signals : Weights[k] \in 10 .. 30
<1>1. Signals = {"outIn"} \cup {"hit"} \cup {"rating"} \cup {"density"} \cup {"errors"} \cup {"accept"}
  BY DEF Signals, Weights
<1>2. \A x : IsFiniteSet({x})
  BY FS_Singleton
<1>3. IsFiniteSet(Signals)
  <2>1. IsFiniteSet({"outIn"} \cup {"hit"})
    BY <1>2, FS_Union
  <2>2. IsFiniteSet({"outIn"} \cup {"hit"} \cup {"rating"})
    BY <1>2, <2>1, FS_Union
  <2>3. IsFiniteSet({"outIn"} \cup {"hit"} \cup {"rating"} \cup {"density"})
    BY <1>2, <2>2, FS_Union
  <2>4. IsFiniteSet({"outIn"} \cup {"hit"} \cup {"rating"} \cup {"density"} \cup {"errors"})
    BY <1>2, <2>3, FS_Union
  <2> QED BY <1>1, <1>2, <2>4, FS_Union
<1>4. Weights \in [Signals -> Int] /\ \A k \in Signals : Weights[k] \in 10 .. 30
  BY DEF Signals, Weights
<1> QED BY <1>3, <1>4

(* What is worth more is worth more when it is weighed.                      *)
LEMMA WeighedGrows ==
  ASSUME NEW k \in Signals, NEW x \in Int, NEW y \in Int, Worth(k, x) <= Worth(k, y)
  PROVE  Weights[k] * Worth(k, x) <= Weights[k] * Worth(k, y)
<1> DEFINE w == Weights[k]  p == Worth(k, x)  q == Worth(k, y)
<1>1. w \in 10 .. 30
  BY WeightsFit
<1>2. p \in 0 .. 1000
  BY WorthBound
<1>3. q \in 0 .. 1000
  BY WorthBound
<1>4. p <= q
  OBVIOUS
<1> HIDE DEF w, p, q
<1>5. w * p <= w * q
  BY <1>1, <1>2, <1>3, <1>4
<1> QED BY <1>5 DEF w, p, q

(* A signal is a number or was not measured.                                *)
GivenOf(input) == {k \in Signals : input[k] # None}
WorthOf(input) == [k \in Signals |-> IF input[k] = None THEN 0 ELSE Weights[k] * Worth(k, input[k])]

(* What the given signals are worth, weighed, is at most their weight.       *)
LEMMA WorthsFit ==
  ASSUME NEW input, SignalsFit(input)
  PROVE  /\ WorthOf(input) \in [Signals -> Int] /\ GivenOf(input) \in SUBSET Signals
         /\ \A k \in GivenOf(input) : /\ input[k] \in Int
                                      /\ WorthOf(input)[k] = Weights[k] * Worth(k, input[k])
                                      /\ WorthOf(input)[k] >= 0 /\ WorthOf(input)[k] <= 1000 * Weights[k]
<1>1. ASSUME NEW k \in Signals, input[k] # None
      PROVE  /\ input[k] \in Int /\ Weights[k] * Worth(k, input[k]) \in Int
             /\ Weights[k] * Worth(k, input[k]) >= 0
             /\ Weights[k] * Worth(k, input[k]) <= 1000 * Weights[k]
  <2>1. input[k] \in Int
    BY <1>1 DEF SignalsFit
  <2>2. Weights[k] \in 10 .. 30 /\ Worth(k, input[k]) \in 0 .. 1000
    <3>1. Worth(k, input[k]) \in 0 .. 1000
      BY <2>1, WorthBound
    <3>2. Weights[k] \in 10 .. 30
      BY WeightsFit
    <3> QED BY <3>1, <3>2
  <2> DEFINE w == Weights[k]  v == Worth(k, input[k])
  <2>3. w \in 10 .. 30 /\ v \in 0 .. 1000
    BY <2>2
  <2> HIDE DEF w, v
  <2>4. w * v \in Int /\ w * v >= 0 /\ w * v <= 1000 * w
    BY <2>3
  <2> QED BY <2>1, <2>4 DEF w, v
<1> QED BY <1>1 DEF WorthOf, GivenOf

(* A score in terms of the sums it is made of.                              *)
LEMMA ScoreBySums ==
  ASSUME NEW input, SignalsFit(input)
  PROVE  /\ GivenOf(input) \subseteq {"density"} => EffectivenessScore(input) = 0
         /\ ~(GivenOf(input) \subseteq {"density"}) =>
              /\ EffectivenessScore(input)
                   = (10 * Sigma(WorthOf(input), GivenOf(input))) \div Sigma(Weights, GivenOf(input))
              /\ Sigma(Weights, GivenOf(input)) \in Int /\ Sigma(Weights, GivenOf(input)) > 0
<1> DEFINE given == GivenOf(input)  worth == WorthOf(input)
           f == [k \in given |-> Weights[k] * Worth(k, input[k])]
           w == [k \in given |-> Weights[k]]
<1>1. EffectivenessScore(input) = WeightedWorth(input, given)
  BY DEF EffectivenessScore, GivenOf
<1>2. ~(given \subseteq {"density"}) =>
        EffectivenessScore(input) = (10 * SumOver(f)) \div SumOver(w)
  BY <1>1 DEF WeightedWorth, Total
<1>3. given \subseteq {"density"} => EffectivenessScore(input) = 0
  BY <1>1 DEF WeightedWorth
<1>4. f = [k \in given |-> worth[k]]
  BY WorthsFit
<1>5. given \in SUBSET Signals /\ worth \in [Signals -> Int]
  BY WorthsFit
<1>6. w = [k \in given |-> Weights[k]]
  OBVIOUS
<1>7. IsFiniteSet(Signals) /\ Weights \in [Signals -> Int] /\ \A k \in Signals : Weights[k] \in 10 .. 30
  BY WeightsFit
<1> HIDE DEF given, worth, f, w
<1>8. SumOver(f) = Sigma(worth, given)
  BY <1>4, <1>5, <1>7, SumOfPart
<1>9. SumOver(w) = Sigma(Weights, given)
  BY <1>5, <1>6, <1>7, SumOfPart
<1>10. ~(given \subseteq {"density"}) => Sigma(Weights, given) \in Int /\ Sigma(Weights, given) > 0
  <2> HAVE ~(given \subseteq {"density"})
  <2>1. \A k \in given : Weights[k] >= 0
    BY <1>5, <1>7
  <2>2. Sigma(Weights, given) \in Int /\ 0 <= Sigma(Weights, given)
    BY <1>5, <1>7, <2>1, SigmaTakes, SigmaGrows
  <2>3. Sigma(Weights, given) # 0
    <3>1. Sigma(Weights, given) = 0 => \A k \in given : Weights[k] = 0
      BY <1>5, <1>7, <2>1, SigmaIsNought
    <3>2. PICK k \in given : TRUE
      OBVIOUS
    <3>3. Weights[k] # 0
      BY <1>5, <1>7, <3>2
    <3> QED BY <3>1, <3>3
  <2> QED BY <2>2, <2>3
<1> QED BY <1>2, <1>3, <1>8, <1>9, <1>10 DEF given, worth

(* A score is of 0 to 100 points, in hundredths.                             *)
LEMMA ScoreBounds ==
  ASSUME NEW input, SignalsFit(input) 
  PROVE  EffectivenessScore(input) \in 0 .. 10000 /\ EffectivenessScore(input) \in Nat
<1> DEFINE given == GivenOf(input)  worth == WorthOf(input)
           v == Sigma(worth, given)  w == Sigma(Weights, given)
<1>1. CASE given \subseteq {"density"}
  BY <1>1, ScoreBySums
<1>2. CASE ~(given \subseteq {"density"})
  <2>1. EffectivenessScore(input) = (10 * v) \div w /\ w \in Int /\ w > 0
    BY <1>2, ScoreBySums
  <2>2. /\ given \in SUBSET Signals /\ worth \in [Signals -> Int]
        /\ \A k \in given : worth[k] >= 0 /\ worth[k] <= 1000 * Weights[k]
    BY WorthsFit
  <2>3. IsFiniteSet(Signals) /\ Weights \in [Signals -> Int]
    BY WeightsFit
  <2> DEFINE most == [k \in Signals |-> 1000 * Weights[k]]
  <2>4. most \in [Signals -> Int] /\ (\A k \in given : worth[k] <= most[k]) /\ 1000 \in Int
    BY <2>2, <2>3
  <2>5. Sigma(most, given) = 1000 * w
    BY <2>2, <2>3, <2>4, SigmaTimes
  <2> HIDE DEF given, worth, most
  <2>6. v <= Sigma(most, given)
    <3>1. given \in SUBSET (Signals \cap Signals)
      BY <2>2
    <3> QED BY <2>2, <2>3, <2>4, <3>1, SigmaAtMost
  <2>7. v \in Int /\ 0 <= v
    BY <2>2, <2>3, SigmaTakes, SigmaGrows
  <2> HIDE DEF v, w
  <2>8. v <= 1000 * w
    BY <2>5, <2>6
  <2>9. (10 * v) \div w >= 0 /\ (10 * v) \div w \in Int
    <3>1. 10 * v \in Nat /\ w \in Nat
      BY <2>1, <2>7
    <3>2. (10 * v) \div w \in Nat
      BY <2>1, <3>1, Quotients
    <3> QED BY <3>2
  <2>10. (10 * v) \div w <= 10000
    <3>1. 10 * v \in Int /\ 10000 * w \in Int /\ 10 * v <= 10000 * w
      BY <2>1, <2>7, <2>8
    <3>2. (10 * v) \div w <= (10000 * w) \div w
      BY <2>1, <3>1, QuotientsGrow
    <3>3. (10000 * w) \div w = 10000
      BY <2>1
    <3> QED BY <3>2, <3>3
  <2> DEFINE q == (10 * v) \div w
  <2>11. q \in Int /\ q >= 0 /\ q <= 10000 /\ EffectivenessScore(input) = q
    BY <2>1, <2>9, <2>10
  <2> HIDE DEF q
  <2> QED BY <2>11
<1> QED BY <1>1, <1>2

(* A score is of 0 to 100 points, and no signal is better for being worse   *)
(* (scoring.ts: effectivenessScore).                                         *)
THEOREM ScoresAreAlwaysSound ==
  ASSUME NEW input, SignalsFit(input), NoneIsNoAnswer PROVE ScoresAreSound(input)
<1> DEFINE Better(k) == IF k \in {"density", "errors"} THEN input[k] - 500 ELSE input[k] + 500
<1>1. EffectivenessScore(input) \in 0 .. 10000
  BY ScoreBounds
<1>2. ASSUME NEW k \in Signals, input[k] # None
      PROVE  LET better == [input EXCEPT ![k] = Better(k)]
             IN EffectivenessScore(better) >= EffectivenessScore(input)
  <2> DEFINE better == [input EXCEPT ![k] = Better(k)]
             given == GivenOf(input)  a == WorthOf(input)  b == WorthOf(better)
  <2>1. input[k] \in Int /\ Better(k) \in Int /\ None \notin Int /\ DOMAIN input = Signals
    BY <1>2 DEF SignalsFit, NoneIsNoAnswer
  <2>2. /\ better[k] = Better(k) /\ \A j \in Signals \ {k} : better[j] = input[j]
        /\ better \in [Signals -> Int \cup {None}]
    BY <2>1 DEF SignalsFit
  <2>3. SignalsFit(better)
    BY <2>2 DEF SignalsFit
  <2>4. GivenOf(better) = given
    BY <1>2, <2>1, <2>2 DEF GivenOf
  <2> HIDE DEF better
  <2>5. Worth(k, input[k]) <= Worth(k, better[k])
    <3>1. CASE k \in {"density", "errors"}
      <4>1. better[k] \in Int /\ better[k] <= input[k]
        BY <2>1, <2>2, <3>1
      <4> QED BY <2>1, <3>1, <4>1, WorthGrows
    <3>2. CASE k \notin {"density", "errors"}
      <4>1. better[k] \in Int /\ input[k] <= better[k]
        BY <2>1, <2>2, <3>2
      <4> QED BY <2>1, <3>2, <4>1, WorthGrows
    <3> QED BY <3>1, <3>2
  <2>6. \A j \in given : a[j] <= b[j]
    <3>1. /\ \A j \in given : a[j] = Weights[j] * Worth(j, input[j]) /\ a[j] \in Int /\ j \in Signals
          /\ \A j \in given : b[j] = Weights[j] * Worth(j, better[j]) /\ b[j] \in Int
      BY <2>3, <2>4, WorthsFit
    <3>2. \A j \in given : j # k => better[j] = input[j]
      BY <2>2, <3>1
    <3>3. a[k] <= b[k]
      <4>1. input[k] \in Int /\ better[k] \in Int
        BY <2>1, <2>2
      <4>2. Weights[k] * Worth(k, input[k]) <= Weights[k] * Worth(k, better[k])
        BY <2>5, <4>1, WeighedGrows
      <4>3. k \in given
        BY <1>2 DEF GivenOf
      <4> QED BY <3>1, <4>2, <4>3
    <3> QED BY <3>1, <3>2, <3>3
  <2>7. CASE given \subseteq {"density"}
    <3>1. EffectivenessScore(better) = 0 /\ EffectivenessScore(input) = 0
      BY <2>3, <2>4, <2>7, ScoreBySums
    <3>2. EffectivenessScore(better) >= EffectivenessScore(input)
      BY <3>1
    <3> QED BY <3>2 DEF better
  <2>8. CASE ~(given \subseteq {"density"})
    <3> DEFINE v == Sigma(a, given)  u == Sigma(b, given)  w == Sigma(Weights, given)
    <3>1. EffectivenessScore(input) = (10 * v) \div w /\ w \in Int /\ w > 0
      BY <2>8, ScoreBySums
    <3>2. EffectivenessScore(better) = (10 * u) \div w
      BY <2>3, <2>4, <2>8, ScoreBySums
    <3>3. given \in SUBSET (Signals \cap Signals) /\ a \in [Signals -> Int] /\ b \in [Signals -> Int]
      BY <2>3, WorthsFit
    <3>4. IsFiniteSet(Signals)
      BY WeightsFit
    <3> HIDE DEF given, a, b
    <3>5. v <= u /\ v \in Int /\ u \in Int
      BY <2>6, <3>3, <3>4, SigmaAtMost, SigmaTakes
    <3> HIDE DEF v, u, w
    <3> DEFINE x == (10 * v) \div w  y == (10 * u) \div w
    <3>6. x <= y /\ x \in Int /\ y \in Int
      <4>1. 10 * v \in Int /\ 10 * u \in Int /\ 10 * v <= 10 * u
        BY <3>5
      <4>2. x <= y
        BY <3>1, <4>1, QuotientsGrow
      <4>3. x \in Int /\ y \in Int
        BY <3>1, <4>1
      <4> QED BY <4>2, <4>3
    <3>7. EffectivenessScore(input) = x /\ EffectivenessScore(better) = y
      BY <3>1, <3>2
    <3> HIDE DEF x, y
    <3>8. EffectivenessScore(better) >= EffectivenessScore(input)
      BY <3>6, <3>7
    <3> QED BY <3>8 DEF better
  <2> QED BY <2>7, <2>8 DEF better
<1> QED BY <1>1, <1>2 DEF ScoresAreSound


(* A session has finitely many turns and calls.                              *)
LEMMA TurnsAreFinite ==
  ASSUME NEW db, LocalFits(db), TurnsFit(db), NEW s \in db.sessions
  PROVE  IsFiniteSet(DOMAIN s.turns) /\ IsFiniteSet(CallsOf(s))
<1> DEFINE K == DOMAIN s.turns  f == [i \in K |-> Range(s.turns[i].calls)]
<1>1. IsFiniteSet(K)
  <2>1. K = 1 .. s.turnCount /\ s.turnCount \in Nat
    BY DEF TurnsFit, LocalFits, LocalRow
  <2>2. IsFiniteSet(1 .. s.turnCount)
    BY <2>1, FS_Interval
  <2> QED BY <2>1, <2>2
<1>2. ASSUME NEW i \in K PROVE IsFiniteSet(f[i])
  <2> DEFINE g == s.turns[i].calls  J == DOMAIN g
  <2>1. J = 1 .. Len(g) /\ Len(g) \in Nat
    BY DEF TurnsFit
  <2>2. IsFiniteSet(J)
    <3>1. IsFiniteSet(1 .. Len(g))
      BY <2>1, FS_Interval
    <3> QED BY <2>1, <3>1
  <2>3. f[i] = {g[j] : j \in J}
    BY DEF Range
  <2> HIDE DEF f, g, J
  <2>4. IsFiniteSet({g[j] : j \in J})
    BY <2>2, ImageIsFinite
  <2> QED BY <2>3, <2>4
<1>3. CallsOf(s) = UNION {f[i] : i \in K}
  BY DEF CallsOf
<1> HIDE DEF K, f
<1>4. IsFiniteSet({f[i] : i \in K})
  BY <1>1, ImageIsFinite
<1>5. IsFiniteSet(UNION {f[i] : i \in K})
  <2> DEFINE U == {f[i] : i \in K}
  <2>1. IsFiniteSet(U) /\ \A T \in U : IsFiniteSet(T)
    BY <1>2, <1>4
  <2> HIDE DEF U
  <2> QED BY <2>1, FS_UNION DEF U
<1> QED BY <1>1, <1>3, <1>5 DEF K

-----------------------------------------------------------------------------
(* Sums over what is counted in another way.                                *)

(* Sums by key add up to the whole.                                          *)
LEMMA KeySumsAddUp ==
  ASSUME NEW A, IsFiniteSet(A), NEW f \in [A -> Int], NEW K, IsFiniteSet(K), NEW key \in [A -> K]
  PROVE  /\ KeySums(f, A, key, K) \in [K -> Int]
         /\ Sigma(KeySums(f, A, key, K), K) = Sigma(f, A)
<1>1. A \in SUBSET A
  OBVIOUS
<1>2. LET p == [b \in K |-> Sigma(f, {x \in A : key[x] = b})]
      IN p \in [K -> Int] /\ Sigma(p, K) = Sigma(f, A)
  BY <1>1, SigmaByKey
<1> QED BY <1>2 DEF KeySums

(* What is told apart by a map is counted, and added up, through it.        *)
Paired(A, f, g, B, h) ==
  /\ \A x \in A : g[x] \in B /\ h[g[x]] = f[x]
  /\ \A x, y \in A : g[x] = g[y] => x = y
  /\ \A b \in B : \E x \in A : b = g[x]
  /\ h = [b \in B |-> h[b]]

(* Two sums that run over the same numbers by other names are equal.         *)
LEMMA SumAlong ==
  ASSUME NEW A, IsFiniteSet(A), NEW f \in [A -> Int], NEW g, NEW B, NEW h, Paired(A, f, g, B, h)
  PROVE  SumOver(h) = Sigma(f, A)
<1> DEFINE key == [x \in A |-> g[x]]
           part == KeySums(f, A, key, B)
<1>1. key \in [A -> B] /\ B = {key[x] : x \in A}
  BY DEF Paired
<1>2. IsFiniteSet(B)
  <2> HIDE DEF key
  <2>1. IsFiniteSet({key[x] : x \in A})
    BY ImageIsFinite
  <2> QED BY <1>1, <2>1
<1>3. ASSUME NEW x \in A PROVE part[g[x]] = f[x]
  <2>1. {y \in A : key[y] = g[x]} = {x} /\ {x} \ {x} = {} /\ {x} \in SUBSET A /\ g[x] \in B
    BY DEF Paired
  <2>2. Sigma(f, {x}) = f[x] + Sigma(f, {}) /\ Sigma(f, {}) = 0
    BY <2>1, SigmaTakes
  <2>3. f[x] \in Int
    OBVIOUS
  <2>4. Sigma(f, {x}) = f[x]
    BY <2>2, <2>3
  <2> HIDE DEF key
  <2> QED BY <2>1, <2>4 DEF KeySums
<1>4. h = part
  <2>1. part = [b \in B |-> part[b]]
    BY DEF KeySums
  <2> HIDE DEF part
  <2>2. ASSUME NEW b \in B PROVE h[b] = part[b]
    <3>1. PICK x \in A : b = g[x]
      BY DEF Paired
    <3> QED BY <1>3, <3>1 DEF Paired
  <2>3. h = [b \in B |-> h[b]]
    BY DEF Paired
  <2> QED BY <2>1, <2>2, <2>3
<1> HIDE DEF key
<1>5. part \in [B -> Int] /\ Sigma(part, B) = Sigma(f, A)
  BY <1>1, <1>2, KeySumsAddUp
<1>6. SumOver(h) = Sigma(h, B)
  <2>1. h = [b \in B |-> h[b]]
    BY DEF Paired
  <2> QED BY <2>1, SumOverIsSigma
<1> QED BY <1>4, <1>5, <1>6

(* What is labelled alike is as many. *)
LEMMA CountAlong ==
  ASSUME NEW A, IsFiniteSet(A), NEW g, \A x, y \in A : g[x] = g[y] => x = y,
         NEW B, \A x \in A : g[x] \in B, \A b \in B : \E x \in A : b = g[x]
  PROVE  Cardinality(B) = Cardinality(A) /\ IsFiniteSet(B)
<1>1. B = {g[x] : x \in A}
  OBVIOUS
<1>2. Cardinality({g[x] : x \in A}) = Cardinality(A)
  BY OneAddendEach
<1>3. IsFiniteSet({g[x] : x \in A})
  BY ImageIsFinite
<1> QED BY <1>1, <1>2, <1>3

(* The calls of all sessions, as the one statement reads them.              *)
TaggedCalls(rows) == UNION {{[session |-> s.id, call |-> c] : c \in CallsOf(s)} : s \in rows}

(* Among the calls of all sessions, those tagged with a session's id are its *)
(* own.                                                                      *)
LEMMA OwnCalls ==
  ASSUME NEW db, LocalFits(db), NEW rows \in SUBSET db.sessions, NEW s \in rows
  PROVE  \A x \in TaggedCalls(rows) : x.session = s.id <=> \E c \in CallsOf(s) : x = [session |-> s.id, call |-> c]
<1>1. SUFFICES ASSUME NEW x \in TaggedCalls(rows), x.session = s.id
               PROVE  \E c \in CallsOf(s) : x = [session |-> s.id, call |-> c]
  OBVIOUS
<1>2. PICK t \in rows : \E c \in CallsOf(t) : x = [session |-> t.id, call |-> c]
  BY DEF TaggedCalls
<1>3. t = s
  BY <1>1, <1>2 DEF LocalFits
<1> QED BY <1>2, <1>3

(* There are as many of them as the session has.                             *)
LEMMA OwnCallsCounted ==
  ASSUME NEW db, LocalFits(db), TurnsFit(db), NEW rows \in SUBSET db.sessions, NEW s \in rows,
         NEW C \in SUBSET CallsOf(s)
  PROVE  Cardinality({x \in TaggedCalls(rows) : x.session = s.id /\ x.call \in C}) = Cardinality(C)
<1> DEFINE g == [c \in C |-> [session |-> s.id, call |-> c]]
           B == {x \in TaggedCalls(rows) : x.session = s.id /\ x.call \in C}
<1>1. IsFiniteSet(C)
  BY TurnsAreFinite, FS_Subset
<1>2. \A c \in C : g[c] = [session |-> s.id, call |-> c]
  OBVIOUS
<1>3. \A c, d \in C : g[c] = g[d] => c = d
  <2>1. \A c, d : [session |-> s.id, call |-> c] = [session |-> s.id, call |-> d] => c = d
    OBVIOUS
  <2> QED BY <1>2, <2>1
<1>4. \A c \in C : g[c] \in B
  <2>1. \A c \in CallsOf(s) : [session |-> s.id, call |-> c] \in TaggedCalls(rows)
    BY DEF TaggedCalls
  <2> QED BY <2>1
<1>5. \A x \in B : \E c \in C : x = g[c]
  BY OwnCalls
<1> HIDE DEF g, B
<1>6. Cardinality(B) = Cardinality(C)
  BY <1>1, <1>3, <1>4, <1>5, CountAlong
<1> QED BY <1>6 DEF B

(* What the statement counts of a session is what its page counts. *)
LEMMA CountsOfCalls ==
  ASSUME NEW db, LocalFits(db), TurnsFit(db), NEW rows \in SUBSET db.sessions, NEW s \in rows
  PROVE  LET own == AggregateMetricsForSessions(rows)[s.id] IN
         /\ own.reads = Cardinality(CallsTo(CallsOf(s), {"Read"}))
         /\ own.edits = Cardinality(CallsTo(CallsOf(s), EditTools))
         /\ own.errors = Errors(CallsOf(s)) /\ own.total = Cardinality(CallsOf(s))
<1> DEFINE own == AggregateMetricsForSessions(rows)[s.id]
           T == TaggedCalls(rows)
           reads == CallsTo(CallsOf(s), {"Read"})
           edits == CallsTo(CallsOf(s), EditTools)
           errors == {c \in CallsOf(s) : c.error}
<1>1. /\ own.reads = Cardinality({x \in T : x.session = s.id /\ x.call.tool = "Read"})
      /\ own.edits = Cardinality({x \in T : x.session = s.id /\ x.call.tool \in EditTools})
      /\ own.errors = Cardinality({x \in T : x.session = s.id /\ x.call.error})
      /\ own.total = Cardinality({x \in T : x.session = s.id /\ TRUE})
  BY DEF AggregateMetricsForSessions, TaggedCalls
<1>2. \A x \in T : x.session = s.id => x.call \in CallsOf(s)
  BY OwnCalls
<1> HIDE DEF T, own
<1>3. /\ {x \in T : x.session = s.id /\ x.call.tool = "Read"} = {x \in T : x.session = s.id /\ x.call \in reads}
      /\ {x \in T : x.session = s.id /\ x.call.tool \in EditTools} = {x \in T : x.session = s.id /\ x.call \in edits}
      /\ {x \in T : x.session = s.id /\ x.call.error} = {x \in T : x.session = s.id /\ x.call \in errors}
      /\ {x \in T : x.session = s.id /\ TRUE} = {x \in T : x.session = s.id /\ x.call \in CallsOf(s)}
  BY <1>2 DEF CallsTo
<1>4. reads \in SUBSET CallsOf(s) /\ edits \in SUBSET CallsOf(s) /\ errors \in SUBSET CallsOf(s)
        /\ CallsOf(s) \in SUBSET CallsOf(s)
  BY DEF CallsTo
<1> HIDE DEF reads, edits, errors
<1>5. \A C \in SUBSET CallsOf(s) : Cardinality({x \in T : x.session = s.id /\ x.call \in C}) = Cardinality(C)
  BY OwnCallsCounted DEF T
<1>6. /\ own.reads = Cardinality(reads) /\ own.edits = Cardinality(edits)
      /\ own.errors = Cardinality(errors) /\ own.total = Cardinality(CallsOf(s))
  BY <1>1, <1>3, <1>4, <1>5
<1> QED BY <1>6 DEF own, reads, edits, errors, Errors

(* Paths that were read again, and how often. *)
LEMMA RereadsOfCalls ==
  ASSUME NEW db, LocalFits(db), TurnsFit(db), NEW rows \in SUBSET db.sessions, NEW s \in rows
  PROVE  AggregateMetricsForSessions(rows)[s.id].rereadCount = RereadCount(CallsOf(s))
<1> DEFINE T == TaggedCalls(rows)
           reads == {x \in T : x.call.tool = "Read" /\ x.call.path # None}
           Size(id, path) == Cardinality({y \in reads : y.session = id /\ y.call.path = path})
           groups == {[session |-> x.session, path |-> x.call.path,
                       reads |-> Size(x.session, x.call.path)] : x \in reads}
           B == {g \in groups : g.session = s.id /\ g.reads > 1}
           h == [g \in B |-> g.reads - 1]
           paths == {c.path : c \in CallsTo(CallsOf(s), {"Read"})} \ {None}
           A == {p \in paths : ReadsOf(CallsOf(s), p) > 1}
           f == [p \in A |-> ReadsOf(CallsOf(s), p) - 1]
           g == [p \in A |-> [session |-> s.id, path |-> p, reads |-> ReadsOf(CallsOf(s), p)]]
<1>1. AggregateMetricsForSessions(rows)[s.id].rereadCount = SumOver(h)
  BY DEF AggregateMetricsForSessions, TaggedCalls, Total
<1>2. RereadCount(CallsOf(s)) = SumOver(f)
  BY DEF RereadCount, Total
<1>3. \A x \in T : x.session = s.id => x.call \in CallsOf(s)
  BY OwnCalls
<1>4. \A c \in CallsOf(s) : [session |-> s.id, call |-> c] \in T
  BY DEF TaggedCalls
<1>5. ASSUME NEW p, p # None PROVE Size(s.id, p) = ReadsOf(CallsOf(s), p)
  <2> DEFINE C == {c \in CallsTo(CallsOf(s), {"Read"}) : c.path = p}
  <2>1. {y \in reads : y.session = s.id /\ y.call.path = p} = {y \in T : y.session = s.id /\ y.call \in C}
    BY <1>3, <1>5 DEF CallsTo
  <2>2. C \in SUBSET CallsOf(s)
    BY DEF CallsTo
  <2>3. ReadsOf(CallsOf(s), p) = Cardinality(C)
    BY DEF ReadsOf
  <2> HIDE DEF C, reads
  <2>4. Cardinality({y \in T : y.session = s.id /\ y.call \in C}) = Cardinality(C)
    BY <2>2, OwnCallsCounted
  <2> QED BY <2>1, <2>3, <2>4
<1>6. \A p \in paths : p # None /\ \E c \in CallsOf(s) : c.tool = "Read" /\ c.path = p
  BY DEF CallsTo
<1>7. \A c \in CallsOf(s) : c.tool = "Read" /\ c.path # None => c.path \in paths
  BY DEF CallsTo
<1>8. IsFiniteSet(A)
  <2> DEFINE R == CallsTo(CallsOf(s), {"Read"})  q == [c \in R |-> c.path]
  <2>1. IsFiniteSet(R)
    <3>1. R \in SUBSET CallsOf(s)
      BY DEF CallsTo
    <3> QED BY <3>1, TurnsAreFinite, FS_Subset
  <2>2. A \in SUBSET {q[c] : c \in R}
    OBVIOUS
  <2> HIDE DEF R, q, A
  <2>3. IsFiniteSet({q[c] : c \in R})
    BY <2>1, ImageIsFinite
  <2> QED BY <2>2, <2>3, FS_Subset
<1>9. \A p : ReadsOf(CallsOf(s), p) \in Nat
  <2>1. ASSUME NEW p PROVE ReadsOf(CallsOf(s), p) \in Nat
    <3> DEFINE C == {c \in CallsTo(CallsOf(s), {"Read"}) : c.path = p}
    <3>1. C \in SUBSET CallsOf(s)
      BY DEF CallsTo
    <3> HIDE DEF C
    <3>2. Cardinality(C) \in Nat
      BY <3>1, TurnsAreFinite, CountApart
    <3> QED BY <3>2 DEF ReadsOf, C
  <2> QED BY <2>1
<1> HIDE DEF T
<1>10. f \in [A -> Int]
  BY <1>9
<1>11. \A p \in A : g[p] \in B /\ h[g[p]] = f[p]
  <2>1. SUFFICES ASSUME NEW p \in A PROVE g[p] \in B /\ h[g[p]] = f[p]
    OBVIOUS
  <2>2. PICK c \in CallsOf(s) : c.tool = "Read" /\ c.path = p /\ p # None
    BY <1>6
  <2> DEFINE x == [session |-> s.id, call |-> c]
  <2>3. x \in reads /\ x.session = s.id /\ x.call.path = p
    BY <1>4, <2>2
  <2>4. g[p] = [session |-> s.id, path |-> p, reads |-> ReadsOf(CallsOf(s), p)] /\ ReadsOf(CallsOf(s), p) > 1
    OBVIOUS
  <2>5. Size(s.id, p) = ReadsOf(CallsOf(s), p)
    BY <1>5, <2>2
  <2>6. [session |-> x.session, path |-> x.call.path, reads |-> Size(x.session, x.call.path)] = g[p]
    BY <2>3, <2>4, <2>5
  <2> HIDE DEF x, reads, Size, g
  <2>7. g[p] \in groups
    BY <2>3, <2>6
  <2> HIDE DEF groups
  <2>8. g[p] \in B
    BY <2>4, <2>7
  <2>9. h[g[p]] = ReadsOf(CallsOf(s), p) - 1
    BY <2>4, <2>8
  <2> QED BY <2>8, <2>9
<1>12. \A b \in B : \E p \in A : b = g[p]
  <2>1. SUFFICES ASSUME NEW b \in B PROVE \E p \in A : b = g[p]
    OBVIOUS
  <2>2. PICK x \in reads : b = [session |-> x.session, path |-> x.call.path, reads |-> Size(x.session, x.call.path)]
    OBVIOUS
  <2>3. b.session = s.id /\ b.reads > 1 /\ x.call.tool = "Read" /\ x.call.path # None /\ x \in T
    OBVIOUS
  <2> HIDE DEF reads, groups, B, Size
  <2>4. x.session = s.id /\ b.path = x.call.path /\ b.reads = Size(s.id, x.call.path)
    BY <2>2, <2>3
  <2>5. x.call.path \in paths /\ b.reads = ReadsOf(CallsOf(s), x.call.path)
    BY <1>3, <1>5, <1>7, <2>3, <2>4
  <2>6. x.call.path \in A
    BY <2>3, <2>5
  <2>7. b = [session |-> s.id, path |-> x.call.path, reads |-> ReadsOf(CallsOf(s), x.call.path)]
    BY <2>2, <2>4, <2>5
  <2> QED BY <2>6, <2>7
<1>13. \A p, q \in A : g[p] = g[q] => p = q
  <2>1. \A p \in A : g[p].path = p
    OBVIOUS
  <2> QED BY <2>1
<1>14. h = [b \in B |-> h[b]]
  OBVIOUS
<1> HIDE DEF A, B, f, g, h
<1>15. Paired(A, f, g, B, h)
  BY <1>11, <1>12, <1>13, <1>14 DEF Paired
<1>16. SumOver(h) = Sigma(f, A)
  BY <1>8, <1>10, <1>15, SumAlong
<1>17. SumOver(f) = Sigma(f, A)
  <2>1. f = [p \in A |-> f[p]]
    BY <1>10
  <2> QED BY <2>1, SumOverIsSigma
<1> QED BY <1>1, <1>2, <1>16, <1>17

(* The statement for all sessions gives the means of what each page says    *)
(* (effectiveness-v2.ts).                                                   *)
THEOREM AggregatesAreAlwaysMeans ==
  ASSUME NEW db, LocalFits(db), TurnsFit(db) PROVE AggregatesAreMeans(db)
<1> DEFINE rows == StartedSince(db.sessions, db.now, 30)
           agg == AggregateMetricsForSessions(rows)
           all == GetPersonalEffectivenessAggregates(db, 30)
           Own(s) == GetPersonalEffectivenessSession(s)
<1>1. rows \in SUBSET db.sessions
  BY WindowIsPart
<1>2. /\ all.avgRereadCount = MeanOf(rows, LAMBDA s : agg[s.id].rereadCount)
      /\ all.avgTokensUntilFirstEdit = MeanOf(rows, TokensUntilFirstEdit)
      /\ all.avgReadsToEditsRatio = MeanOf(rows, LAMBDA s : Ratio(agg[s.id].reads, agg[s.id].edits))
      /\ all.avgToolErrorRate = MeanOf(rows, LAMBDA s : Ratio(agg[s.id].errors, agg[s.id].total))
  BY DEF GetPersonalEffectivenessAggregates
<1>3. \A s \in rows : agg[s.id].rereadCount = Own(s).rereadCount
  BY <1>1, RereadsOfCalls DEF GetPersonalEffectivenessSession
<1>4. \A s \in rows : /\ Ratio(agg[s.id].reads, agg[s.id].edits) = Own(s).readsToEditsRatio
                      /\ Ratio(agg[s.id].errors, agg[s.id].total) = Own(s).toolErrorRate
  <2>1. \A s \in rows : /\ agg[s.id].reads = Cardinality(CallsTo(CallsOf(s), {"Read"}))
                        /\ agg[s.id].edits = Cardinality(CallsTo(CallsOf(s), EditTools))
                        /\ agg[s.id].errors = Errors(CallsOf(s)) /\ agg[s.id].total = Cardinality(CallsOf(s))
    BY <1>1, CountsOfCalls
  <2> QED BY <2>1 DEF GetPersonalEffectivenessSession, ReadsToEdits, ErrorRate
<1> HIDE DEF rows, agg, all
<1>5. MeanOf(rows, LAMBDA s : agg[s.id].rereadCount) = MeanOf(rows, LAMBDA s : Own(s).rereadCount)
  <2> HIDE DEF Own
  <2> DEFINE K == {s \in rows : agg[s.id].rereadCount # None}
  <2>1. K = {s \in rows : Own(s).rereadCount # None}
    BY <1>3
  <2>2. [s \in K |-> agg[s.id].rereadCount] = [s \in K |-> Own(s).rereadCount]
    BY <1>3
  <2> QED BY <2>1, <2>2 DEF MeanOf, Total
<1>6. MeanOf(rows, LAMBDA s : Ratio(agg[s.id].reads, agg[s.id].edits)) = MeanOf(rows, LAMBDA s : Own(s).readsToEditsRatio)
  <2> HIDE DEF Own
  <2> DEFINE K == {s \in rows : Ratio(agg[s.id].reads, agg[s.id].edits) # None}
  <2>1. K = {s \in rows : Own(s).readsToEditsRatio # None}
    BY <1>4
  <2>2. [s \in K |-> Ratio(agg[s.id].reads, agg[s.id].edits)] = [s \in K |-> Own(s).readsToEditsRatio]
    BY <1>4
  <2> QED BY <2>1, <2>2 DEF MeanOf, Total
<1>7. MeanOf(rows, LAMBDA s : Ratio(agg[s.id].errors, agg[s.id].total)) = MeanOf(rows, LAMBDA s : Own(s).toolErrorRate)
  <2> HIDE DEF Own
  <2> DEFINE K == {s \in rows : Ratio(agg[s.id].errors, agg[s.id].total) # None}
  <2>1. K = {s \in rows : Own(s).toolErrorRate # None}
    BY <1>4
  <2>2. [s \in K |-> Ratio(agg[s.id].errors, agg[s.id].total)] = [s \in K |-> Own(s).toolErrorRate]
    BY <1>4
  <2> QED BY <2>1, <2>2 DEF MeanOf, Total
<1>8. MeanOf(rows, TokensUntilFirstEdit) = MeanOf(rows, LAMBDA s : Own(s).tokensUntilFirstEdit)
  <2>1. \A s : TokensUntilFirstEdit(s) = Own(s).tokensUntilFirstEdit
    BY DEF GetPersonalEffectivenessSession
  <2> HIDE DEF Own
  <2> DEFINE K == {s \in rows : TokensUntilFirstEdit(s) # None}
  <2>2. K = {s \in rows : Own(s).tokensUntilFirstEdit # None}
    BY <2>1
  <2>3. [s \in K |-> TokensUntilFirstEdit(s)] = [s \in K |-> Own(s).tokensUntilFirstEdit]
    BY <2>1
  <2> QED BY <2>2, <2>3 DEF MeanOf, Total
<1> QED BY <1>2, <1>5, <1>6, <1>7, <1>8 DEF AggregatesAreMeans, rows, all

(* What is not measured over nothing is a number of thousandths.            *)
LEMMA RatioFits ==
  ASSUME NEW num \in Int, NEW den \in Nat
  PROVE  Ratio(num, den) \in Int \cup {None} /\ (den # 0 => Ratio(num, den) = (1000 * num) \div den)
<1>1. CASE den = 0
  BY <1>1 DEF Ratio
<1>2. CASE den # 0
  <2>1. den > 0 /\ 1000 * num \in Int
    BY <1>2
  <2>2. (1000 * num) \div den \in Int
    BY <2>1
  <2> QED BY <1>2, <2>2 DEF Ratio
<1> QED BY <1>1, <1>2

RatedTurns(s) == {i \in DOMAIN s.turns : s.turns[i].rating # None}

(* What the view session_effectiveness computes of a session.                *)
LEMMA SessionsView ==
  ASSUME NEW s
  PROVE  /\ session_effectiveness(s).hit = Hit(s)
         /\ session_effectiveness(s).outIn = Ratio(s.output, s.input)
         /\ session_effectiveness(s).rating =
              Thousandths(IF RatedTurns(s) = {} THEN None
                          ELSE [num |-> SumOver([i \in RatedTurns(s) |-> s.turns[i].rating]),
                                den |-> Cardinality(RatedTurns(s))])
<1> DEFINE h == Hit(s)
           o == Ratio(s.output, s.input)
           r == Thousandths(IF RatedTurns(s) = {} THEN None
                            ELSE [num |-> SumOver([i \in RatedTurns(s) |-> s.turns[i].rating]),
                                  den |-> Cardinality(RatedTurns(s))])
<1>1. session_effectiveness(s) = [hit |-> h, outIn |-> o, rating |-> r]
  BY DEF session_effectiveness, MeanOf, Total, RatedTurns
<1>2. [hit |-> h, outIn |-> o, rating |-> r].hit = h /\ [hit |-> h, outIn |-> o, rating |-> r].outIn = o
      /\ [hit |-> h, outIn |-> o, rating |-> r].rating = r
  <2> HIDE DEF h, o, r
  <2> QED OBVIOUS
<1> QED BY <1>1, <1>2

(* The rating of a session is the mean of those of its turns. *)
LEMMA RatingFits ==
  ASSUME NEW db, LocalFits(db), TurnsFit(db), NEW s \in db.sessions
  PROVE  session_effectiveness(s).rating \in Int \cup {None}
<1> DEFINE K == RatedTurns(s)
           f == [i \in K |-> s.turns[i].rating]
           mean == IF K = {} THEN None ELSE [num |-> SumOver(f), den |-> Cardinality(K)]
<1>2. IsFiniteSet(K) /\ Cardinality(K) \in Nat
  <2>1. K \in SUBSET DOMAIN s.turns
    BY DEF RatedTurns
  <2> HIDE DEF K
  <2> QED BY <2>1, TurnsAreFinite, FS_Subset, FS_CardinalityType
<1>3. f \in [K -> Int]
  BY DEF TurnsFit, RatedTurns
<1>5. session_effectiveness(s).rating = Thousandths(mean)
  BY SessionsView
<1> HIDE DEF f, K
<1>4. SumOver(f) \in Int
  <2>1. f = [i \in K |-> f[i]] /\ K \in SUBSET K
    BY <1>3
  <2>2. SumOver(f) = Sigma(f, K)
    BY <2>1, SumOverIsSigma
  <2> QED BY <1>2, <1>3, <2>1, <2>2, SigmaTakes
<1> HIDE DEF mean
<1>6. CASE mean = None
  BY <1>5, <1>6 DEF Thousandths
<1>7. CASE mean # None
  <2>1. mean.num \in Int /\ mean.den \in Nat
    BY <1>2, <1>4, <1>7 DEF mean
  <2>2. Ratio(mean.num, mean.den) \in Int \cup {None}
    BY <2>1, RatioFits
  <2> QED BY <1>5, <1>7, <2>2 DEF Thousandths
<1> QED BY <1>6, <1>7

(* The rates OTEL gives are of counts. *)
LEMMA AcceptFits ==
  ASSUME NEW db, ScrapesFit(db), NEW days, NEW id \in DOMAIN GetAcceptRatesBySession(db, days)
  PROVE  Thousandths(GetAcceptRatesBySession(db, days)[id]) \in Int \cup {None}
<1> DEFINE rate == GetAcceptRatesBySession(db, days)[id]
           a == FinalValue(db, "decision", id, "accept")
           r == FinalValue(db, "decision", id, "reject")
<1>1. rate = Rate(a, r) /\ rate # None
  BY DEF GetAcceptRatesBySession, GetSessionOtelStats
<1>2. a \in Nat /\ r \in Nat
  BY CountsAreCounts
<1> HIDE DEF a, r, rate
<1>3. rate = [num |-> a, den |-> a + r]
  BY <1>1 DEF Rate
<1>4. Ratio(rate.num, rate.den) \in Int \cup {None}
  <2>1. rate.num \in Int /\ rate.den \in Nat
    BY <1>2, <1>3
  <2> QED BY <2>1, RatioFits
<1> QED BY <1>1, <1>4 DEF Thousandths, rate

(* Every session of a window has a score. *)
LEMMA SessionScores ==
  ASSUME NEW db, LocalFits(db), TurnsFit(db), ScrapesFit(db), NEW days
  PROVE  GetSessionScores(db, days) \in [StartedSince(db.sessions, db.now, days) -> Nat]
<1> DEFINE rows == StartedSince(db.sessions, db.now, days)
           rates == GetAcceptRatesBySession(db, days)
           scores == GetSessionScores(db, days)
<1>1. scores = [s \in rows |-> ScoreOf(s, session_effectiveness(s), rates)]
  BY DEF GetSessionScores, ScoresWith
<1>2. ASSUME NEW s \in rows PROVE ScoreOf(s, session_effectiveness(s), rates) \in Nat
  <2> DEFINE view == session_effectiveness(s)
             input == [outIn |-> view.outIn, hit |-> view.hit, rating |-> view.rating,
                       density |-> Ratio(Cardinality(DOMAIN CorrectionPenalties(s.turns)), Len(s.turns)),
                       errors |-> ErrorRate(CallsOf(s)),
                       accept |-> IF s.id \in DOMAIN rates THEN Thousandths(rates[s.id]) ELSE None]
             N == Int \cup {None}
  <2>1. s \in db.sessions
    BY WindowIsPart
  <2>2. ScoreOf(s, view, rates) = EffectivenessScore(input)
    BY DEF ScoreOf
  <2>3. view.outIn \in N /\ view.hit \in N
    <3>1. s.output \in Int /\ s.input \in Nat /\ s.cacheRead \in Int /\ s.input + s.cacheRead + s.cacheCreation \in Nat
      BY <2>1 DEF LocalFits, LocalRow
    <3>2. Ratio(s.output, s.input) \in N
      BY <3>1, RatioFits
    <3>3. Hit(s) \in N
      BY <3>1, RatioFits DEF Hit
    <3>4. view.outIn = Ratio(s.output, s.input) /\ view.hit = Hit(s)
      <4> HIDE DEF input, rows, rates, scores, N
      <4> QED BY SessionsView
    <3> HIDE DEF view, input, N
    <3> QED BY <3>2, <3>3, <3>4
  <2>4. view.rating \in N
    BY <2>1, RatingFits
  <2>5. input.density \in N
    <3> DEFINE K == {k \in 1 .. Len(s.turns) - 1 : s.turns[k + 1].prompt \in {"mild", "strong"}}
    <3>1. Len(s.turns) \in Nat
      BY <2>1 DEF TurnsFit, LocalFits, LocalRow
    <3>2. DOMAIN CorrectionPenalties(s.turns) = K
      BY DEF CorrectionPenalties
    <3>3. K \in SUBSET (1 .. Len(s.turns) - 1) /\ IsFiniteSet(1 .. Len(s.turns) - 1)
      <4>1. 1 \in Int /\ Len(s.turns) - 1 \in Int
        BY <3>1
      <4> QED BY <4>1, FS_Interval
    <3> HIDE DEF K
    <3>4. Cardinality(K) \in Int
      <4>1. Cardinality(K) \in Nat
        BY <3>3, FS_Subset, FS_CardinalityType
      <4> QED BY <4>1
    <3> QED BY <3>1, <3>2, <3>4, RatioFits
  <2>6. input.errors \in N
    <3> DEFINE E == {c \in CallsOf(s) : c.error}
    <3>1. E \in SUBSET CallsOf(s) /\ IsFiniteSet(CallsOf(s))
      BY <2>1, TurnsAreFinite
    <3> HIDE DEF E
    <3>2. Cardinality(E) \in Int /\ Cardinality(CallsOf(s)) \in Nat
      <4>1. Cardinality(E) \in Nat /\ Cardinality(CallsOf(s)) \in Nat
        BY <3>1, CountApart
      <4> QED BY <4>1
    <3>3. ErrorRate(CallsOf(s)) = Ratio(Cardinality(E), Cardinality(CallsOf(s)))
      BY DEF ErrorRate, Errors, E
    <3> QED BY <3>2, <3>3, RatioFits
  <2>7. input.accept \in N
    BY AcceptFits
  <2> HIDE DEF view, rates
  <2>8. SignalsFit(input)
    <3>1. Signals = {"outIn", "hit", "rating", "density", "errors", "accept"}
      BY DEF Signals, Weights
    <3>2. DOMAIN input = Signals /\ \A k \in Signals : input[k] \in N
      BY <2>3, <2>4, <2>5, <2>6, <2>7, <3>1
    <3>3. input = [k \in Signals |-> input[k]]
      BY <3>2
    <3> HIDE DEF input
    <3> QED BY <3>2, <3>3 DEF SignalsFit
  <2> HIDE DEF input
  <2>9. EffectivenessScore(input) \in Nat
    BY <2>8, ScoreBounds
  <2> QED BY <2>2, <2>9 DEF view
<1> HIDE DEF scores, rows, rates
<1>3. scores \in [rows -> Nat]
  BY <1>1, <1>2
<1> QED BY <1>3 DEF scores, rows

-----------------------------------------------------------------------------
(* Quarters.                                                                *)

(* The order of the quarters: by score, then the dearest first, then by id. *)
ScoredBefore(db, scores) ==
  [s \in DOMAIN scores |->
    {t \in DOMAIN scores :
       \/ scores[t] < scores[s]
       \/ scores[t] = scores[s]
            /\ \/ EFFECTIVE_COST_EXPR(db, t) > EFFECTIVE_COST_EXPR(db, s)
               \/ EFFECTIVE_COST_EXPR(db, t) = EFFECTIVE_COST_EXPR(db, s) /\ t.id < s.id}]

(* Scores, and costs and ids among equals, put the sessions in one order.    *)
LEMMA ScoresOrder ==
  ASSUME NEW db, LocalFits(db), NEW rows \in SUBSET db.sessions, NEW scores \in [rows -> Int]
  PROVE  Orders(ScoredBefore(db, scores), rows)
<1> DEFINE cost == [s \in rows |-> -EFFECTIVE_COST_EXPR(db, s)]
           id == [s \in rows |-> s.id]
           dearer == [s \in rows |-> {t \in rows : cost[t] < cost[s] \/ (cost[t] = cost[s] /\ id[t] < id[s])}]
           rank == [s \in rows |-> Cardinality(dearer[s])]
           before == [s \in rows |-> {t \in rows : scores[t] < scores[s] \/ (scores[t] = scores[s] /\ rank[t] < rank[s])}]
<1>1. IsFiniteSet(rows) /\ \A s \in rows : EFFECTIVE_COST_EXPR(db, s) \in Nat /\ s.id \in Int
  BY SqlCosts, FS_Subset DEF LocalFits, LocalRow
<1>2. cost \in [rows -> Int] /\ id \in [rows -> Int]
  BY <1>1
<1>3. \A s, t \in rows : id[s] = id[t] => s = t
  BY DEF LocalFits
<1>4. Orders(dearer, rows)
  <2> HIDE DEF cost, id
  <2> QED BY <1>2, <1>3, RankThenId
<1>5. \A s, t \in rows : t \in dearer[s] <=> EFFECTIVE_COST_EXPR(db, t) > EFFECTIVE_COST_EXPR(db, s)
                            \/ (EFFECTIVE_COST_EXPR(db, t) = EFFECTIVE_COST_EXPR(db, s) /\ t.id < s.id)
  <2>1. SUFFICES ASSUME NEW s \in rows, NEW t \in rows
                 PROVE  t \in dearer[s] <=> EFFECTIVE_COST_EXPR(db, t) > EFFECTIVE_COST_EXPR(db, s)
                            \/ (EFFECTIVE_COST_EXPR(db, t) = EFFECTIVE_COST_EXPR(db, s) /\ t.id < s.id)
    OBVIOUS
  <2> DEFINE c == EFFECTIVE_COST_EXPR(db, s)  d == EFFECTIVE_COST_EXPR(db, t)
  <2>2. c \in Nat /\ d \in Nat
    BY <1>1
  <2>3. t \in dearer[s] <=> -d < -c \/ (-d = -c /\ t.id < s.id)
    OBVIOUS
  <2> HIDE DEF c, d, dearer
  <2>4. (-d < -c <=> d > c) /\ (-d = -c <=> d = c)
    BY <2>2
  <2> QED BY <2>3, <2>4 DEF c, d
<1> HIDE DEF cost, id, dearer
<1>6. \A s, t \in rows : t \in dearer[s] <=> rank[t] < rank[s]
  BY <1>1, <1>4, RanksAreTaken
<1>7. rank \in [rows -> Int] /\ \A s, t \in rows : rank[s] = rank[t] => s = t
  <2>1. \A s \in rows : Cardinality(dearer[s]) \in 0 .. Cardinality(rows) - 1
    BY <1>1, <1>4, RanksAreTaken
  <2>2. \A s, t \in rows : Cardinality(dearer[s]) = Cardinality(dearer[t]) => s = t
    BY <1>1, <1>4, RanksAreTaken
  <2>3. Cardinality(rows) \in Nat
    BY <1>1, FS_CardinalityType
  <2> QED BY <2>1, <2>2, <2>3
<1> HIDE DEF rank
<1>8. Orders(before, rows)
  BY <1>7, RankThenId
<1>9. before = ScoredBefore(db, scores)
  <2>1. DOMAIN scores = rows
    OBVIOUS
  <2>2. \A s, t \in rows : rank[t] < rank[s] <=> EFFECTIVE_COST_EXPR(db, t) > EFFECTIVE_COST_EXPR(db, s)
                            \/ (EFFECTIVE_COST_EXPR(db, t) = EFFECTIVE_COST_EXPR(db, s) /\ t.id < s.id)
    BY <1>5, <1>6
  <2> QED BY <2>1, <2>2 DEF ScoredBefore
<1> QED BY <1>8, <1>9

(* The quarters of a window do not meet, and none of the better one scores  *)
(* less than one of the worse (effectiveness-v2.ts: getQuartileComparison).  *)
THEOREM QuartilesAlwaysApart ==
  ASSUME NEW db, LocalFits(db), TurnsFit(db), ScrapesFit(db) PROVE QuartilesApart(db)
<1> DEFINE scores == GetSessionScores(db, 30)
           rows == Recent(db)
           q == Quartiles(db, 30)
           n == Cardinality(rows)
           size == Max({1, n \div 4})
           before == ScoredBefore(db, scores)
           worst == {i.id : i \in GetTopSessionsByScore(db, Cardinality(q.bottom), 30)}
<1>1. /\ scores \in [rows -> Int] /\ DOMAIN scores = rows /\ rows \in SUBSET db.sessions /\ IsFiniteSet(rows)
      /\ n \in Nat
  <2>1. scores \in [rows -> Int]
    BY SessionScores DEF Recent
  <2>2. rows \in SUBSET db.sessions /\ IsFiniteSet(rows)
    BY DaysOfWindow
  <2>3. n \in Nat
    BY <2>2, FS_CardinalityType
  <2> HIDE DEF scores, rows, n
  <2> QED BY <2>1, <2>2, <2>3
<1>2. SUFFICES ASSUME n >= 4
               PROVE  /\ q.top \cap q.bottom = {} /\ Cardinality(q.top) = Cardinality(q.bottom)
                      /\ \A t \in q.top, b \in q.bottom : scores[t] >= scores[b]
                      /\ \A b \in q.bottom, s \in rows : scores[s] < scores[b] => s.id \in worst
  BY <1>1 DEF QuartilesApart
<1>3. /\ q.bottom = {s \in rows : Cardinality(before[s]) < size}
      /\ q.top = {s \in rows : Cardinality(before[s]) >= n - size}
  BY <1>1 DEF Quartiles, QuartersOf, ScoredBefore
<1>4. Orders(before, rows)
  BY <1>1, ScoresOrder
<1>5. size \in Nat /\ size <= n /\ size <= n - size
  <2>1. n \div 4 \in Nat /\ 4 * (n \div 4) <= n /\ n \div 4 >= 1
    BY <1>1, <1>2
  <2> DEFINE p == n \div 4
  <2>2. p \in Int
    BY <2>1
  <2>3. Max({1, p}) \in {1, p} /\ 1 <= Max({1, p}) /\ p <= Max({1, p})
    <3> HIDE DEF p
    <3>1. {1, p} \in SUBSET Int /\ {1, p} # {} /\ IsFiniteSet({1, p}) /\ 1 \in {1, p} /\ p \in {1, p}
      <4>1. IsFiniteSet({1}) /\ IsFiniteSet({p}) /\ {1, p} = {1} \cup {p}
        BY FS_Singleton
      <4>2. IsFiniteSet({1} \cup {p})
        BY <4>1, FS_Union
      <4> QED BY <2>2, <4>1, <4>2
    <3> QED BY <3>1, MinAndMax
  <2> HIDE DEF p
  <2>4. size = p
    BY <2>1, <2>3 DEF p
  <2> QED BY <1>1, <2>1, <2>2, <2>4 DEF p
<1>6. /\ \A x \in rows : Cardinality(before[x]) \in 0 .. n - 1 /\ before[x] \in SUBSET rows
      /\ \A x, y \in rows : x \in before[y] <=> Cardinality(before[x]) < Cardinality(before[y])
  <2>1. \A x \in rows : before[x] \in SUBSET rows
    BY <1>4 DEF Orders
  <2> QED BY <1>1, <1>4, <2>1, RanksAreTaken
<1>7. \A x, y \in rows : x \in before[y] => scores[x] <= scores[y]
  BY <1>1 DEF ScoredBefore
<1>8. \A x, y \in rows : scores[x] < scores[y] => x \in before[y]
  BY <1>1 DEF ScoredBefore
<1>9. GetTopSessionsByScore(db, Cardinality(q.bottom), 30)
        = Items(db, {s \in rows : Cardinality({t \in rows : scores[t] < scores[s]
                                     \/ (scores[t] = scores[s] /\ t.id < s.id)}) < Cardinality(q.bottom)})
  BY <1>1 DEF GetTopSessionsByScore
<1>10. \A S : {i.id : i \in Items(db, S)} = {s.id : s \in S}
  <2>1. \A s : Item(db, s).id = s.id
    BY DEF Item
  <2> QED BY <2>1 DEF Items
<1> HIDE DEF scores, rows, q, n, size, before
<1>11. q.bottom \in SUBSET rows /\ Cardinality(q.bottom) = size
  <2>1. Cardinality({s \in rows : Cardinality(before[s]) < size}) = size
    <3>1. IsFiniteSet(rows) /\ size \in Nat /\ size <= Cardinality(rows)
      BY <1>1, <1>5 DEF n
    <3> QED BY <1>4, <3>1, FirstRanks
  <2> QED BY <1>3, <2>1
<1>12. Cardinality(q.top) = size
  <2> DEFINE rest == {s \in rows : Cardinality(before[s]) < n - size}
  <2>1. n - size \in Nat /\ n - size <= n
    BY <1>1, <1>5
  <2>2. Cardinality(rest) = n - size
    <3> DEFINE k == n - size
    <3>1. k \in Nat /\ k <= n
      BY <2>1
    <3> HIDE DEF k
    <3>2. Cardinality({s \in rows : Cardinality(before[s]) < k}) = k
      BY <1>1, <1>4, <3>1, FirstRanks DEF n
    <3> QED BY <3>2 DEF k
  <2>3. q.top = rows \ rest
    <3>1. \A s \in rows : Cardinality(before[s]) \in Int
      BY <1>1, <1>6
    <3> QED BY <1>1, <1>3, <1>5, <3>1
  <2>4. rest \in SUBSET rows
    OBVIOUS
  <2> HIDE DEF rest
  <2>5. Cardinality(rows) = Cardinality(rest) + Cardinality(rows \ rest) /\ Cardinality(rows \ rest) \in Nat
    <3>1. Cardinality(rows) = Cardinality(rest) + Cardinality(rows \ rest)
      BY <1>1, <2>4, CountApart
    <3>2. rows \ rest \in SUBSET rows
      OBVIOUS
    <3> QED BY <1>1, <3>1, <3>2, CountApart
  <2> QED BY <1>1, <1>5, <2>2, <2>3, <2>5 DEF n
<1>13. q.top \cap q.bottom = {}
  <2>1. \A s \in rows : ~(Cardinality(before[s]) < size /\ Cardinality(before[s]) >= n - size)
    BY <1>1, <1>5, <1>6
  <2> QED BY <1>3, <2>1
<1>14. ASSUME NEW t \in q.top, NEW b \in q.bottom PROVE scores[t] >= scores[b]
  <2>1. t \in rows /\ b \in rows /\ Cardinality(before[b]) < Cardinality(before[t])
    <3>1. t \in rows /\ b \in rows /\ Cardinality(before[b]) < size /\ Cardinality(before[t]) >= n - size
      BY <1>3
    <3> QED BY <1>1, <1>5, <1>6, <3>1
  <2>2. scores[b] <= scores[t]
    BY <1>6, <1>7, <2>1
  <2> QED BY <1>1, <2>1, <2>2
<1>15. ASSUME NEW b \in q.bottom, NEW s \in rows, scores[s] < scores[b] PROVE s.id \in worst
  <2> DEFINE W == {t \in rows : scores[t] < scores[s] \/ (scores[t] = scores[s] /\ t.id < s.id)}
  <2>1. b \in rows /\ Cardinality(before[b]) < size
    BY <1>3
  <2>2. W \in SUBSET before[b]
    <3>1. \A t \in W : t \in rows /\ scores[t] <= scores[s]
      BY <1>1
    <3>2. \A t \in W : scores[t] < scores[b]
      BY <1>1, <1>15, <2>1, <3>1
    <3> HIDE DEF W
    <3> QED BY <1>8, <2>1, <3>1, <3>2
  <2> HIDE DEF W
  <2>3. Cardinality(W) < size
    <3>1. IsFiniteSet(before[b])
      BY <1>1, <1>6, <2>1, FS_Subset
    <3>2. Cardinality(W) <= Cardinality(before[b]) /\ Cardinality(W) \in Nat /\ Cardinality(before[b]) \in Nat
      BY <2>2, <3>1, CountApart
    <3> QED BY <1>5, <2>1, <3>2
  <2>4. s \in {r \in rows : Cardinality({t \in rows : scores[t] < scores[r]
                                     \/ (scores[t] = scores[r] /\ t.id < r.id)}) < Cardinality(q.bottom)}
    BY <1>11, <2>3 DEF W
  <2> DEFINE V == {r \in rows : Cardinality({t \in rows : scores[t] < scores[r]
                                     \/ (scores[t] = scores[r] /\ t.id < r.id)}) < Cardinality(q.bottom)}
  <2>5. GetTopSessionsByScore(db, Cardinality(q.bottom), 30) = Items(db, V) /\ s \in V
    BY <1>9, <2>4
  <2> HIDE DEF V
  <2>6. worst = {r.id : r \in V}
    BY <1>10, <2>5
  <2> QED BY <2>5, <2>6
<1> QED BY <1>11, <1>12, <1>13, <1>14, <1>15

-----------------------------------------------------------------------------
(* A line through points.                                                   *)

(* Sums of sums. *)
Added(all, D, f, g, h, k) ==
  /\ IsFiniteSet(D) /\ {f, g, h, k, all} \subseteq [D -> Int]
  /\ \A i \in D : all[i] = f[i] + g[i] + h[i] + k[i]

(* A sum of sums of four functions.                                          *)
LEMMA SigmaOfAdded ==
  ASSUME NEW D, NEW f, NEW g, NEW h, NEW k, NEW all, Added(all, D, f, g, h, k)
  PROVE  Sigma(all, D) = Sigma(f, D) + Sigma(g, D) + Sigma(h, D) + Sigma(k, D)
<1>0. /\ IsFiniteSet(D) /\ f \in [D -> Int] /\ g \in [D -> Int] /\ h \in [D -> Int]
      /\ k \in [D -> Int] /\ all \in [D -> Int] /\ \A i \in D : all[i] = f[i] + g[i] + h[i] + k[i]
  BY DEF Added
<1> DEFINE fg == [i \in D |-> f[i] + g[i]]  hk == [i \in D |-> h[i] + k[i]]
<1>1. D \in SUBSET D
  OBVIOUS
<1>2. fg \in [D -> Int] /\ hk \in [D -> Int]
  BY <1>0
<1>3. \A i \in D : fg[i] = f[i] + g[i] /\ hk[i] = h[i] + k[i]
  BY <1>0
<1> HIDE DEF fg, hk
<1>4. Sigma(fg, D) = Sigma(f, D) + Sigma(g, D)
  BY <1>0, <1>1, <1>2, <1>3, SigmaPlus
<1>5. Sigma(hk, D) = Sigma(h, D) + Sigma(k, D)
  BY <1>0, <1>1, <1>2, <1>3, SigmaPlus
<1>6. \A i \in D : all[i] = fg[i] + hk[i]
  BY <1>0, <1>2, <1>3
<1>7. Sigma(all, D) = Sigma(fg, D) + Sigma(hk, D)
  BY <1>0, <1>1, <1>2, <1>6, SigmaPlus
<1> QED
  <2>1. /\ Sigma(f, D) \in Int /\ Sigma(g, D) \in Int /\ Sigma(h, D) \in Int /\ Sigma(k, D) \in Int
    BY <1>0, <1>1, SigmaTakes
  <2> QED BY <1>4, <1>5, <1>7, <2>1

Combined(all, D, f, g, h, a, b, c, d) ==
  /\ IsFiniteSet(D) /\ {f, g, h, all} \subseteq [D -> Int] /\ {a, b, c, d} \subseteq Int
  /\ \A i \in D : all[i] = a * f[i] + b * g[i] + c * h[i] + d

(* A sum of a linear combination of three functions and a constant.          *)
LEMMA SigmaOfFour ==
  ASSUME NEW D, NEW f, NEW g, NEW h, NEW a, NEW b, NEW c, NEW d, NEW all,
         Combined(all, D, f, g, h, a, b, c, d)
  PROVE  Sigma(all, D) = a * Sigma(f, D) + b * Sigma(g, D) + c * Sigma(h, D) + d * Cardinality(D)
<1> DEFINE af == [i \in D |-> a * f[i]]  bg == [i \in D |-> b * g[i]]
           ch == [i \in D |-> c * h[i]]  dd == [i \in D |-> d]
<1>0. /\ IsFiniteSet(D) /\ f \in [D -> Int] /\ g \in [D -> Int] /\ h \in [D -> Int]
      /\ a \in Int /\ b \in Int /\ c \in Int /\ d \in Int
  BY DEF Combined
<1>1. D \in SUBSET D
  OBVIOUS
<1>2. af \in [D -> Int] /\ bg \in [D -> Int] /\ ch \in [D -> Int] /\ dd \in [D -> Int]
      /\ all \in [D -> Int]
  BY <1>0 DEF Combined
<1>3. Sigma(af, D) = a * Sigma(f, D)
  BY <1>0, <1>1, SigmaTimes
<1>4. Sigma(bg, D) = b * Sigma(g, D)
  BY <1>0, <1>1, SigmaTimes
<1>5. Sigma(ch, D) = c * Sigma(h, D)
  BY <1>0, <1>1, SigmaTimes
<1>6. Sigma(dd, D) = d * Cardinality(D)
  <2>1. \A i \in D : dd[i] = d
    OBVIOUS
  <2> HIDE DEF dd
  <2> QED BY <1>0, <1>1, <1>2, <2>1, SigmaOfEqual
<1>7. ASSUME NEW i \in D PROVE all[i] = af[i] + bg[i] + ch[i] + dd[i]
  BY DEF Combined
<1> HIDE DEF af, bg, ch, dd
<1>8. Sigma(all, D) = Sigma(af, D) + Sigma(bg, D) + Sigma(ch, D) + Sigma(dd, D)
  <2>1. \A i \in D : all[i] = af[i] + bg[i] + ch[i] + dd[i]
    BY <1>7
  <2>2. Added(all, D, af, bg, ch, dd)
    BY <1>0, <1>2, <2>1 DEF Added
  <2> QED BY <2>2, SigmaOfAdded
<1> QED BY <1>3, <1>4, <1>5, <1>6, <1>8

(* Points, and how far each is from the means, times their number. *)

(* The products of what two coordinates are off their means add up to n      *)
(* times the moment the regression computes.                                 *)
LEMMA CentredProducts ==
  ASSUME NEW D, IsFiniteSet(D), NEW f \in [D -> Int], NEW g \in [D -> Int],
         NEW fg, fg = [i \in D |-> f[i] * g[i]],
         NEW n, n = Cardinality(D), NEW sf, sf = Sigma(f, D), NEW sg, sg = Sigma(g, D),
         NEW off, off = [i \in D |-> (n * f[i] - sf) * (n * g[i] - sg)]
  PROVE  /\ n \in Nat /\ sf \in Int /\ sg \in Int /\ Sigma(fg, D) \in Int
         /\ off \in [D -> Int] /\ Sigma(off, D) = n * (n * Sigma(fg, D) - sf * sg)
<1>1. n \in Nat /\ D \in SUBSET D
  BY FS_CardinalityType
<1>2. fg \in [D -> Int]
  OBVIOUS
<1>3. sf \in Int /\ sg \in Int /\ Sigma(fg, D) \in Int
  BY <1>1, <1>2, SigmaTakes
<1>4. off \in [D -> Int]
  BY <1>1, <1>3
<1> DEFINE a == n * n  b == -(n * sg)  c == -(n * sf)  d == sf * sg
<1>5. a \in Int /\ b \in Int /\ c \in Int /\ d \in Int
  BY <1>1, <1>3
<1>6. ASSUME NEW i \in D PROVE off[i] = a * fg[i] + b * f[i] + c * g[i] + d
  <2> DEFINE x == f[i]  y == g[i]
  <2>1. x \in Int /\ y \in Int /\ fg[i] = x * y /\ off[i] = (n * x - sf) * (n * y - sg)
    OBVIOUS
  <2> HIDE DEF x, y
  <2>2. (n * x - sf) * (n * y - sg) = (n * n) * (x * y) + (-(n * sg)) * x + (-(n * sf)) * y + sf * sg
    BY <1>1, <1>3, <2>1
  <2> QED BY <2>1, <2>2 DEF x, y
<1> HIDE DEF a, b, c, d
<1>11. Combined(off, D, fg, f, g, a, b, c, d)
  BY <1>2, <1>4, <1>5, <1>6 DEF Combined
<1>7. Sigma(off, D) = a * Sigma(fg, D) + b * Sigma(f, D) + c * Sigma(g, D) + d * Cardinality(D)
  BY <1>11, SigmaOfFour
<1> DEFINE q == Sigma(fg, D)
<1>8. Sigma(off, D) = (n * n) * q + (-(n * sg)) * sf + (-(n * sf)) * sg + (sf * sg) * n
  BY <1>7 DEF a, b, c, d
<1> HIDE DEF q
<1>9. q \in Int
  BY <1>3 DEF q
<1>10. (n * n) * q + (-(n * sg)) * sf + (-(n * sf)) * sg + (sf * sg) * n = n * (n * q - sf * sg)
  BY <1>1, <1>3, <1>9
<1> QED BY <1>1, <1>3, <1>4, <1>8, <1>10 DEF q

(* The sums of a fit: n times a variance, a covariance and a variance. *)
Moment(D, f, g) == Cardinality(D) * Sigma([i \in D |-> f[i] * g[i]], D) - Sigma(f, D) * Sigma(g, D)
OffMean(D, f, i) == Cardinality(D) * f[i] - Sigma(f, D)

(* The same, by the names of the moments.                                    *)
LEMMA MomentsOfPoints ==
  ASSUME NEW D, IsFiniteSet(D), NEW f \in [D -> Int], NEW g \in [D -> Int],
         NEW off, off = [i \in D |-> OffMean(D, f, i) * OffMean(D, g, i)]
  PROVE  /\ Moment(D, f, g) \in Int /\ off \in [D -> Int]
         /\ \A i \in D : OffMean(D, f, i) \in Int /\ OffMean(D, g, i) \in Int
         /\ Sigma(off, D) = Cardinality(D) * Moment(D, f, g)
<1> DEFINE n == Cardinality(D)  sf == Sigma(f, D)  sg == Sigma(g, D)
           fg == [i \in D |-> f[i] * g[i]]
<1>1. off = [i \in D |-> (n * f[i] - sf) * (n * g[i] - sg)]
  BY DEF OffMean
<1>2. Moment(D, f, g) = n * Sigma(fg, D) - sf * sg
  BY DEF Moment
<1>3. \A i \in D : OffMean(D, f, i) = n * f[i] - sf /\ OffMean(D, g, i) = n * g[i] - sg
  BY DEF OffMean
<1>4. fg = [i \in D |-> f[i] * g[i]]
  OBVIOUS
<1> HIDE DEF n, sf, sg, fg
<1>5. /\ n \in Nat /\ sf \in Int /\ sg \in Int /\ Sigma(fg, D) \in Int
      /\ off \in [D -> Int] /\ Sigma(off, D) = n * (n * Sigma(fg, D) - sf * sg)
  BY <1>1, <1>4, CentredProducts DEF n, sf, sg
<1>6. Moment(D, f, g) \in Int
  BY <1>2, <1>5
<1>7. \A i \in D : OffMean(D, f, i) \in Int /\ OffMean(D, g, i) \in Int
  BY <1>3, <1>5
<1>8. Sigma(off, D) = n * Moment(D, f, g)
  BY <1>2, <1>5
<1> QED BY <1>5, <1>6, <1>7, <1>8 DEF n

(* The algebra of the residues.                                              *)
LEMMA Quintics ==
  ASSUME NEW n \in Int, NEW p \in Int, NEW q \in Int, NEW r \in Int
  PROVE  (p * p) * (n * r) + (-(2 * (p * q))) * (n * q) + (q * q) * (n * p) + 0 * n
           = n * p * (p * r - q * q)
<1>1. (p * p) * (n * r) = n * p * (p * r)
  OBVIOUS
<1>2. (p * q) * (n * q) = n * p * (q * q)
  OBVIOUS
<1>3. (q * q) * (n * p) = n * p * (q * q)
  OBVIOUS
<1> DEFINE a == n * p * (p * r)  b == n * p * (q * q)
<1>4. a \in Int /\ b \in Int
  OBVIOUS
<1>5. (-(2 * (p * q))) * (n * q) = -(2 * b)
  <2>1. (-(2 * (p * q))) * (n * q) = -(2 * ((p * q) * (n * q)))
    OBVIOUS
  <2> QED BY <2>1, <1>2
<1>6. n * p * (p * r - q * q) = a - b
  OBVIOUS
<1> HIDE DEF a, b
<1>7. a + -(2 * b) + b + 0 * n = a - b
  BY <1>4
<1> QED BY <1>1, <1>3, <1>5, <1>6, <1>7 DEF a, b

(* What a fit leaves: the squares of it add up to what the moments say. *)
LEMMA SquaresLeft ==
  ASSUME NEW D, IsFiniteSet(D), NEW f \in [D -> Int], NEW g \in [D -> Int],
         NEW n, n = Cardinality(D), NEW sxx, sxx = Moment(D, f, f),
         NEW sxy, sxy = Moment(D, f, g), NEW syy, syy = Moment(D, g, g),
         NEW left, left = [i \in D |-> sxx * OffMean(D, g, i) - sxy * OffMean(D, f, i)],
         NEW squares, squares = [i \in D |-> left[i] * left[i]]
  PROVE  /\ squares \in [D -> Int] /\ left \in [D -> Int]
         /\ Sigma(squares, D) = n * sxx * (sxx * syy - sxy * sxy)
<1> DEFINE uu == [i \in D |-> OffMean(D, f, i) * OffMean(D, f, i)]
           uv == [i \in D |-> OffMean(D, f, i) * OffMean(D, g, i)]
           vv == [i \in D |-> OffMean(D, g, i) * OffMean(D, g, i)]
<1>1. /\ sxx \in Int /\ uu \in [D -> Int] /\ Sigma(uu, D) = n * sxx
      /\ \A i \in D : OffMean(D, f, i) \in Int
  BY MomentsOfPoints
<1>2. sxy \in Int /\ uv \in [D -> Int] /\ Sigma(uv, D) = n * sxy
  BY MomentsOfPoints
<1>3. /\ syy \in Int /\ vv \in [D -> Int] /\ Sigma(vv, D) = n * syy
      /\ \A i \in D : OffMean(D, g, i) \in Int
  BY MomentsOfPoints
<1>4. left \in [D -> Int]
  BY <1>1, <1>2, <1>3
<1>5. squares \in [D -> Int]
  BY <1>4
<1> DEFINE a == sxx * sxx  b == -(2 * (sxx * sxy))  c == sxy * sxy
<1>6. a \in Int /\ b \in Int /\ c \in Int /\ 0 \in Int
  BY <1>1, <1>2
<1>7. ASSUME NEW i \in D PROVE squares[i] = a * vv[i] + b * uv[i] + c * uu[i] + 0
  <2> DEFINE u == OffMean(D, f, i)  v == OffMean(D, g, i)
  <2>1. u \in Int /\ v \in Int
    BY <1>1, <1>3
  <2>2. /\ left[i] = sxx * v - sxy * u /\ squares[i] = left[i] * left[i]
        /\ vv[i] = v * v /\ uv[i] = u * v /\ uu[i] = u * u
    OBVIOUS
  <2> HIDE DEF u, v, uu, uv, vv, a, b, c
  <2>3. (sxx * v - sxy * u) * (sxx * v - sxy * u)
          = (sxx * sxx) * (v * v) + (-(2 * (sxx * sxy))) * (u * v) + (sxy * sxy) * (u * u) + 0
    BY <1>1, <1>2, <2>1
  <2> QED BY <2>2, <2>3 DEF a, b, c
<1> HIDE DEF a, b, c, uu, uv, vv
<1>8. Combined(squares, D, vv, uv, uu, a, b, c, 0)
  BY <1>1, <1>2, <1>3, <1>5, <1>6, <1>7 DEF Combined
<1>9. n \in Nat
  BY FS_CardinalityType
<1>10. Sigma(squares, D) = a * (n * syy) + b * (n * sxy) + c * (n * sxx) + 0 * n
  <2>1. Sigma(squares, D) = a * Sigma(vv, D) + b * Sigma(uv, D) + c * Sigma(uu, D) + 0 * Cardinality(D)
    BY <1>8, SigmaOfFour
  <2> QED BY <1>1, <1>2, <1>3, <2>1
<1>11. (sxx * sxx) * (n * syy) + (-(2 * (sxx * sxy))) * (n * sxy) + (sxy * sxy) * (n * sxx) + 0 * n
         = n * sxx * (sxx * syy - sxy * sxy)
  <2>1. n \in Int /\ sxx \in Int /\ sxy \in Int /\ syy \in Int
    BY <1>1, <1>2, <1>3, <1>9
  <2> QED BY <2>1, Quintics
<1> QED BY <1>4, <1>5, <1>10, <1>11 DEF a, b, c

(* What Z3 is to know of the numbers of a fit. *)
LEMMA FitOfMoments ==
  ASSUME NEW n \in Nat, n > 0, NEW p \in Int, p # 0, NEW q \in Int, NEW r \in Int,
         NEW uu \in Int, uu >= 0, uu = n * p, NEW left \in Int, left >= 0, left = n * p * (p * r - q * q)
  PROVE  p > 0 /\ q * q <= p * r /\ (q * q = p * r <=> left = 0)
<1>1. p > 0
  BY Products
<1> DEFINE k == n * p  d == p * r - q * q
<1>2. k \in Int /\ k > 0 /\ d \in Int /\ left = k * d
  BY <1>1
<1>3. p * r \in Int /\ q * q \in Int /\ d = p * r - q * q
  OBVIOUS
<1> HIDE DEF k, d
<1>4. d >= 0
  BY <1>2, Products
<1>5. left = 0 <=> d = 0
  <2>1. d = 0 => left = 0
    BY <1>2
  <2>2. d > 0 => k * d > 0
    BY <1>2
  <2> QED BY <1>2, <1>4, <2>1, <2>2
<1>6. q * q <= p * r /\ (q * q = p * r <=> d = 0)
  BY <1>3, <1>4
<1> QED BY <1>1, <1>5, <1>6

(* A point is on the line that was fitted if its residue is nought.          *)
LEMMA OnTheLine ==
  ASSUME NEW n \in Nat, n > 0, NEW p \in Int, p > 0, NEW q \in Int, NEW sx \in Int, NEW sy \in Int,
         NEW x \in Int, NEW y \in Int
  PROVE  y * p * (n * p) = q * x * (n * p) + (sy * p - q * sx) * p
           <=> p * (n * y - sy) - q * (n * x - sx) = 0
<1> DEFINE l == y * p * (n * p)  r == q * x * (n * p) + (sy * p - q * sx) * p
           e == p * (n * y - sy) - q * (n * x - sx)
<1>1. l \in Int /\ r \in Int /\ e \in Int
  OBVIOUS
<1>2. l - r = p * e
  <2>1. y * p * (n * p) = p * (p * (n * y))
    OBVIOUS
  <2>2. q * x * (n * p) = p * (q * (n * x))
    OBVIOUS
  <2>3. (sy * p - q * sx) * p = p * (p * sy) - p * (q * sx)
    OBVIOUS
  <2>4. p * (n * y - sy) = p * (n * y) - p * sy
    OBVIOUS
  <2>5. q * (n * x - sx) = q * (n * x) - q * sx
    OBVIOUS
  <2> DEFINE A == p * (n * y)  B == p * sy  C == q * (n * x)  E == q * sx
  <2>6. A \in Int /\ B \in Int /\ C \in Int /\ E \in Int
    OBVIOUS
  <2>7. e = (A - B) - (C - E)
    BY <2>4, <2>5
  <2>8. l - r = p * A - (p * C + (p * B - p * E))
    BY <2>1, <2>2, <2>3
  <2> HIDE DEF A, B, C, E, l, r, e
  <2>9. p * A - (p * C + (p * B - p * E)) = p * ((A - B) - (C - E))
    BY <2>6
  <2> QED BY <2>7, <2>8, <2>9
<1> HIDE DEF l, r, e
<1>3. l = r <=> p * e = 0
  BY <1>1, <1>2
<1>4. p * e = 0 <=> e = 0
  BY <1>1
<1> QED BY <1>3, <1>4 DEF l, r, e

(* A fit explains between nothing and all of what varies, and passes through  *)
(* points that are on one line (regression.ts: linearRegression).            *)
THEOREM FitIsAlwaysSound == ASSUME NEW points, PointsFit(points) PROVE FitIsSound(points)
<1> DEFINE D == DOMAIN points
           X == [i \in D |-> points[i].x]  Y == [i \in D |-> points[i].y]
           n == Cardinality(D)  sx == Sigma(X, D)  sy == Sigma(Y, D)
           sxx == Moment(D, X, X)  sxy == Moment(D, X, Y)  syy == Moment(D, Y, Y)
           fit == LinearRegression(points)
           left == [i \in D |-> sxx * OffMean(D, Y, i) - sxy * OffMean(D, X, i)]
           squares == [i \in D |-> left[i] * left[i]]
           uu == [i \in D |-> OffMean(D, X, i) * OffMean(D, X, i)]
<1>1. IsFiniteSet(D) /\ X \in [D -> Int] /\ Y \in [D -> Int] /\ D \in SUBSET D
  BY DEF PointsFit
<1>2. fit = IF n < 3 \/ sxx = 0 THEN None
            ELSE [slope |-> [num |-> sxy, den |-> sxx],
                  intercept |-> [num |-> sy * sxx - sxy * sx, den |-> n * sxx],
                  r2 |-> IF syy = 0 THEN [num |-> 1, den |-> 1]
                         ELSE [num |-> sxy * sxy, den |-> sxx * syy]]
  <2>1. SumOver([i \in D |-> points[i].x]) = sx /\ SumOver([i \in D |-> points[i].y]) = sy
    <3>1. SumOver(X) = sx /\ SumOver(Y) = sy
      <4>1. X = [i \in D |-> X[i]] /\ Y = [i \in D |-> Y[i]]
        OBVIOUS
      <4> HIDE DEF X, Y, D
      <4> QED BY <4>1, SumOverIsSigma
    <3> QED BY <3>1
  <2>2. /\ SumOver([i \in D |-> points[i].x * points[i].x]) = Sigma([i \in D |-> X[i] * X[i]], D)
        /\ SumOver([i \in D |-> points[i].x * points[i].y]) = Sigma([i \in D |-> X[i] * Y[i]], D)
        /\ SumOver([i \in D |-> points[i].y * points[i].y]) = Sigma([i \in D |-> Y[i] * Y[i]], D)
    <3> DEFINE xx == [i \in D |-> X[i] * X[i]]  xy == [i \in D |-> X[i] * Y[i]]  yy == [i \in D |-> Y[i] * Y[i]]
    <3>1. xx = [i \in D |-> xx[i]] /\ xy = [i \in D |-> xy[i]] /\ yy = [i \in D |-> yy[i]]
      OBVIOUS
    <3>2. /\ xx = [i \in D |-> points[i].x * points[i].x] /\ xy = [i \in D |-> points[i].x * points[i].y]
          /\ yy = [i \in D |-> points[i].y * points[i].y]
      OBVIOUS
    <3>3. SumOver(xx) = Sigma(xx, D) /\ SumOver(xy) = Sigma(xy, D) /\ SumOver(yy) = Sigma(yy, D)
      <4> HIDE DEF xx, xy, yy, D
      <4> QED BY <3>1, SumOverIsSigma
    <3> QED BY <3>2, <3>3
  <2> QED BY <2>1, <2>2 DEF LinearRegression, Total, Moment
<1>3. SUFFICES ASSUME fit # None
               PROVE  /\ fit.r2.num \in 0 .. fit.r2.den
                      /\ (fit.r2.num = fit.r2.den) =
                           \A i \in D : points[i].y * fit.slope.den * fit.intercept.den =
                             fit.slope.num * points[i].x * fit.intercept.den + fit.intercept.num * fit.slope.den
  BY DEF FitIsSound
<1>4. /\ squares \in [D -> Int] /\ left \in [D -> Int]
      /\ Sigma(squares, D) = n * sxx * (sxx * syy - sxy * sxy)
  <2> HIDE DEF D, X, Y, uu, fit, sx, sy
  <2>1. /\ n = Cardinality(D) /\ sxx = Moment(D, X, X) /\ sxy = Moment(D, X, Y) /\ syy = Moment(D, Y, Y)
        /\ left = [i \in D |-> sxx * OffMean(D, Y, i) - sxy * OffMean(D, X, i)]
        /\ squares = [i \in D |-> left[i] * left[i]]
    OBVIOUS
  <2> HIDE DEF n, sxx, sxy, syy, left, squares
  <2> QED BY <1>1, <2>1, SquaresLeft
<1>5. /\ sxx \in Int /\ uu \in [D -> Int] /\ Sigma(uu, D) = n * sxx
      /\ \A i \in D : OffMean(D, X, i) \in Int
  <2> HIDE DEF D, X, Y
  <2> QED BY <1>1, MomentsOfPoints
<1>6. sxy \in Int /\ syy \in Int
  <2> HIDE DEF D, X, Y
  <2> QED BY <1>1, MomentsOfPoints
<1>7. \A i \in D : squares[i] >= 0 /\ uu[i] >= 0
  BY <1>4, <1>5, Products
<1>8. n \in Nat /\ sx \in Int /\ sy \in Int
  BY <1>1, FS_CardinalityType, SigmaTakes
<1>9. \A i \in D : X[i] = points[i].x /\ Y[i] = points[i].y /\ squares[i] = left[i] * left[i]
                   /\ left[i] = sxx * (n * Y[i] - sy) - sxy * (n * X[i] - sx)
  BY DEF OffMean
<1> HIDE DEF D, X, Y, n, sx, sy, sxx, sxy, syy, fit, left, squares, uu
<1>10. n > 0 /\ sxx # 0
  BY <1>2, <1>3, <1>8
<1>11. Sigma(uu, D) >= 0 /\ Sigma(uu, D) \in Int
  BY <1>1, <1>5, <1>7, SigmaGrows, SigmaTakes
<1>12. Sigma(squares, D) >= 0 /\ Sigma(squares, D) \in Int
  BY <1>1, <1>4, <1>7, SigmaGrows, SigmaTakes
<1>13. sxx > 0 /\ sxy * sxy <= sxx * syy /\ (sxy * sxy = sxx * syy <=> Sigma(squares, D) = 0)
  BY <1>4, <1>5, <1>6, <1>8, <1>10, <1>11, <1>12, FitOfMoments
<1>14. Sigma(squares, D) = 0 <=> \A i \in D : left[i] = 0
  <2>1. Sigma(squares, D) = 0 <=> \A i \in D : squares[i] = 0
    BY <1>1, <1>4, <1>7, SigmaIsNought
  <2>2. \A i \in D : squares[i] = 0 <=> left[i] = 0
    <3>1. ASSUME NEW i \in D PROVE squares[i] = 0 <=> left[i] = 0
      <4> DEFINE l == left[i]
      <4>1. l \in Int /\ squares[i] = l * l
        BY <1>4, <1>9
      <4> HIDE DEF l
      <4>2. l * l = 0 <=> l = 0
        BY <4>1
      <4> QED BY <4>1, <4>2 DEF l
    <3> QED BY <3>1
  <2> QED BY <2>1, <2>2
<1>15. ASSUME NEW i \in D
       PROVE  points[i].y * sxx * (n * sxx) = sxy * points[i].x * (n * sxx) + (sy * sxx - sxy * sx) * sxx
                <=> left[i] = 0
  <2> DEFINE x == points[i].x  y == points[i].y
  <2>1. x \in Int /\ y \in Int
    BY DEF PointsFit, D
  <2>2. left[i] = sxx * (n * y - sy) - sxy * (n * x - sx)
    BY <1>9
  <2> HIDE DEF x, y
  <2>3. y * sxx * (n * sxx) = sxy * x * (n * sxx) + (sy * sxx - sxy * sx) * sxx
          <=> sxx * (n * y - sy) - sxy * (n * x - sx) = 0
    BY <1>6, <1>8, <1>5, <1>10, <1>13, <2>1, OnTheLine
  <2> QED BY <2>2, <2>3 DEF x, y
<1>16. /\ fit.slope.num = sxy /\ fit.slope.den = sxx
       /\ fit.intercept.num = sy * sxx - sxy * sx /\ fit.intercept.den = n * sxx
       /\ syy = 0 => fit.r2.num = 1 /\ fit.r2.den = 1
       /\ syy # 0 => fit.r2.num = sxy * sxy /\ fit.r2.den = sxx * syy
  BY <1>2, <1>3
<1>17. /\ fit.r2.num \in 0 .. fit.r2.den
       /\ fit.r2.num = fit.r2.den <=> sxy * sxy = sxx * syy
  <2>1. sxy * sxy >= 0 /\ sxy * sxy \in Int /\ sxx * syy \in Int
    BY <1>5, <1>6, Products
  <2>2. CASE syy = 0
    <3>1. sxx * syy = 0
      BY <1>5, <2>2
    <3>2. sxy * sxy = sxx * syy
      BY <1>13, <2>1, <3>1
    <3> QED BY <1>16, <2>2, <3>2
  <2>3. CASE syy # 0
    BY <1>13, <1>16, <2>1, <2>3
  <2> QED BY <2>2, <2>3
<1> QED
  <2>1. \A i \in D : points[i].y * fit.slope.den * fit.intercept.den =
                      fit.slope.num * points[i].x * fit.intercept.den + fit.intercept.num * fit.slope.den
                    <=> left[i] = 0
    BY <1>15, <1>16
  <2> QED BY <1>13, <1>14, <1>17, <2>1

-----------------------------------------------------------------------------
(* The heatmap of days.                                                     *)


FirstOf(start) == start - (start % 7)
WeekOn(first, d) == ((d - first) \div 7) + 1
WeeksOf(start, end) == WeekOn(FirstOf(start), end - (end % 7))
DaysOfWeek(start, end, w) == (FirstOf(start) + 7 * (w - 1) .. FirstOf(start) + 7 * (w - 1) + 6) \cap (start .. end)

(* The weeks of a heatmap begin on the day 0 of seven, and every day is in   *)
(* one of them.                                                              *)
LEMMA WeekNumbers ==
  ASSUME NEW start \in Nat, NEW end \in Nat, start <= end
  PROVE  /\ FirstOf(start) \in Nat /\ FirstOf(start) % 7 = 0
         /\ FirstOf(start) <= start /\ start < FirstOf(start) + 7
         /\ WeeksOf(start, end) \in Nat /\ WeeksOf(start, end) >= 1
         /\ \A d \in start .. end :
              /\ WeekOn(FirstOf(start), d) \in 1 .. WeeksOf(start, end)
              /\ \A w \in 1 .. WeeksOf(start, end) :
                   d \in DaysOfWeek(start, end, w) <=> w = WeekOn(FirstOf(start), d)
<1> DEFINE first == FirstOf(start)  L == end - (end % 7)
<1>1. first \in Nat /\ first % 7 = 0 /\ first <= start /\ start < first + 7
  BY DEF FirstOf
<1>2. L \in Nat /\ L % 7 = 0 /\ L <= end /\ end < L + 7
  OBVIOUS
<1> HIDE DEF first, L
<1>3. first <= L
  BY <1>1, <1>2
<1>4. WeekOn(first, L) \in Nat /\ WeekOn(first, L) >= 1 /\ L = first + 7 * (WeekOn(first, L) - 1)
  BY <1>1, <1>2, <1>3 DEF WeekOn
<1> DEFINE W == WeekOn(first, L)
<1>5. ASSUME NEW d \in start .. end
      PROVE  WeekOn(first, d) \in 1 .. W
  <2> HIDE DEF W
  <2>1. W \in Nat /\ L = first + 7 * (W - 1)
    BY <1>4 DEF W
  <2> QED BY <1>1, <1>2, <1>3, <2>1 DEF WeekOn
<1>6. ASSUME NEW d \in start .. end, NEW w \in 1 .. W
      PROVE  d \in (first + 7 * (w - 1)) .. (first + 7 * (w - 1) + 6) <=> w = WeekOn(first, d)
  <2>1. w \in Int /\ d \in Int
    BY <1>4
  <2> QED BY <1>1, <2>1 DEF WeekOn
<1>7. W = WeeksOf(start, end)
  BY DEF WeeksOf, first, L
<1> HIDE DEF W
<1> QED BY <1>1, <1>4, <1>5, <1>6, <1>7 DEF DaysOfWeek, first, W

(* The weeks hold their days, and none twice. *)
LEMMA WeeksHoldDays ==
  ASSUME NoneIsNoAnswer, NEW start \in Nat, NEW end \in Nat, start <= end,
         NEW points, DOMAIN points = start .. end
  PROVE  LET weeks == ArrangeWeeks(points)
             W == WeeksOf(start, end)
         IN /\ weeks \in Seq({weeks[w] : w \in 1 .. W}) /\ Len(weeks) = W /\ DOMAIN weeks = 1 .. W
            /\ \A w \in 1 .. W : Cells(weeks[w]) = DaysOfWeek(start, end, w)
            /\ \A w \in 1 .. W, row \in 1 .. 7 : weeks[w][row] # None => weeks[w][row] % 7 = row - 1
<1> DEFINE first == FirstOf(start)  W == WeeksOf(start, end)
           At(w, row) == first + 7 * (w - 1) + row - 1
           weeks == ArrangeWeeks(points)
<1>1. Min(start .. end) = start /\ Max(start .. end) = end /\ start .. end # {}
  <2>1. start .. end # {} /\ start .. end \in SUBSET Int /\ IsFiniteSet(start .. end)
    <3>1. start \in start .. end /\ start .. end \in SUBSET Int /\ start \in Int /\ end \in Int
      OBVIOUS
    <3>2. IsFiniteSet(start .. end)
      BY <3>1, FS_Interval
    <3> QED BY <3>1, <3>2
  <2>2. Min(start .. end) \in start .. end /\ Max(start .. end) \in start .. end
        /\ \A y \in start .. end : Min(start .. end) <= y /\ y <= Max(start .. end)
    BY <2>1, MinAndMax
  <2> QED BY <2>1, <2>2
<1>2. weeks = [w \in 1 .. W |-> [row \in 1 .. 7 |-> IF At(w, row) \in start .. end THEN At(w, row) ELSE None]]
  BY <1>1 DEF ArrangeWeeks, FirstOf, WeeksOf, WeekOn
<1>3. /\ W \in Nat /\ W >= 1 /\ first \in Nat /\ first % 7 = 0
  BY WeekNumbers
<1> HIDE DEF first, W, weeks
<1>4. DOMAIN weeks = 1 .. W /\ weeks \in Seq({weeks[w] : w \in 1 .. W}) /\ Len(weeks) = W
  <2>1. weeks = [w \in 1 .. W |-> weeks[w]] /\ DOMAIN weeks = 1 .. W
    BY <1>2
  <2> DEFINE S == {weeks[w] : w \in 1 .. W}
  <2>2. \A w \in 1 .. W : weeks[w] \in S
    OBVIOUS
  <2> HIDE DEF S
  <2>3. weeks \in [1 .. W -> S]
    BY <2>1, <2>2
  <2>4. weeks \in Seq(S) /\ Len(weeks) = W
    BY <1>3, <2>3
  <2> QED BY <2>1, <2>4 DEF S
<1>5. ASSUME NEW w \in 1 .. W
      PROVE  /\ Cells(weeks[w]) = DaysOfWeek(start, end, w)
             /\ \A row \in 1 .. 7 : weeks[w][row] # None => weeks[w][row] % 7 = row - 1
  <2> DEFINE base == first + 7 * (w - 1)
  <2>1. base \in Int /\ base % 7 = 0
    BY <1>3
  <2>2. \A row \in 1 .. 7 : weeks[w][row] = IF base + row - 1 \in start .. end THEN base + row - 1 ELSE None
    BY <1>2
  <2>3. DaysOfWeek(start, end, w) = (base .. base + 6) \cap (start .. end)
    BY DEF DaysOfWeek, first
  <2> HIDE DEF base
  <2>4. ASSUME NEW row \in 1 .. 7, weeks[w][row] # None
        PROVE  weeks[w][row] = base + row - 1 /\ base + row - 1 \in start .. end
    BY <2>2, <2>4
  <2>5. ASSUME NEW row \in 1 .. 7, weeks[w][row] # None PROVE weeks[w][row] % 7 = row - 1
    <3>1. weeks[w][row] = base + row - 1
      BY <2>4, <2>5
    <3>2. (base + row - 1) % 7 = row - 1
      BY <2>1
    <3> QED BY <3>1, <3>2
  <2>6. ASSUME NEW d \in Cells(weeks[w]) PROVE d \in DaysOfWeek(start, end, w)
    <3>1. PICK row \in 1 .. 7 : d = weeks[w][row] /\ weeks[w][row] # None
      BY DEF Cells
    <3>2. d = base + row - 1 /\ base + row - 1 \in start .. end
      BY <2>4, <3>1
    <3>3. base + row - 1 \in base .. base + 6
      BY <2>1
    <3> QED BY <2>3, <3>2, <3>3
  <2>7. ASSUME NEW d \in DaysOfWeek(start, end, w) PROVE d \in Cells(weeks[w])
    <3>1. d \in base .. base + 6 /\ d \in start .. end /\ d \in Int
      BY <2>1, <2>3
    <3>2. d - base + 1 \in 1 .. 7 /\ base + (d - base + 1) - 1 = d
      BY <2>1, <3>1
    <3>3. d # None
      BY <3>1 DEF NoneIsNoAnswer
    <3>4. weeks[w][d - base + 1] = d
      BY <2>2, <3>1, <3>2
    <3> QED BY <3>2, <3>3, <3>4 DEF Cells
  <2> QED BY <2>5, <2>6, <2>7
<1> QED BY <1>4, <1>5 DEF W, weeks

(* The weeks that are shown: all, or all but a first one of one day at most. *)
LEMMA WeeksShown ==
  ASSUME NoneIsNoAnswer, NEW start \in Nat, NEW end \in Nat, start <= end,
         NEW points, DOMAIN points = start .. end, ~\A d \in DOMAIN points : points[d] = 0
  PROVE  \E off \in {0, 1} :
           LET weeks == ActivityHeatmap(points)
               W == WeeksOf(start, end)
           IN /\ off < W /\ W \in Nat /\ DOMAIN weeks = 1 .. (W - off)
              /\ \A w \in 1 .. (W - off) : weeks[w] = ArrangeWeeks(points)[w + off]
              /\ off = 1 => Cardinality(DaysOfWeek(start, end, 1)) <= 1
<1> DEFINE weeks == ActivityHeatmap(points)  W == WeeksOf(start, end)  all == ArrangeWeeks(points)
           trim == Cardinality(Cells(all[1])) <= 1 /\ Len(all) > 1
           off == IF trim THEN 1 ELSE 0
<1>1. weeks = SubSeq(all, IF trim THEN 2 ELSE 1, Len(all))
  BY DEF ActivityHeatmap
<1>2. Len(all) = W /\ DOMAIN all = 1 .. W /\ all \in Seq({all[w] : w \in 1 .. W})
  BY WeeksHoldDays
<1>3. W \in Nat /\ W >= 1
  BY WeekNumbers
<1>4. Cells(all[1]) = DaysOfWeek(start, end, 1)
  <2>1. 1 \in 1 .. W
    <3> HIDE DEF W
    <3> QED BY <1>3
  <2> QED BY <2>1, WeeksHoldDays
<1> HIDE DEF weeks, W, all
<1>5. weeks = SubSeq(all, off + 1, W)
  BY <1>1, <1>2
<1>6. off \in {0, 1} /\ off < W /\ (off = 1 => Cardinality(DaysOfWeek(start, end, 1)) <= 1)
  BY <1>2, <1>3, <1>4
<1> HIDE DEF off, trim
<1>7. DOMAIN weeks = 1 .. (W - off) /\ \A w \in 1 .. (W - off) : weeks[w] = all[w + off]
  <2> DEFINE S == {all[w] : w \in 1 .. W}
  <2>1. \A i \in (off + 1) .. W : all[i] \in S
    BY <1>6
  <2> HIDE DEF S
  <2>2. off + 1 \in Int /\ W \in Int /\ off + 1 <= W
    BY <1>3, <1>6
  <2>3. /\ weeks \in Seq(S) /\ Len(weeks) = W - (off + 1) + 1
        /\ \A i \in 1 .. W - (off + 1) + 1 : weeks[i] = all[(off + 1) + i - 1]
    BY <1>5, <2>1, <2>2, SubSeqProperties
  <2>4. W - (off + 1) + 1 = W - off /\ W - off \in Nat
    BY <1>3, <1>6
  <2>5. DOMAIN weeks = 1 .. (W - off)
    BY <2>3, <2>4
  <2>6. ASSUME NEW w \in 1 .. (W - off) PROVE weeks[w] = all[w + off]
    <3>1. (off + 1) + w - 1 = w + off
      BY <1>6
    <3> QED BY <2>3, <2>4, <3>1
  <2> QED BY <2>5, <2>6
<1> QED BY <1>3, <1>6, <1>7 DEF weeks, W, all

(* The weeks from one on hold the days from one on, each once. *)
ShowsDays(start, end, off, cells, counts, shown) ==
  /\ cells = [w \in 1 .. (WeeksOf(start, end) - off) |-> DaysOfWeek(start, end, w + off)]
  /\ counts = [w \in DOMAIN cells |-> Cardinality(cells[w])]
  /\ shown = UNION {cells[w] : w \in DOMAIN cells}

(* The cells of the weeks that are shown hold their days once each.          *)
LEMMA DaysShown ==
  ASSUME NEW start \in Nat, NEW end \in Nat, start <= end, NEW off \in {0, 1}, off < WeeksOf(start, end),
         NEW cells, NEW counts, NEW shown, ShowsDays(start, end, off, cells, counts, shown)
  PROVE  /\ SumOver(counts) = Cardinality(shown) /\ shown \subseteq start .. end
         /\ off = 0 => (start .. end) \ shown = {}
         /\ off = 1 => (start .. end) \ shown = DaysOfWeek(start, end, 1)
<1> DEFINE W == WeeksOf(start, end)
           week == [d \in start .. end |-> WeekOn(FirstOf(start), d)]
           from == {d \in start .. end : week[d] > off}
           key == [d \in from |-> week[d] - off]
           K == 1 .. (W - off)
<1>1. /\ W \in Nat /\ W >= 1
      /\ \A d \in start .. end : /\ week[d] \in 1 .. W
                                 /\ \A w \in 1 .. W : d \in DaysOfWeek(start, end, w) <=> w = week[d]
  BY WeekNumbers
<1>2. \A w : DaysOfWeek(start, end, w) \subseteq start .. end
  BY DEF DaysOfWeek
<1>3. DOMAIN cells = K /\ \A w \in K : cells[w] = DaysOfWeek(start, end, w + off)
  BY DEF ShowsDays
<1>16. counts = [w \in K |-> Cardinality(cells[w])]
  BY <1>3 DEF ShowsDays
<1>17. \A d : d \in shown <=> \E w \in K : d \in cells[w]
  <2> HIDE DEF K
  <2> QED BY <1>3 DEF ShowsDays
<1> HIDE DEF W, week
<1>4. \A w \in K : w + off \in 1 .. W
  BY <1>1
<1>5. ASSUME NEW d \in from PROVE key[d] \in K /\ key[d] + off = week[d]
  <2>1. d \in start .. end /\ week[d] > off /\ key[d] = week[d] - off
    OBVIOUS
  <2>2. week[d] \in 1 .. W
    BY <1>1, <2>1
  <2> QED BY <1>1, <2>1, <2>2
<1>6. ASSUME NEW w \in K PROVE cells[w] = {d \in from : key[d] = w}
  <2>1. ASSUME NEW d \in cells[w] PROVE d \in from /\ key[d] = w
    <3>1. d \in start .. end /\ week[d] = w + off
      BY <1>1, <1>2, <1>3, <1>4, <2>1
    <3> QED BY <3>1
  <2>2. ASSUME NEW d \in from, key[d] = w PROVE d \in cells[w]
    BY <1>1, <1>3, <1>4, <1>5, <2>2
  <2> QED BY <2>1, <2>2
<1>7. shown = from
  <2> HIDE DEF K, from, key
  <2>1. \A d \in shown : d \in from
    BY <1>6, <1>17 DEF from
  <2>2. \A d \in from : d \in shown
    BY <1>5, <1>6, <1>17
  <2> QED BY <2>1, <2>2
<1>8. IsFiniteSet(from) /\ IsFiniteSet(K) /\ IsFiniteSet(start .. end)
  <2>1. start \in Int /\ end \in Int /\ 1 \in Int /\ W - off \in Int
    BY <1>1
  <2>2. IsFiniteSet(start .. end) /\ IsFiniteSet(K)
    BY <2>1, FS_Interval
  <2>3. from \in SUBSET (start .. end)
    OBVIOUS
  <2> HIDE DEF from, K
  <2> QED BY <2>2, <2>3, FS_Subset
<1>9. counts = [w \in K |-> Cardinality({d \in from : key[d] = w})]
  BY <1>6, <1>16
<1>10. key \in [from -> K]
  BY <1>5
<1>11. off = 0 => (start .. end) \ shown = {}
  BY <1>1, <1>7
<1>12. off = 1 => (start .. end) \ shown = DaysOfWeek(start, end, 1)
  <2>1. ASSUME NEW d \in start .. end, off = 1 PROVE d \in shown <=> d \notin DaysOfWeek(start, end, 1)
    BY <1>1, <1>7, <2>1
  <2> QED BY <1>2, <2>1
<1> HIDE DEF from, key, K
<1>13. Sigma(counts, K) = Cardinality(from)
  BY <1>8, <1>9, <1>10, CountByKey
<1>14. SumOver(counts) = Sigma(counts, K)
  <2>1. counts = [w \in K |-> counts[w]]
    BY <1>9
  <2> QED BY <2>1, SumOverIsSigma
<1>15. shown \subseteq start .. end
  BY <1>7 DEF from
<1> QED BY <1>7, <1>11, <1>12, <1>13, <1>14, <1>15

(* A day with any spend is of level 1 to 4, the most expensive of 4.         *)
LEMMA LevelOf ==
  ASSUME NEW m \in Nat \ {0}, NEW s \in Nat, s > 0
  PROVE  /\ Min({4, (4 * s + m - 1) \div m}) \in 1 .. 4
         /\ s = m => Min({4, (4 * s + m - 1) \div m}) = 4
<1> DEFINE a == 4 * s + m - 1  q == a \div m
<1>1. a \in Nat /\ a >= m
  OBVIOUS
<1>2. q \in Nat
  <2> HIDE DEF a
  <2> QED BY <1>1, Quotients
<1>3. q >= 1
  <2>1. m \in Int /\ a \in Int /\ m > 0 /\ m <= a
    BY <1>1
  <2> HIDE DEF a
  <2>2. m \div m <= a \div m
    BY <2>1, QuotientsGrow
  <2>3. m \div m = 1
    OBVIOUS
  <2> QED BY <1>2, <2>2, <2>3
<1>4. s = m => q >= 4
  <2> SUFFICES ASSUME s = m PROVE q >= 4
    OBVIOUS
  <2>1. 4 * m \in Int /\ a \in Int /\ m > 0 /\ 4 * m <= a
    BY <1>1
  <2> HIDE DEF a
  <2>2. (4 * m) \div m <= a \div m
    BY <2>1, QuotientsGrow
  <2>3. (4 * m) \div m = 4
    OBVIOUS
  <2> QED BY <1>2, <2>2, <2>3
<1> HIDE DEF a, q
<1>5. Min({4, q}) = IF 4 <= q THEN 4 ELSE q
  BY <1>2, LeastAmong
<1> QED BY <1>2, <1>3, <1>4, <1>5 DEF q, a

(* Consecutive days are those from one to another. *)
LEMMA DaysAreInterval ==
  ASSUME NEW points, DaysFit(points)
  PROVE  \E a \in Nat, b \in Nat : DOMAIN points = a .. b
<1>1. CASE DOMAIN points = {}
  <2>1. 1 .. 0 = {}
    OBVIOUS
  <2> QED BY <1>1, <2>1
<1>2. CASE DOMAIN points # {}
  BY <1>2 DEF DaysFit
<1> QED BY <1>1, <1>2

(* A day is of level 0 if nothing was spent, and one is of level 4 if        *)
(* anything was.                                                             *)
LEMMA LevelsOfDays ==
  ASSUME NEW points, DaysFit(points)
  PROVE  /\ \A d \in DOMAIN points : (ComputeLevels(points)[d] = 0) = (points[d] = 0)
         /\ (\E d \in DOMAIN points : ComputeLevels(points)[d] = 4) <=> ~\A d \in DOMAIN points : points[d] = 0
<1> DEFINE levels == ComputeLevels(points)
           R == Range(points) \cup {0}  max == Max(R)  D == DOMAIN points
<1>1. IsFiniteSet(D) /\ \A d \in D : points[d] \in Nat
  <2>1. PICK a \in Nat, b \in Nat : D = a .. b
    BY DaysAreInterval
  <2>2. a \in Int /\ b \in Int
    OBVIOUS
  <2>3. IsFiniteSet(a .. b)
    BY <2>2, FS_Interval
  <2> QED BY <2>1, <2>3 DEF DaysFit
<1>2. IsFiniteSet(R)
  <2>1. IsFiniteSet({points[d] : d \in D})
    BY <1>1, ImageIsFinite
  <2>2. R = {points[d] : d \in D} \cup {0} /\ IsFiniteSet({0})
    BY FS_Singleton DEF Range
  <2> QED BY <2>1, <2>2, FS_Union
<1>3. R \in SUBSET Int /\ R # {} /\ 0 \in R /\ \A d \in D : points[d] \in R
  BY <1>1 DEF Range
<1>4. max \in R /\ \A r \in R : r <= max
  <2> HIDE DEF R
  <2> QED BY <1>2, <1>3, MinAndMax
<1>5. max \in Nat /\ \A d \in D : points[d] <= max
  <2>1. R \in SUBSET Nat
    BY <1>1 DEF Range
  <2> HIDE DEF R, max
  <2> QED BY <1>3, <1>4, <2>1
<1>6. max # 0 => \E d \in D : points[d] = max
  <2> HIDE DEF max
  <2> QED BY <1>4 DEF Range
<1>7. \A d \in D : levels[d] = IF max = 0 \/ points[d] = 0 THEN 0
                             ELSE Min({4, (4 * points[d] + max - 1) \div max})
  BY DEF ComputeLevels
<1> HIDE DEF levels, R, max, D
<1>8. ASSUME NEW d \in D, points[d] # 0
      PROVE  levels[d] \in 1 .. 4 /\ (points[d] = max => levels[d] = 4)
  <2>1. max \in Nat \ {0} /\ points[d] \in Nat /\ points[d] > 0
    BY <1>1, <1>5, <1>8
  <2>2. levels[d] = Min({4, (4 * points[d] + max - 1) \div max})
    BY <1>7, <1>8, <2>1
  <2> QED BY <2>1, <2>2, LevelOf
<1>9. ASSUME NEW d \in D, points[d] = 0
      PROVE  levels[d] = 0
  BY <1>7, <1>9
<1>10. \A d \in D : levels[d] = 0 <=> points[d] = 0
  BY <1>8, <1>9
<1>11. ASSUME NEW d \in D, points[d] # 0 PROVE \E e \in D : levels[e] = 4
  <2>1. max # 0
    BY <1>1, <1>5, <1>11
  <2> QED BY <1>6, <1>8, <2>1
<1> QED BY <1>8, <1>9, <1>10, <1>11 DEF levels, D

(* Every day of the window is a cell, in order and once, but for the day that  *)
(* is a week of its own at the start; the most expensive is of the last      *)
(* level (heatmap.ts, activity-heatmap.tsx).                                 *)
THEOREM HeatmapAlwaysCoversDays ==
  ASSUME NEW points, DaysFit(points), NoneIsNoAnswer PROVE HeatmapCoversDays(points)
<1> DEFINE weeks == ActivityHeatmap(points)
           shown == UNION {Cells(weeks[w]) : w \in DOMAIN weeks}
           none == \A d \in DOMAIN points : points[d] = 0
           counts == [w \in DOMAIN weeks |-> Cardinality(Cells(weeks[w]))]
<1>1. /\ \A d \in DOMAIN points : (ComputeLevels(points)[d] = 0) = (points[d] = 0)
      /\ (\E d \in DOMAIN points : ComputeLevels(points)[d] = 4) <=> ~none
  BY LevelsOfDays
<1>2. SUFFICES /\ weeks # <<>> =>
                     DOMAIN points \ shown \in {{}, {Min(DOMAIN points)}} /\ shown \subseteq DOMAIN points
               /\ SumOver(counts) = Cardinality(shown)
               /\ \A w \in DOMAIN weeks, row \in 1 .. 7 : weeks[w][row] # None => weeks[w][row] % 7 = row - 1
               /\ (weeks # <<>>) <=> ~none
  <2> HIDE DEF none
  <2> QED BY <1>1 DEF HeatmapCoversDays, Total
<1>3. CASE none
  <2>1. weeks = <<>> /\ DOMAIN weeks = {}
    BY <1>3 DEF ActivityHeatmap
  <2>2. shown = {} /\ counts = [w \in {} |-> counts[w]]
    BY <2>1
  <2>3. SumOver(counts) = 0
    <3>1. SumOver(counts) = Sigma(counts, {})
      <4> HIDE DEF counts
      <4> QED BY <2>2, SumOverIsSigma
    <3>2. IsFiniteSet({}) /\ counts \in [{} -> Int]
      BY <2>2, FS_EmptySet
    <3> HIDE DEF counts
    <3> QED BY <3>1, <3>2, SigmaTakes
  <2>4. Cardinality({}) = 0
    BY FS_EmptySet
  <2> HIDE DEF counts, shown, weeks
  <2> QED BY <1>3, <2>1, <2>2, <2>3, <2>4
<1>4. CASE ~none
  <2>1. PICK start \in Nat, end \in Nat : DOMAIN points = start .. end
    BY DaysAreInterval
  <2>2. start <= end
    BY <1>4, <2>1
  <2> DEFINE W == WeeksOf(start, end)
  <2>3. PICK off \in {0, 1} :
          /\ off < W /\ W \in Nat /\ DOMAIN weeks = 1 .. (W - off)
          /\ \A w \in 1 .. (W - off) : weeks[w] = ArrangeWeeks(points)[w + off]
          /\ off = 1 => Cardinality(DaysOfWeek(start, end, 1)) <= 1
    BY <1>4, <2>1, <2>2, WeeksShown
  <2>4. /\ \A w \in 1 .. W : Cells(ArrangeWeeks(points)[w]) = DaysOfWeek(start, end, w)
        /\ \A w \in 1 .. W, row \in 1 .. 7 : ArrangeWeeks(points)[w][row] # None
              => ArrangeWeeks(points)[w][row] % 7 = row - 1
    BY <2>1, <2>2, WeeksHoldDays
  <2> HIDE DEF weeks, none, W
  <2>5. \A w \in 1 .. (W - off) : w + off \in 1 .. W
    BY <2>3
  <2>6. \A w \in DOMAIN weeks : Cells(weeks[w]) = DaysOfWeek(start, end, w + off)
    BY <2>3, <2>4, <2>5
  <2>7. \A w \in DOMAIN weeks, row \in 1 .. 7 : weeks[w][row] # None => weeks[w][row] % 7 = row - 1
    BY <2>3, <2>4, <2>5
  <2> DEFINE cells == [w \in DOMAIN weeks |-> Cells(weeks[w])]
  <2>8. ShowsDays(start, end, off, cells, counts, shown)
    <3>1. cells = [w \in 1 .. (W - off) |-> DaysOfWeek(start, end, w + off)]
      BY <2>3, <2>6
    <3>2. counts = [w \in DOMAIN cells |-> Cardinality(cells[w])] /\ shown = UNION {cells[w] : w \in DOMAIN cells}
      OBVIOUS
    <3> QED BY <3>1, <3>2 DEF ShowsDays, W
  <2> HIDE DEF cells, counts, shown
  <2>9. /\ SumOver(counts) = Cardinality(shown) /\ shown \subseteq start .. end
        /\ off = 0 => (start .. end) \ shown = {}
        /\ off = 1 => (start .. end) \ shown = DaysOfWeek(start, end, 1)
    BY <2>2, <2>3, <2>8, DaysShown DEF W
  <2>10. off = 1 => DaysOfWeek(start, end, 1) = {start}
    <3> SUFFICES ASSUME off = 1 PROVE DaysOfWeek(start, end, 1) = {start}
      OBVIOUS
    <3> DEFINE T == DaysOfWeek(start, end, 1)
    <3>1. start \in T
      <4>1. FirstOf(start) \in Nat /\ FirstOf(start) <= start /\ start < FirstOf(start) + 7
        BY <2>2, WeekNumbers
      <4> QED BY <2>2, <4>1 DEF DaysOfWeek
    <3>2. IsFiniteSet(T)
      <4>1. start \in Int /\ end \in Int /\ T \in SUBSET (start .. end)
        BY DEF DaysOfWeek
      <4> HIDE DEF T
      <4> QED BY <4>1, FS_Interval, FS_Subset
    <3>3. Cardinality(T) <= 1
      BY <2>3
    <3> HIDE DEF T
    <3>4. {start} \in SUBSET T /\ Cardinality({start}) = 1
      BY <3>1, FS_Singleton
    <3>5. Cardinality(T) \in Nat /\ Cardinality(T) = Cardinality({start}) + Cardinality(T \ {start})
      BY <3>2, <3>4, CountApart
    <3>6. IsFiniteSet(T \ {start}) /\ Cardinality(T \ {start}) \in Nat
      BY <3>2, FS_Difference, FS_CardinalityType
    <3>7. T \ {start} = {}
      BY <3>3, <3>4, <3>5, <3>6, FS_EmptySet
    <3> QED BY <3>1, <3>7 DEF T
  <2>11. Min(start .. end) = start
    <3>1. start \in start .. end /\ start .. end \in SUBSET Int /\ start \in Int /\ end \in Int
      BY <2>2
    <3>2. IsFiniteSet(start .. end)
      BY <3>1, FS_Interval
    <3>3. Min(start .. end) \in start .. end /\ \A y \in start .. end : Min(start .. end) <= y
      BY <3>1, <3>2, MinAndMax
    <3> QED BY <3>1, <3>3
  <2>12. weeks # <<>>
    <3>1. 1 \in DOMAIN weeks
      BY <2>3
    <3> QED BY <3>1
  <2> QED BY <1>4, <2>1, <2>3, <2>7, <2>9, <2>10, <2>11, <2>12
<1> QED BY <1>3, <1>4

-----------------------------------------------------------------------------
(* Charts.                                                                  *)

(* Each session of a window falls in one fifth of the scale. *)
Fifth(scores, b) == {s \in DOMAIN scores : Min({4, scores[s] \div 2000}) = b}

(* The five bars of the distribution hold each session once.                 *)
LEMMA ScoresDistributed ==
  ASSUME NEW db, LocalFits(db), TurnsFit(db), ScrapesFit(db)
  PROVE  SumOver(GetSessionScoreDistribution(db, 30)) = Cardinality(Recent(db))
<1> DEFINE scores == GetSessionScores(db, 30)  rows == Recent(db)  K == 0 .. 4
           key == [s \in rows |-> Min({4, scores[s] \div 2000})]
           part == GetSessionScoreDistribution(db, 30)
<1>1. scores \in [rows -> Nat] /\ IsFiniteSet(rows)
  BY SessionScores, DaysOfWindow DEF Recent
<1> HIDE DEF scores, rows
<1>2. \A s \in rows : key[s] \in K
  <2>1. ASSUME NEW s \in rows PROVE key[s] \in K
    <3> DEFINE q == scores[s] \div 2000
    <3>1. q \in Nat
      BY <1>1
    <3> HIDE DEF q
    <3>2. Min({4, q}) = IF 4 <= q THEN 4 ELSE q
      BY <3>1, LeastAmong
    <3>3. Min({4, q}) \in 0 .. 4
      BY <3>1, <3>2
    <3> QED BY <3>3 DEF q
  <2> QED BY <2>1
<1>3. key \in [rows -> K]
  BY <1>2
<1>4. IsFiniteSet(K)
  <2>1. 0 \in Int /\ 4 \in Int
    OBVIOUS
  <2> QED BY <2>1, FS_Interval
<1>5. part = [b \in K |-> Cardinality(Fifth(scores, b))]
  BY DEF GetSessionScoreDistribution, scores, Fifth
<1>6. ASSUME NEW b \in K PROVE Fifth(scores, b) = {s \in rows : key[s] = b}
  <2>1. DOMAIN scores = rows
    BY <1>1
  <2>2. \A s \in Fifth(scores, b) : s \in rows /\ key[s] = b
    BY <2>1 DEF Fifth
  <2>3. \A s \in rows : key[s] = b => s \in Fifth(scores, b)
    BY <2>1 DEF Fifth
  <2> HIDE DEF key
  <2> QED BY <2>2, <2>3
<1> HIDE DEF K, key, part
<1>7. part = [b \in K |-> Cardinality({s \in rows : key[s] = b})]
  BY <1>5, <1>6
<1>8. Sigma(part, K) = Cardinality(rows)
  BY <1>1, <1>3, <1>4, <1>7, CountByKey
<1>9. SumOver(part) = Sigma(part, K)
  <2>1. part = [b \in K |-> part[b]]
    BY <1>5
  <2> QED BY <2>1, SumOverIsSigma
<1> QED BY <1>8, <1>9 DEF rows, part

(* A rated session is one point of the scatter. *)
LEMMA RatedAreScattered ==
  ASSUME NEW db, LocalFits(db)
  PROVE  Cardinality(GetCostRatingScatter(db, 30)) = Cardinality({s \in Recent(db) : IsRated(s)})
<1> DEFINE rated == {s \in Recent(db) : IsRated(s)}
           calibration == GetCostCalibration(db.calibration)
           rating == [s \in rated |-> session_effectiveness(s).rating]
           cost == [s \in rated |-> EffectiveCost([s EXCEPT !.model = DominantModel(s)], calibration).value]
           point == [s \in rated |-> [id |-> s.id, rating |-> rating[s], cost |-> cost[s]]]
           B == GetCostRatingScatter(db, 30)
<1>1. B = {point[s] : s \in rated}
  <2>1. B = {[id |-> s.id, rating |-> session_effectiveness(s).rating,
              cost |-> EffectiveCost([s EXCEPT !.model = DominantModel(s)], calibration).value] : s \in rated}
    BY DEF GetCostRatingScatter, Recent
  <2> QED BY <2>1
<1>2. IsFiniteSet(rated)
  <2>1. rated \in SUBSET Recent(db)
    OBVIOUS
  <2> HIDE DEF rated
  <2> QED BY <2>1, DaysOfWindow, FS_Subset
<1>3. \A s, t \in rated : s.id = t.id => s = t
  <2>1. Recent(db) \in SUBSET db.sessions
    BY DaysOfWindow
  <2>2. rated \subseteq db.sessions
    BY <2>1
  <2> HIDE DEF rated
  <2> QED BY <2>2 DEF LocalFits
<1>4. \A s \in rated : point[s].id = s.id
  OBVIOUS
<1> HIDE DEF rated, rating, cost, B
<1>5. /\ \A s, t \in rated : point[s] = point[t] => s = t
      /\ \A s \in rated : point[s] \in B /\ \A b \in B : \E t \in rated : b = point[t]
  <2> HIDE DEF point
  <2> QED BY <1>1, <1>3, <1>4
<1> HIDE DEF point
<1>6. /\ \A s \in rated : point[s] \in B
      /\ \A b \in B : \E t \in rated : b = point[t]
  BY <1>1, <1>5
<1>7. Cardinality(B) = Cardinality(rated)
  BY <1>2, <1>5, <1>6, CountAlong
<1> QED BY <1>7 DEF B, rated

(* A stage of the funnel is part of the one before. *)
LEMMA FunnelNarrows ==
  ASSUME NEW db, LocalFits(db)
  PROVE  LET f == GetEffectivenessFunnel(db, 30)
         IN \A i \in DOMAIN f, j \in DOMAIN f : i <= j => f[i] >= f[j]
<1> DEFINE rows == Recent(db)
           withEdit == {s \in rows : CallsTo(CallsOf(s), EditTools) # {}}
           median == ComputeMedian([s \in withEdit |-> Hit(s)])
           cached == {s \in withEdit : median # None /\ Hit(s) # None /\ 2 * Hit(s) >= median}
           few == {s \in cached : ErrorRate(CallsOf(s)) # None
                                    /\ ErrorRate(CallsOf(s)) < LOW_TOOL_ERROR_RATE_THRESHOLD}
           f == GetEffectivenessFunnel(db, 30)
           a == Cardinality(rows)  b == Cardinality(withEdit)
           c == Cardinality(cached)  d == Cardinality(few)
<1>1. f = IF a < MIN_FUNNEL_SESSIONS THEN <<>> ELSE <<a, b, c, d>>
  BY DEF GetEffectivenessFunnel, Recent
<1>2. withEdit \in SUBSET rows /\ cached \in SUBSET withEdit /\ few \in SUBSET cached
  OBVIOUS
<1>3. IsFiniteSet(rows)
  BY DaysOfWindow
<1> HIDE DEF rows, withEdit, median, cached, few, f
<1>4. IsFiniteSet(withEdit) /\ IsFiniteSet(cached)
  BY <1>2, <1>3, FS_Subset
<1>5. a \in Nat /\ b \in Nat /\ b <= a
  BY <1>2, <1>3, CountApart
<1>6. c \in Nat /\ c <= b
  BY <1>2, <1>4, CountApart
<1>7. d \in Nat /\ d <= c
  BY <1>2, <1>4, CountApart
<1> HIDE DEF a, b, c, d
<1>8. CASE f = <<>>
  BY <1>8 DEF f
<1>9. CASE f = <<a, b, c, d>>
  <2>1. DOMAIN f = 1 .. 4 /\ f[1] = a /\ f[2] = b /\ f[3] = c /\ f[4] = d
    BY <1>9
  <2>2. a >= b /\ a >= c /\ a >= d /\ b >= c /\ b >= d /\ c >= d /\ a >= a /\ b >= b /\ c >= c /\ d >= d
    BY <1>5, <1>6, <1>7
  <2>3. ASSUME NEW i \in 1 .. 4, NEW j \in 1 .. 4, i <= j PROVE f[i] >= f[j]
    <3>1. i \in {1, 2, 3, 4} /\ j \in {1, 2, 3, 4}
      OBVIOUS
    <3> QED BY <2>1, <2>2, <2>3, <3>1
  <2> QED BY <2>1, <2>3 DEF f
<1> QED BY <1>1, <1>8, <1>9

(* The days hold the sessions, and a day without one has no score. *)
LEMMA DaysHoldSessions ==
  ASSUME NEW db, LocalFits(db), TurnsFit(db), ScrapesFit(db), NoneIsNoAnswer
  PROVE  LET days == GetDailyEffectivenessHeatmap(db, 30) IN
         /\ DOMAIN days = LastDays(db.now, 30)
         /\ SumOver([d \in DOMAIN days |-> days[d].sessionCount]) + Cardinality(CutOff(db))
              = Cardinality(Recent(db))
         /\ \A d \in DOMAIN days :
              (days[d].sessionCount = 0) = (EffectivenessLevelFor(days[d].score) = 0)
<1> DEFINE days == GetDailyEffectivenessHeatmap(db, 30)
           scores == GetSessionScores(db, 30)
           On(d) == OfDay(db, d)
           mean(d) == IF On(d) = {} THEN None
                      ELSE [num |-> SumOver([s \in On(d) |-> scores[s]]), den |-> Cardinality(On(d))]
           f == Ones(db.sessions)
<1>1. /\ scores \in [Recent(db) -> Nat] /\ IsFiniteSet(Recent(db)) /\ IsFiniteSet(db.sessions)
      /\ Recent(db) \in SUBSET db.sessions /\ CutOff(db) \in SUBSET Recent(db)
  <2>1. scores \in [Recent(db) -> Nat]
    BY SessionScores DEF Recent
  <2> HIDE DEF scores
  <2> QED BY <2>1, DaysOfWindow DEF LocalFits
<1>2. \A d : On(d) \in SUBSET Recent(db)
  BY DEF OfDay
<1>3. days = [d \in LastDays(db.now, 30) |-> [score |-> mean(d), sessionCount |-> Cardinality(On(d))]]
  <2>1. \A s \in Recent(db) : scores[s] # None
    BY <1>1 DEF NoneIsNoAnswer
  <2>2. \A d : {s \in Recent(db) : LocalDay(s.startedAt) = d} = On(d)
    BY DEF OfDay
  <2>3. DOMAIN scores = Recent(db)
    BY <1>1
  <2>4. \A d : {s \in DOMAIN scores : LocalDay(s.startedAt) = d} = On(d)
    BY <2>2, <2>3
  <2>5. \A d : {s \in On(d) : scores[s] # None} = On(d)
    BY <1>2, <2>1
  <2>6. days = [d \in LastDays(db.now, 30) |->
                  LET on == {s \in DOMAIN scores : LocalDay(s.startedAt) = d}
                      known == {s \in on : scores[s] # None}
                  IN [score |-> IF known = {} THEN None
                                ELSE [num |-> SumOver([s \in known |-> scores[s]]), den |-> Cardinality(known)],
                      sessionCount |-> Cardinality(on)]]
    BY DEF GetDailyEffectivenessHeatmap, MeanOf, Total, scores
  <2> HIDE DEF scores
  <2> QED BY <2>4, <2>5, <2>6
<1> HIDE DEF scores, days
<1>4. \A d : IsFiniteSet(On(d)) /\ Cardinality(On(d)) \in Nat /\ (Cardinality(On(d)) = 0 <=> On(d) = {})
  <2>1. ASSUME NEW d PROVE IsFiniteSet(On(d))
    <3>1. On(d) \in SUBSET Recent(db)
      BY <1>2
    <3> HIDE DEF On
    <3> QED BY <1>1, <3>1, FS_Subset
  <2> HIDE DEF On
  <2> QED BY <2>1, FS_CardinalityType, FS_EmptySet
<1>5. /\ DOMAIN days = LastDays(db.now, 30)
      /\ \A d \in DOMAIN days : days[d].sessionCount = Cardinality(On(d)) /\ days[d].score = mean(d)
  BY <1>3
<1>6. SumOver([d \in DOMAIN days |-> days[d].sessionCount]) + Cardinality(CutOff(db)) = Cardinality(Recent(db))
  <2> DEFINE part == [d \in LastDays(db.now, 30) |-> Cardinality(OfDay(db, d))]
  <2>1. f \in [db.sessions -> Int] /\ \A s \in db.sessions : f[s] = 1
    BY DEF Ones
  <2> HIDE DEF f
  <2>2. ASSUME NEW S \in SUBSET Recent(db) PROVE Sigma(f, S) = Cardinality(S)
    <3>1. S \in SUBSET db.sessions /\ \A s \in S : f[s] = 1
      BY <1>1, <2>1
    <3> QED BY <1>1, <2>1, <3>1, SigmaOfOnes
  <2>3. part = [d \in LastDays(db.now, 30) |-> Sigma(f, OfDay(db, d))]
    BY <1>2, <2>2
  <2>4. [d \in DOMAIN days |-> days[d].sessionCount] = part
    BY <1>5
  <2> HIDE DEF part
  <2>5. SumOver(part) + Sigma(f, CutOff(db)) = Sigma(f, Recent(db))
    BY <2>1, <2>3, ChartAndCut
  <2>6. Recent(db) \in SUBSET Recent(db)
    OBVIOUS
  <2> QED BY <1>1, <2>2, <2>4, <2>5, <2>6
<1>7. ASSUME NEW d \in DOMAIN days
      PROVE  days[d].sessionCount = 0 <=> EffectivenessLevelFor(days[d].score) = 0
  <2> DEFINE score == mean(d)
             C == {t \in {25, 50, 75} : score.num >= 100 * t * score.den}
  <2>1. CASE On(d) = {}
    BY <1>4, <1>5, <2>1 DEF EffectivenessLevelFor
  <2>2. CASE On(d) # {}
    <3>1. score # None
      <4>1. score = [num |-> SumOver([s \in On(d) |-> scores[s]]), den |-> Cardinality(On(d))]
        BY <2>2
      <4> HIDE DEF score
      <4>2. score = [k \in DOMAIN score |-> score[k]]
        BY <4>1
      <4> QED BY <4>2 DEF NoneIsNoAnswer
    <3>2. EffectivenessLevelFor(days[d].score) = 1 + Cardinality(C)
      BY <1>5, <3>1 DEF EffectivenessLevelFor
    <3>3. Cardinality(C) \in Nat
      <4>1. IsFiniteSet({25}) /\ IsFiniteSet({50}) /\ IsFiniteSet({75})
        BY FS_Singleton
      <4>2. IsFiniteSet({25} \cup {50})
        BY <4>1, FS_Union
      <4>3. IsFiniteSet(({25} \cup {50}) \cup {75})
        BY <4>1, <4>2, FS_Union
      <4>4. C \in SUBSET (({25} \cup {50}) \cup {75})
        OBVIOUS
      <4> HIDE DEF C
      <4> QED BY <4>3, <4>4, FS_Subset, FS_CardinalityType
    <3>4. 1 + Cardinality(C) # 0
      <4> HIDE DEF C
      <4> QED BY <3>3
    <3>5. EffectivenessLevelFor(days[d].score) # 0
      <4> HIDE DEF C, score
      <4> QED BY <3>2, <3>4
    <3>6. days[d].sessionCount # 0
      <4> HIDE DEF C, score, On, mean
      <4> QED BY <1>4, <1>5, <2>2
    <3> QED BY <3>5, <3>6
  <2> QED BY <2>1, <2>2
<1> QED BY <1>5, <1>6, <1>7 DEF days

(* Every turn's cost is in one of the ranges. *)
LEMMA SumOfOne == ASSUME NEW n \in Nat PROVE SumOver(<<n>>) = n
<1> DEFINE f == [i \in {1} |-> n]
<1>1. <<n>> = f
  OBVIOUS
<1>2. f \in [{1} -> Int] /\ f[1] = n
  OBVIOUS
<1> HIDE DEF f
<1>3. SumOver(f) = Sigma(f, {1})
  <2>1. f = [x \in {1} |-> f[x]]
    BY <1>2
  <2> QED BY <2>1, SumOverIsSigma
<1>4. Sigma(f, {1}) = f[1] + Sigma(f, {1} \ {1}) /\ Sigma(f, {}) = 0
  <2>1. IsFiniteSet({1})
    BY FS_Singleton
  <2> QED BY <1>2, <2>1, SigmaTakes
<1>5. {1} \ {1} = {}
  OBVIOUS
<1> QED BY <1>1, <1>2, <1>3, <1>4, <1>5

(* The sum of no numbers.                                                    *)
LEMMA SumOfNone == SumOver(<<>>) = 0
<1> DEFINE f == <<>>
<1>1. f \in [{} -> Int] /\ f = [x \in {} |-> f[x]]
  OBVIOUS
<1> HIDE DEF f
<1>2. SumOver(f) = Sigma(f, {})
  BY <1>1, SumOverIsSigma
<1>3. Sigma(f, {}) = 0
  BY <1>1, FS_EmptySet, SigmaTakes
<1> QED BY <1>2, <1>3 DEF f

(* The buckets of the histogram of costs hold each value once.               *)
LEMMA BucketsHoldTurns ==
  ASSUME NEW rows, IsFiniteSet(rows), NEW values \in [rows -> Int]
  PROVE  SumOver(BucketCostPerTurn(values, 8)) = Cardinality(DOMAIN values)
<1> DEFINE all == Range(values)  low == Min(all)  width == Max(all) - low  K == 1 .. 8
           key == [i \in rows |-> Min({7, ((values[i] - low) * 8) \div width}) + 1]
           part == [b \in K |-> Cardinality({i \in rows : key[i] = b})]
           B == BucketCostPerTurn(values, 8)
<1>1. DOMAIN values = rows /\ all = {values[i] : i \in rows}
  BY DEF Range
<1>2. IsFiniteSet(all) /\ all \in SUBSET Int
  <2>1. IsFiniteSet({values[i] : i \in rows})
    BY ImageIsFinite
  <2>2. \A i \in rows : values[i] \in Int
    OBVIOUS
  <2> QED BY <1>1, <2>1, <2>2
<1>3. Cardinality(rows) \in Nat
  BY FS_CardinalityType
<1>4. CASE all = {}
  <2>1. B = <<>>
    BY <1>4 DEF BucketCostPerTurn
  <2>2. rows = {}
    BY <1>1, <1>4
  <2> QED BY <1>1, <2>1, <2>2, SumOfNone, FS_EmptySet DEF B
<1>5. CASE all # {} /\ width = 0
  <2>1. B = <<Cardinality(DOMAIN values)>>
    BY <1>5 DEF BucketCostPerTurn
  <2> QED BY <1>1, <1>3, <2>1, SumOfOne DEF B
<1>6. CASE all # {} /\ width # 0
  <2>1. low \in Int /\ width \in Int /\ \A v \in all : low <= v /\ v - low <= width /\ v \in Int
    <3>1. Min(all) \in all /\ Max(all) \in all /\ \A y \in all : Min(all) <= y /\ y <= Max(all)
      BY <1>2, <1>6, MinAndMax
    <3> DEFINE greatest == Max(all)
    <3>2. width = greatest - low
      OBVIOUS
    <3>3. low \in all /\ greatest \in all /\ \A y \in all : low <= y /\ y <= greatest
      BY <3>1
    <3> HIDE DEF all, low, greatest, width, key, part, B, K
    <3>4. low \in Int /\ greatest \in Int /\ \A y \in all : y \in Int
      BY <1>2, <3>3
    <3> QED BY <3>2, <3>3, <3>4
  <2>2. width > 0
    <3>1. PICK v \in all : TRUE
      BY <1>6
    <3> HIDE DEF all, width, low
    <3> QED BY <1>6, <2>1, <3>1
  <2>3. \A i \in rows : key[i] \in K
    <3>1. ASSUME NEW i \in rows PROVE key[i] \in K
      <4> DEFINE a == (values[i] - low) * 8  q == a \div width
      <4>1. values[i] \in all
        BY <1>1
      <4>2. a \in Nat /\ width \in Nat
        <5> HIDE DEF all, width, low
        <5> QED BY <2>1, <2>2, <4>1
      <4> HIDE DEF width, a
      <4>3. q \in Nat
        BY <2>2, <4>2, Quotients
      <4>4. key[i] = Min({7, q}) + 1
        BY DEF a
      <4> HIDE DEF q, key
      <4>5. Min({7, q}) = IF 7 <= q THEN 7 ELSE q
        BY <4>3, LeastAmong
      <4>6. Min({7, q}) \in 0 .. 7
        BY <4>3, <4>5
      <4> QED BY <4>4, <4>6
    <3> QED BY <3>1
  <2>4. key \in [rows -> K] /\ IsFiniteSet(K)
    <3>1. 1 \in Int /\ 8 \in Int
      OBVIOUS
    <3> QED BY <2>3, <3>1, FS_Interval
  <2>5. B = part
    <3>1. B = [b \in 1 .. 8 |-> Cardinality({i \in DOMAIN values :
                   Min({8 - 1, ((values[i] - low) * 8) \div width}) = b - 1})]
      BY <1>6 DEF BucketCostPerTurn
    <3>2. \A i \in rows : Min({8 - 1, ((values[i] - low) * 8) \div width}) = key[i] - 1
      <4>1. ASSUME NEW i \in rows PROVE Min({8 - 1, ((values[i] - low) * 8) \div width}) = key[i] - 1
        <5>1. key[i] = Min({7, ((values[i] - low) * 8) \div width}) + 1
          OBVIOUS
        <5>2. key[i] \in Int /\ 8 - 1 = 7
          BY <2>3
        <5>3. Min({8 - 1, ((values[i] - low) * 8) \div width}) = Min({7, ((values[i] - low) * 8) \div width})
          BY <5>2
        <5> DEFINE m == Min({7, ((values[i] - low) * 8) \div width})
        <5>4. key[i] = m + 1 /\ key[i] \in 1 .. 8
          BY <2>3, <5>1
        <5>5. Min({8 - 1, ((values[i] - low) * 8) \div width}) = m
          BY <5>3
        <5>6. m \in Int
          <6> DEFINE q == ((values[i] - low) * 8) \div width
          <6>1. q \in Int
            <7>1. values[i] \in Int
              OBVIOUS
            <7> HIDE DEF low, width
            <7> QED BY <2>1, <2>2, <7>1
          <6> HIDE DEF q
          <6>2. Min({7, q}) \in Int
            BY <6>1, LeastAmong
          <6> QED BY <6>2 DEF q
        <5> HIDE DEF m, key
        <5> QED BY <5>4, <5>5, <5>6
      <4> QED BY <4>1
    <3> HIDE DEF low, width
    <3>3. \A b \in 1 .. 8 : {i \in DOMAIN values : Min({8 - 1, ((values[i] - low) * 8) \div width}) = b - 1}
                           = {i \in rows : key[i] = b}
      <4>1. ASSUME NEW b \in 1 .. 8, NEW i \in rows
            PROVE  Min({8 - 1, ((values[i] - low) * 8) \div width}) = b - 1 <=> key[i] = b
        <5>1. Min({8 - 1, ((values[i] - low) * 8) \div width}) = key[i] - 1
          BY <3>2
        <5>2. key[i] \in 1 .. 8
          BY <2>3
        <5> HIDE DEF key
        <5> QED BY <5>1, <5>2
      <4> HIDE DEF key
      <4> QED BY <1>1, <4>1
    <3> HIDE DEF key
    <3> QED BY <3>1, <3>3
  <2> HIDE DEF key, K, B
  <2>6. part \in [K -> Nat] /\ Sigma(part, K) = Cardinality(rows)
    BY <2>4, CountByKey
  <2>7. SumOver(part) = Sigma(part, K)
    <3>1. part = [b \in K |-> part[b]]
      BY <2>6
    <3> QED BY <3>1, SumOverIsSigma
  <2> QED BY <1>1, <2>5, <2>6, <2>7 DEF B
<1> QED BY <1>4, <1>5, <1>6

(* The charts of a window are about the same sessions: the distribution      *)
(* holds each once, a stage of the funnel is part of the one before, and the *)
(* days of the heatmap hold them all but those of a day cut in two           *)
(* (effectiveness.ts, effectiveness-v2.ts).                                  *)
THEOREM ChartsAlwaysAddUp ==
  ASSUME NEW db, LocalFits(db), TurnsFit(db), ScrapesFit(db), NoneIsNoAnswer
  PROVE  ChartsAddUp(db)
<1> DEFINE rows == Recent(db)
           page == EffectivenessPage(db)
           days == GetDailyEffectivenessHeatmap(db, 30)
           values == GetCostPerTurnValues(db, 30)
<1>1. page.hasData = Home(db).hasData
  <2>1. page.hasData = (GetPersonalEffectivenessAggregates(db, 30).totalSessions > 0)
    BY DEF EffectivenessPage
  <2>2. Home(db).hasData = (GetOverviewKpis(db).sessionCount30d > 0)
    BY DEF Home
  <2>3. GetPersonalEffectivenessAggregates(db, 30).totalSessions = Cardinality(rows)
    BY DEF GetPersonalEffectivenessAggregates, Recent
  <2>4. GetOverviewKpis(db).sessionCount30d = Cardinality(rows)
    BY DEF GetOverviewKpis, Recent
  <2> QED BY <2>1, <2>2, <2>3, <2>4
<1>2. SumOver(page.distribution) = Cardinality(rows)
  <2>1. page.distribution = GetSessionScoreDistribution(db, 30)
    BY DEF EffectivenessPage
  <2> QED BY <2>1, ScoresDistributed
<1>3. page.kpis.ratedSessionCount = Cardinality(page.scatter)
  <2>1. page.kpis = GetEffectivenessKpis(db, 30) /\ page.scatter = GetCostRatingScatter(db, 30)
    BY DEF EffectivenessPage
  <2>2. GetEffectivenessKpis(db, 30).ratedSessionCount = Cardinality({s \in rows : IsRated(s)})
    BY DEF GetEffectivenessKpis, Recent
  <2> QED BY <2>1, <2>2, RatedAreScattered
<1>4. \A i \in DOMAIN page.funnel, j \in DOMAIN page.funnel : i <= j => page.funnel[i] >= page.funnel[j]
  <2>1. page.funnel = GetEffectivenessFunnel(db, 30)
    BY DEF EffectivenessPage
  <2> QED BY <2>1, FunnelNarrows
<1>5. /\ SumOver([d \in DOMAIN days |-> days[d].sessionCount]) + Cardinality(CutOff(db)) = Cardinality(rows)
      /\ \A d \in DOMAIN days : (days[d].sessionCount = 0) = (EffectivenessLevelFor(days[d].score) = 0)
  BY DaysHoldSessions
<1>6. SumOver(BucketCostPerTurn(values, 8)) = Cardinality(DOMAIN values)
  <2> DEFINE some == {r \in rows : r.turnCount > 0}
  <2>1. some \in SUBSET rows /\ rows \in SUBSET db.sessions /\ IsFiniteSet(rows)
    BY DaysOfWindow
  <2>2. IsFiniteSet(some)
    <3> HIDE DEF some
    <3> QED BY <2>1, FS_Subset
  <2>3. values = [s \in some |-> EFFECTIVE_COST_EXPR(db, s) \div s.turnCount]
    BY DEF GetCostPerTurnValues, Recent
  <2>4. \A s \in some : EFFECTIVE_COST_EXPR(db, s) \div s.turnCount \in Int
    <3>1. ASSUME NEW s \in some PROVE EFFECTIVE_COST_EXPR(db, s) \div s.turnCount \in Int
      <4>1. s \in db.sessions /\ s.turnCount > 0
        BY <2>1
      <4>2. EFFECTIVE_COST_EXPR(db, s) \in Nat
        BY <4>1, SqlCosts
      <4>3. s.turnCount \in Nat
        BY <4>1 DEF LocalFits, LocalRow
      <4> QED BY <4>1, <4>2, <4>3, Quotients
    <3> QED BY <3>1
  <2> HIDE DEF some
  <2>5. values \in [some -> Int]
    BY <2>3, <2>4
  <2> HIDE DEF values
  <2> QED BY <2>2, <2>5, BucketsHoldTurns
<1> HIDE DEF page, days, values
<1> QED
  BY <1>1, <1>2, <1>3, <1>4, <1>5, <1>6
  DEF ChartsAddUp, Total, page, days, values, rows, Recent, CutOff

-----------------------------------------------------------------------------
(* Shares.                                                                  *)

(* Every turn of every session. *)
AllTurns(rows) == UNION {{<<r, k>> : k \in DOMAIN r.turns} : r \in rows}
TurnCosts(rows) == [p \in AllTurns(rows) |-> p[1].turns[p[2]].cost]
TurnsOf(rows, r) == {p \in AllTurns(rows) : p[1] = r}

(* The turns of one session, among those of some.                            *)
LEMMA TurnsOfOne ==
  ASSUME NEW rows, NEW r \in rows
  PROVE  TurnsOf(rows, r) = {<<r, k>> : k \in DOMAIN r.turns}
<1>1. \A p \in TurnsOf(rows, r) : p \in {<<r, k>> : k \in DOMAIN r.turns}
  <2>1. ASSUME NEW p \in TurnsOf(rows, r) PROVE p \in {<<r, k>> : k \in DOMAIN r.turns}
    <3>1. PICK t \in rows : \E k \in DOMAIN t.turns : p = <<t, k>>
      BY DEF TurnsOf, AllTurns
    <3>2. PICK k \in DOMAIN t.turns : p = <<t, k>>
      BY <3>1
    <3>3. t = r
      BY <3>2 DEF TurnsOf
    <3> QED BY <3>2, <3>3
  <2> QED BY <2>1
<1>2. \A k \in DOMAIN r.turns : <<r, k>> \in TurnsOf(rows, r)
  BY DEF TurnsOf, AllTurns
<1> QED BY <1>1, <1>2

(* The turns of some sessions, and what they cost.                           *)
LEMMA AllTurnsFit ==
  ASSUME NEW db, LocalFits(db), TurnsFit(db), NEW rows \in SUBSET db.sessions
  PROVE  /\ IsFiniteSet(rows) /\ IsFiniteSet(AllTurns(rows))
         /\ TurnCosts(rows) \in [AllTurns(rows) -> Int]
         /\ \A p \in AllTurns(rows) : p[1] \in rows /\ p[2] \in DOMAIN p[1].turns
                                      /\ TurnCosts(rows)[p] \in Nat
<1>1. IsFiniteSet(rows)
  BY FS_Subset DEF LocalFits
<1>2. \A p \in AllTurns(rows) : p[1] \in rows /\ p[2] \in DOMAIN p[1].turns
  <2>1. ASSUME NEW p \in AllTurns(rows) PROVE p[1] \in rows /\ p[2] \in DOMAIN p[1].turns
    <3>1. PICK t \in rows : \E k \in DOMAIN t.turns : p = <<t, k>>
      BY DEF AllTurns
    <3>2. PICK k \in DOMAIN t.turns : p = <<t, k>>
      BY <3>1
    <3> QED BY <3>2
  <2> QED BY <2>1
<1>3. \A p \in AllTurns(rows) : TurnCosts(rows)[p] \in Nat
  <2>1. ASSUME NEW p \in AllTurns(rows) PROVE TurnCosts(rows)[p] \in Nat
    <3>1. p[1] \in db.sessions /\ p[2] \in DOMAIN p[1].turns
      BY <1>2
    <3>2. p[1].turns[p[2]].cost \in Nat
      BY <3>1 DEF TurnsFit
    <3> QED BY <3>2 DEF TurnCosts
  <2> QED BY <2>1
<1>4. IsFiniteSet(AllTurns(rows))
  <2> DEFINE f == [r \in rows |-> TurnsOf(rows, r)]  U == {f[r] : r \in rows}
  <2>1. ASSUME NEW r \in rows PROVE IsFiniteSet(f[r])
    <3> DEFINE K == DOMAIN r.turns  g == [k \in K |-> <<r, k>>]
    <3>1. IsFiniteSet(K)
      BY TurnsAreFinite
    <3> HIDE DEF K
    <3>2. IsFiniteSet({g[k] : k \in K})
      <4> HIDE DEF g
      <4> QED BY <3>1, ImageIsFinite
    <3>3. f[r] = {g[k] : k \in K}
      BY TurnsOfOne DEF K
    <3> QED BY <3>2, <3>3
  <2>2. AllTurns(rows) = UNION U
    <3>1. \A p \in AllTurns(rows) : p \in f[p[1]]
      BY <1>2 DEF TurnsOf
    <3>2. \A r \in rows : f[r] \subseteq AllTurns(rows)
      BY DEF TurnsOf
    <3> HIDE DEF f
    <3> QED BY <1>2, <3>1, <3>2
  <2> HIDE DEF f
  <2>3. IsFiniteSet(U)
    BY <1>1, ImageIsFinite
  <2>4. \A T \in U : IsFiniteSet(T)
    BY <2>1
  <2> HIDE DEF U
  <2> QED BY <2>2, <2>3, <2>4, FS_UNION
<1>5. TurnCosts(rows) \in [AllTurns(rows) -> Int]
  BY <1>3 DEF TurnCosts
<1> QED BY <1>1, <1>2, <1>3, <1>4, <1>5

(* What the turns of a session cost. *)
CostOfTurns(s) == SumOver([i \in DOMAIN s.turns |-> s.turns[i].cost])

(* The cost of a session's turns, among those of some.                       *)
LEMMA TurnsOfSession ==
  ASSUME NEW db, LocalFits(db), TurnsFit(db), NEW rows \in SUBSET db.sessions, NEW r \in rows
  PROVE  Sigma(TurnCosts(rows), TurnsOf(rows, r)) = CostOfTurns(r)
<1> DEFINE A == TurnsOf(rows, r)  all == TurnCosts(rows)
           f == [p \in A |-> all[p]]  g == [p \in A |-> p[2]]
           B == DOMAIN r.turns  h == [i \in B |-> r.turns[i].cost]
<1>1. /\ IsFiniteSet(AllTurns(rows)) /\ all \in [AllTurns(rows) -> Int]
      /\ A \in SUBSET AllTurns(rows)
  BY AllTurnsFit DEF TurnsOf
<1>2. A = {<<r, k>> : k \in B}
  BY TurnsOfOne
<1>3. \A p \in A : all[p] = p[1].turns[p[2]].cost
  BY <1>1 DEF TurnCosts
<1>4. IsFiniteSet(A) /\ f \in [A -> Int]
  <2> HIDE DEF A, all
  <2> QED BY <1>1, FS_Subset
<1>5. Paired(A, f, g, B, h)
  <2>1. ASSUME NEW p \in A PROVE g[p] \in B /\ h[g[p]] = f[p] /\ p = <<r, g[p]>>
    <3>1. PICK k \in B : p = <<r, k>>
      BY <1>2
    <3> QED BY <1>3, <3>1
  <2>2. \A b \in B : \E x \in A : b = g[x]
    <3>1. ASSUME NEW b \in B PROVE <<r, b>> \in A /\ b = g[<<r, b>>]
      BY <1>2
    <3> QED BY <3>1
  <2>3. h = [b \in B |-> h[b]]
    OBVIOUS
  <2> HIDE DEF A, f, g, B, h
  <2> QED BY <2>1, <2>2, <2>3 DEF Paired
<1>6. \A p \in A : f[p] = all[p]
  OBVIOUS
<1> HIDE DEF A, all, f, g, B
<1>7. SumOver(h) = Sigma(f, A)
  <2> HIDE DEF h
  <2> QED BY <1>4, <1>5, SumAlong
<1>8. Sigma(f, A) = Sigma(all, A)
  <2>1. A \in SUBSET (A \cap AllTurns(rows))
    BY <1>1
  <2> QED BY <1>1, <1>4, <1>6, <2>1, SigmaSame
<1> QED BY <1>7, <1>8 DEF CostOfTurns, A, all, B

(* The costs of the sessions add up to those of all their turns.             *)
LEMMA CostsBySession ==
  ASSUME NEW db, LocalFits(db), TurnsFit(db), NEW rows \in SUBSET db.sessions
  PROVE  SumOver([s \in rows |-> CostOfTurns(s)]) = Sigma(TurnCosts(rows), AllTurns(rows))
<1> DEFINE A == AllTurns(rows)  f == TurnCosts(rows)  key == [p \in A |-> p[1]]
           part == KeySums(f, A, key, rows)
<1>1. IsFiniteSet(rows) /\ IsFiniteSet(A) /\ f \in [A -> Int] /\ key \in [A -> rows]
  BY AllTurnsFit
<1>2. \A r \in rows : {p \in A : key[p] = r} = TurnsOf(rows, r)
  BY DEF TurnsOf
<1>3. part = [r \in rows |-> CostOfTurns(r)]
  <2>1. part = [r \in rows |-> Sigma(f, {p \in A : key[p] = r})]
    BY DEF KeySums
  <2> HIDE DEF key, part, A, f
  <2>2. part = [r \in rows |-> Sigma(f, TurnsOf(rows, r))]
    BY <1>2, <2>1
  <2> QED BY <2>2, TurnsOfSession DEF f
<1> HIDE DEF A, f, key
<1>4. part \in [rows -> Int] /\ Sigma(part, rows) = Sigma(f, A)
  BY <1>1, KeySumsAddUp
<1> HIDE DEF part
<1>5. SumOver(part) = Sigma(part, rows)
  <2>1. part = [r \in rows |-> part[r]]
    BY <1>4
  <2> QED BY <2>1, SumOverIsSigma
<1> QED BY <1>3, <1>4, <1>5 DEF A, f

(* Families share what the turns cost. *)
Families == CalibrationFamilies \cup {"other"}

(* The shares of the families of models are shares of what the turns of the  *)
(* window cost.                                                              *)
LEMMA FamiliesShare ==
  ASSUME NEW db, LocalFits(db), TurnsFit(db)
  PROVE  SumOver(GetModelBreakdown(db, 30)) = SumOver([s \in Recent(db) |-> CostOfTurns(s)])
<1> DEFINE rows == Recent(db)  D == AllTurns(rows)  f == TurnCosts(rows)
           A == {p \in D : p[1].turns[p[2]].cost > 0}
           key == [p \in A |-> DeriveModelFamily(p[1].turns[p[2]].model)]
           Cost(w) == Sigma(f, {p \in A : key[p] = w})
           some == {w \in Families : Cost(w) > 0}
           B == GetModelBreakdown(db, 30)
<1>1. /\ rows \in SUBSET db.sessions
      /\ IsFiniteSet(rows) /\ IsFiniteSet(D) /\ f \in [D -> Int] /\ \A p \in D : f[p] \in Nat
  BY DaysOfWindow, AllTurnsFit
<1>2. A \in SUBSET D /\ key \in [A -> Families]
  BY DEF Families, DeriveModelFamily
<1>3. IsFiniteSet(Families)
  <2>1. IsFiniteSet({"opus"}) /\ IsFiniteSet({"sonnet"}) /\ IsFiniteSet({"haiku"}) /\ IsFiniteSet({"other"})
    BY FS_Singleton
  <2>2. IsFiniteSet({"opus"} \cup {"sonnet"})
    BY <2>1, FS_Union
  <2>3. IsFiniteSet(({"opus"} \cup {"sonnet"}) \cup {"haiku"})
    BY <2>1, <2>2, FS_Union
  <2>4. IsFiniteSet((({"opus"} \cup {"sonnet"}) \cup {"haiku"}) \cup {"other"})
    BY <2>1, <2>3, FS_Union
  <2>5. Families = (({"opus"} \cup {"sonnet"}) \cup {"haiku"}) \cup {"other"}
    BY DEF Families, CalibrationFamilies
  <2> QED BY <2>4, <2>5
<1>4. B = [w \in some |-> Cost(w)]
  <2> DEFINE Turns(w) == {p \in UNION {{<<r, k>> : k \in DOMAIN r.turns} : r \in rows} :
                            p[1].turns[p[2]].cost > 0 /\ DeriveModelFamily(p[1].turns[p[2]].model) = w}
  <2>1. B = [w \in {g \in CalibrationFamilies \cup {"other"} :
                      SumOver([p \in Turns(g) |-> p[1].turns[p[2]].cost]) > 0}
               |-> SumOver([p \in Turns(w) |-> p[1].turns[p[2]].cost])]
    BY DEF GetModelBreakdown, Total, Recent
  <2>2. \A w : Turns(w) = {p \in A : key[p] = w} /\ Turns(w) \in SUBSET D
    BY DEF AllTurns
  <2> HIDE DEF Turns
  <2>3. ASSUME NEW w PROVE SumOver([p \in Turns(w) |-> p[1].turns[p[2]].cost]) = Cost(w)
    <3> DEFINE h == [p \in Turns(w) |-> p[1].turns[p[2]].cost]
    <3>1. h = [p \in Turns(w) |-> f[p]]
      BY <2>2 DEF TurnCosts
    <3> HIDE DEF h, f, D, A, key
    <3>2. SumOver(h) = Sigma(f, Turns(w))
      BY <1>1, <2>2, <3>1, SumOfPart
    <3> QED BY <2>2, <3>2 DEF h
  <2> DEFINE amount(w) == SumOver([p \in Turns(w) |-> p[1].turns[p[2]].cost])
  <2>4. B = [w \in {g \in Families : amount(g) > 0} |-> amount(w)]
    BY <2>1 DEF Families
  <2>5. \A w : amount(w) = Cost(w)
    BY <2>3
  <2> HIDE DEF Cost, amount, B
  <2>6. {g \in Families : amount(g) > 0} = some
    BY <2>5
  <2> HIDE DEF some
  <2> QED BY <2>4, <2>5, <2>6
<1> HIDE DEF rows, D, f, B
<1>5. \A w : Cost(w) \in Int /\ Cost(w) >= 0
  <2>1. ASSUME NEW w PROVE Cost(w) \in Int /\ Cost(w) >= 0
    <3> DEFINE T == {p \in A : key[p] = w}
    <3>1. T \in SUBSET D /\ T \in SUBSET T /\ \A p \in T : f[p] >= 0
      BY <1>1, <1>2
    <3> HIDE DEF T
    <3>2. Sigma(f, T) \in Int /\ 0 <= Sigma(f, T)
      BY <1>1, <3>1, SigmaTakes, SigmaGrows
    <3> QED BY <3>2 DEF T
  <2> HIDE DEF Cost
  <2> QED BY <2>1
<1>6. B = KeySums(f, A, key, some)
  BY <1>4 DEF KeySums
<1>7. \A w \in Families \ some : KeySums(f, A, key, Families)[w] = 0
  <2>1. \A w \in Families : KeySums(f, A, key, Families)[w] = Cost(w)
    BY DEF KeySums
  <2>2. \A w \in Families \ some : ~(Cost(w) > 0)
    OBVIOUS
  <2> HIDE DEF Cost, some, A, key
  <2> QED BY <1>5, <2>1, <2>2
<1>8. some \in SUBSET Families
  OBVIOUS
<1>9. \A p \in D \ A : f[p] = 0
  <2>1. ASSUME NEW p \in D \ A PROVE f[p] = 0
    <3>1. f[p] = p[1].turns[p[2]].cost /\ ~(p[1].turns[p[2]].cost > 0)
      BY DEF f, D, TurnCosts
    <3>2. f[p] \in Nat
      BY <1>1
    <3> QED BY <3>1, <3>2
  <2> QED BY <2>1
<1> HIDE DEF A, key, some
<1>10. SumOver(B) = Sigma(f, A)
  BY <1>1, <1>2, <1>3, <1>6, <1>7, <1>8, SomeKeys
<1>11. Sigma(f, D) = Sigma(f, A)
  BY <1>1, <1>2, <1>9, SigmaOfNoughts
<1>12. SumOver([s \in rows |-> CostOfTurns(s)]) = Sigma(f, D)
  BY <1>1, CostsBySession DEF f, D
<1> QED BY <1>10, <1>11, <1>12 DEF B, rows

(* Types of agents share the turns of a session, what they cost and the       *)
(* thousandths of it.                                                       *)
TypesOf(s) == {s.turns[i].subagent : i \in DOMAIN s.turns}
OfType(s, t) == {i \in DOMAIN s.turns : s.turns[i].subagent = t}
TypeCosts(s) == [t \in TypesOf(s) |-> SumOver([i \in OfType(s, t) |-> s.turns[i].cost])]
TypeTurns(s) == [t \in TypesOf(s) |-> Cardinality(OfType(s, t))]

(* The types of agents of a session divide its turns and their cost.         *)
LEMMA TypesShare ==
  ASSUME NEW db, LocalFits(db), TurnsFit(db), NEW s \in db.sessions
  PROVE  /\ IsFiniteSet(TypesOf(s)) /\ TypeCosts(s) \in [TypesOf(s) -> Nat]
         /\ SumOver(TypeCosts(s)) = CostOfTurns(s) /\ SumOver(TypeCosts(s)) = Sigma(TypeCosts(s), TypesOf(s))
         /\ TypeTurns(s) \in [TypesOf(s) -> Nat] /\ Sigma(TypeTurns(s), TypesOf(s)) = s.turnCount
         /\ SumOver(TypeCosts(s)) \in Nat
<1> DEFINE K == DOMAIN s.turns  c == [i \in K |-> s.turns[i].cost]
           key == [i \in K |-> s.turns[i].subagent]  T == TypesOf(s)
           costs == TypeCosts(s)  turns == TypeTurns(s)
<1>1. IsFiniteSet(K) /\ K = 1 .. s.turnCount /\ s.turnCount \in Nat
  BY TurnsAreFinite DEF TurnsFit, LocalFits, LocalRow
<1>2. c \in [K -> Int] /\ \A i \in K : c[i] \in Nat
  BY DEF TurnsFit
<1>3. key \in [K -> T] /\ T = {key[i] : i \in K} /\ \A t : OfType(s, t) = {i \in K : key[i] = t}
  BY DEF TypesOf, OfType
<1>4. costs = KeySums(c, K, key, T)
  <2>1. costs = [t \in T |-> SumOver([i \in OfType(s, t) |-> c[i]])]
    BY DEF TypeCosts, OfType
  <2>2. ASSUME NEW t PROVE SumOver([i \in OfType(s, t) |-> c[i]]) = Sigma(c, {i \in K : key[i] = t})
    <3> DEFINE h == [i \in OfType(s, t) |-> c[i]]
    <3>1. OfType(s, t) \in SUBSET K
      BY DEF OfType
    <3>2. h = [i \in OfType(s, t) |-> c[i]]
      OBVIOUS
    <3> HIDE DEF h, K, c, key
    <3>3. SumOver(h) = Sigma(c, OfType(s, t))
      BY <1>1, <1>2, <3>1, <3>2, SumOfPart
    <3> QED BY <1>3, <3>3 DEF h
  <2> HIDE DEF c, K, key, T
  <2> QED BY <2>1, <2>2 DEF KeySums
<1>5. IsFiniteSet(T)
  <2> HIDE DEF key, K, T
  <2>1. IsFiniteSet({key[i] : i \in K})
    BY <1>1, ImageIsFinite
  <2> QED BY <1>3, <2>1
<1>6. CostOfTurns(s) = Sigma(c, K)
  <2>1. c = [i \in K |-> c[i]] /\ CostOfTurns(s) = SumOver(c)
    BY DEF CostOfTurns
  <2> HIDE DEF c, K
  <2> QED BY <2>1, SumOverIsSigma
<1>7. turns = [t \in T |-> Cardinality({i \in K : key[i] = t})]
  BY <1>3 DEF TypeTurns
<1>8. costs = [t \in T |-> costs[t]]
  BY DEF TypeCosts
<1> HIDE DEF K, c, key, T, costs, turns
<1>9. costs \in [T -> Int] /\ Sigma(costs, T) = Sigma(c, K)
  <2>1. IsFiniteSet(K) /\ IsFiniteSet(T) /\ c \in [K -> Int] /\ key \in [K -> T]
    BY <1>1, <1>2, <1>3, <1>5
  <2>2. KeySums(c, K, key, T) \in [T -> Int] /\ Sigma(KeySums(c, K, key, T), T) = Sigma(c, K)
    BY <2>1, KeySumsAddUp
  <2> QED BY <1>4, <2>2
<1>10. SumOver(costs) = Sigma(costs, T)
  BY <1>8, SumOverIsSigma
<1>11. turns \in [T -> Nat] /\ Sigma(turns, T) = Cardinality(K)
  <2>1. IsFiniteSet(K) /\ IsFiniteSet(T) /\ key \in [K -> T]
    BY <1>1, <1>3, <1>5
  <2> QED BY <1>7, <2>1, CountByKey
<1>12. Cardinality(K) = s.turnCount
  <2>1. 1 \in Int /\ s.turnCount \in Int
    BY <1>1
  <2>2. Cardinality(1 .. s.turnCount) = IF 1 > s.turnCount THEN 0 ELSE s.turnCount - 1 + 1
    BY <2>1, FS_Interval
  <2>3. s.turnCount \in Nat /\ (1 > s.turnCount => s.turnCount = 0)
    BY <1>1
  <2>4. Cardinality(1 .. s.turnCount) = s.turnCount
    BY <2>2, <2>3
  <2> QED BY <1>1, <2>4
<1>13. ASSUME NEW t \in T PROVE costs[t] \in Nat
  <2> DEFINE S == {i \in K : key[i] = t}
  <2>1. S \in SUBSET K /\ S \in SUBSET S /\ \A i \in S : c[i] >= 0
    BY <1>2
  <2>2. costs[t] = Sigma(c, S)
    BY <1>4 DEF KeySums
  <2> HIDE DEF S
  <2>3. Sigma(c, S) \in Int /\ 0 <= Sigma(c, S)
    BY <1>1, <1>2, <2>1, SigmaTakes, SigmaGrows
  <2> QED BY <2>2, <2>3
<1>14. costs \in [T -> Nat]
  BY <1>9, <1>13
<1>15. Sigma(costs, T) \in Nat
  <2>1. T \in SUBSET T /\ \A t \in T : costs[t] >= 0
    BY <1>13
  <2>2. Sigma(costs, T) \in Int /\ 0 <= Sigma(costs, T)
    BY <1>5, <1>9, <2>1, SigmaTakes, SigmaGrows
  <2> QED BY <2>2
<1> QED BY <1>5, <1>6, <1>9, <1>10, <1>11, <1>12, <1>14, <1>15 DEF costs, turns, T

Floors(T, f, target, sum) == [t \in T |-> (target * f[t]) \div sum]
Rests(T, f, target, sum) == [t \in T |-> (target * f[t]) % sum]

(* Shares rounded down, and what is left of each.                            *)
LEMMA DividedAll ==
  ASSUME NEW T, NEW f \in [T -> Nat], NEW target \in Nat, NEW sum \in Nat \ {0}
  PROVE  /\ Floors(T, f, target, sum) \in [T -> Nat] /\ Rests(T, f, target, sum) \in [T -> Nat]
         /\ Divided(f, Floors(T, f, target, sum), Rests(T, f, target, sum), target, sum)
<1> DEFINE floor == Floors(T, f, target, sum)  rest == Rests(T, f, target, sum)
<1>1. ASSUME NEW t \in T
      PROVE  /\ floor[t] \in Nat /\ rest[t] \in Nat
             /\ rest[t] < sum /\ f[t] * target = sum * floor[t] + rest[t]
  <2> DEFINE a == target * f[t]
  <2>1. a \in Nat /\ f[t] * target = a
    OBVIOUS
  <2>2. floor[t] = a \div sum /\ rest[t] = a % sum
    BY DEF Floors, Rests
  <2> HIDE DEF a, floor, rest
  <2>3. floor[t] \in Nat /\ rest[t] \in Nat /\ rest[t] < sum /\ a = sum * floor[t] + rest[t]
    BY <2>1, <2>2, Remainder
  <2> QED BY <2>1, <2>3
<1>2. floor = [t \in T |-> floor[t]] /\ rest = [t \in T |-> rest[t]]
  BY DEF Floors, Rests
<1> HIDE DEF floor, rest
<1>3. floor \in [T -> Nat] /\ rest \in [T -> Nat]
  BY <1>1, <1>2
<1>4. DOMAIN f = T
  OBVIOUS
<1>5. Divided(f, floor, rest, target, sum)
  BY <1>1, <1>4 DEF Divided
<1> QED BY <1>3, <1>5 DEF floor, rest

(* Shares rounded down are short of the whole by less than their number.     *)
LEMMA UnitsShared ==
  ASSUME NEW T, IsFiniteSet(T), NEW f \in [T -> Nat], NEW target \in Nat, NEW sum \in Nat \ {0},
         sum = Sigma(f, T)
  PROVE  /\ Floors(T, f, target, sum) \in [T -> Int]
         /\ Sigma(Floors(T, f, target, sum), T) \in target + 1 - Cardinality(T) .. target
<1> DEFINE floor == Floors(T, f, target, sum)  rest == Rests(T, f, target, sum)
           some == {t \in T : rest[t] > 0}
<1>2. floor \in [T -> Nat] /\ rest \in [T -> Nat] /\ Divided(f, floor, rest, target, sum)
  BY DividedAll
<1> HIDE DEF floor, rest
<1>4. /\ Sigma(floor, T) \in Int /\ target - Sigma(floor, T) \in Nat
      /\ target - Sigma(floor, T) <= Cardinality(some)
      /\ some # {} => target - Sigma(floor, T) < Cardinality(some)
  <2>2. some = {t \in T : rest[t] > 0}
    OBVIOUS
  <2> HIDE DEF some
  <2> QED BY <1>2, <2>2, LeftOver
<1>5. some \in SUBSET T
  OBVIOUS
<1> HIDE DEF some
<1>6. Cardinality(some) \in Nat /\ Cardinality(T) \in Nat /\ Cardinality(some) <= Cardinality(T)
  BY <1>5, CountApart
<1>7. some = {} => Cardinality(some) = 0
  BY FS_EmptySet
<1>8. Cardinality(T) # 0
  <2>1. T # {}
    <3>1. SUFFICES ASSUME T = {} PROVE FALSE
      OBVIOUS
    <3>2. f \in [T -> Int]
      OBVIOUS
    <3>3. Sigma(f, {}) = 0
      BY <3>2, SigmaTakes
    <3> QED BY <3>1, <3>3
  <2> QED BY <2>1, FS_EmptySet
<1> QED BY <1>2, <1>4, <1>6, <1>7, <1>8 DEF floor

AgentsShareAll(s) ==
  LET shares == GetSubagentBreakdown(s) IN
  /\ SumOver([r \in shares |-> r.cost]) = CostOfTurns(s)
  /\ SumOver([r \in shares |-> r.turns]) = s.turnCount
  /\ SumOver([r \in shares |-> r.pct]) \in 1001 - Cardinality(shares) .. 1000

(* The breakdown by agents holds a session's cost and its turns, and its     *)
(* percents are short of the whole by less than their number.                *)
LEMMA AgentsShare ==
  ASSUME NEW db, LocalFits(db), TurnsFit(db), NEW s \in db.sessions, GetSubagentBreakdown(s) # {}
  PROVE  AgentsShareAll(s)
<1> DEFINE T == TypesOf(s)  costs == TypeCosts(s)  turns == TypeTurns(s)  sum == SumOver(costs)
           pct == [t \in T |-> Ratio(costs[t], sum)]
           row == [t \in T |-> [type |-> t, turns |-> turns[t], cost |-> costs[t], pct |-> pct[t]]]
           B == GetSubagentBreakdown(s)
<1>1. /\ IsFiniteSet(T) /\ costs \in [T -> Nat] /\ turns \in [T -> Nat] /\ sum \in Nat
      /\ sum = CostOfTurns(s) /\ sum = Sigma(costs, T) /\ Sigma(turns, T) = s.turnCount
  BY TypesShare
<1>2. B = IF sum = 0 THEN {} ELSE {row[t] : t \in T}
  <2> DEFINE Cost(type) == SumOver([i \in OfType(s, type) |-> s.turns[i].cost])
  <2>1. B = IF SumOver([t \in T |-> Cost(t)]) = 0 THEN {}
            ELSE {[type |-> t, turns |-> Cardinality(OfType(s, t)), cost |-> Cost(t),
                   pct |-> Ratio(Cost(t), SumOver([u \in T |-> Cost(u)]))] : t \in T}
    BY DEF GetSubagentBreakdown, Total, OfType, TypesOf
  <2>2. costs = [t \in T |-> Cost(t)] /\ \A t \in T : costs[t] = Cost(t) /\ turns[t] = Cardinality(OfType(s, t))
    BY DEF TypeCosts, TypeTurns
  <2> HIDE DEF Cost, T, costs, turns
  <2>3. B = IF sum = 0 THEN {}
            ELSE {[type |-> t, turns |-> turns[t], cost |-> costs[t], pct |-> Ratio(costs[t], sum)] : t \in T}
    BY <2>1, <2>2
  <2> HIDE DEF sum, B
  <2>4. \A t \in T : row[t] = [type |-> t, turns |-> turns[t], cost |-> costs[t], pct |-> Ratio(costs[t], sum)]
    OBVIOUS
  <2> HIDE DEF row
  <2> QED BY <2>3, <2>4
<1>3. /\ B = {row[t] : t \in T} /\ sum \in Nat \ {0}
  BY <1>1, <1>2
<1>4. pct \in [T -> Int] /\ Sigma(pct, T) \in 1001 - Cardinality(T) .. 1000
  <2>1. pct = [t \in T |-> Ratio(costs[t], sum)]
    OBVIOUS
  <2>2. pct = Floors(T, costs, 1000, sum)
    <3>1. \A t \in T : Ratio(costs[t], sum) = (1000 * costs[t]) \div sum
      BY <1>3 DEF Ratio
    <3> HIDE DEF pct, T, costs, sum
    <3> QED BY <2>1, <3>1 DEF Floors
  <2> DEFINE target == 1000
  <2>3. target \in Nat /\ target = 1000 /\ pct = Floors(T, costs, target, sum)
    BY <2>2
  <2> HIDE DEF pct, T, costs, sum, target
  <2>4. /\ Floors(T, costs, target, sum) \in [T -> Int]
        /\ Sigma(Floors(T, costs, target, sum), T) \in target + 1 - Cardinality(T) .. target
    BY <1>1, <1>3, <2>3, UnitsShared
  <2>5. Cardinality(T) \in Int
    BY <1>1, FS_CardinalityType
  <2> QED BY <2>3, <2>4, <2>5
<1>5. \A t \in T : row[t].type = t /\ row[t].turns = turns[t] /\ row[t].cost = costs[t] /\ row[t].pct = pct[t]
  OBVIOUS
<1> HIDE DEF T, costs, turns, sum, pct, row, B
<1>6. /\ \A t \in T : row[t] \in B
      /\ \A t, u \in T : row[t] = row[u] => t = u
      /\ \A b \in B : \E t \in T : b = row[t]
  BY <1>3, <1>5
<1>7. Cardinality(B) = Cardinality(T)
  <2>1. /\ \A t \in T : row[t] \in B
        /\ \A t, u \in T : row[t] = row[u] => t = u
        /\ \A b \in B : \E t \in T : b = row[t]
    BY <1>3, <1>5
  <2> QED BY <1>1, <2>1, CountAlong
<1>8. ASSUME NEW f \in [T -> Int], NEW h, h = [r \in B |-> h[r]], \A t \in T : h[row[t]] = f[t]
      PROVE  SumOver(h) = Sigma(f, T)
  <2>1. Paired(T, f, row, B, h)
    BY <1>3, <1>5, <1>8 DEF Paired
  <2> QED BY <1>1, <2>1, SumAlong
<1>9. SumOver([r \in B |-> r.cost]) = Sigma(costs, T)
  <2> DEFINE h == [r \in B |-> r.cost]
  <2>1. h = [r \in B |-> h[r]] /\ \A t \in T : h[row[t]] = costs[t]
    BY <1>3, <1>5
  <2>2. costs \in [T -> Int]
    BY <1>1
  <2> HIDE DEF h
  <2>3. SumOver(h) = Sigma(costs, T)
    BY <1>8, <2>1, <2>2
  <2> QED BY <2>3 DEF h
<1>10. SumOver([r \in B |-> r.turns]) = Sigma(turns, T)
  <2> DEFINE h == [r \in B |-> r.turns]
  <2>1. h = [r \in B |-> h[r]] /\ \A t \in T : h[row[t]] = turns[t]
    BY <1>3, <1>5
  <2>2. turns \in [T -> Int]
    BY <1>1
  <2> HIDE DEF h
  <2>3. SumOver(h) = Sigma(turns, T)
    BY <1>8, <2>1, <2>2
  <2> QED BY <2>3 DEF h
<1>11. SumOver([r \in B |-> r.pct]) = Sigma(pct, T)
  <2> DEFINE h == [r \in B |-> r.pct]
  <2>1. h = [r \in B |-> h[r]] /\ \A t \in T : h[row[t]] = pct[t]
    BY <1>3, <1>5
  <2> HIDE DEF h
  <2>2. SumOver(h) = Sigma(pct, T)
    BY <1>4, <1>8, <2>1
  <2> QED BY <2>2 DEF h
<1>12. /\ SumOver([r \in B |-> r.cost]) = CostOfTurns(s)
       /\ SumOver([r \in B |-> r.turns]) = s.turnCount
       /\ SumOver([r \in B |-> r.pct]) \in 1001 - Cardinality(B) .. 1000
  BY <1>1, <1>4, <1>7, <1>9, <1>10, <1>11
<1> QED BY <1>12 DEF B, AgentsShareAll

(* A session with turns of agents called one. *)
LEMMA AgentsAreCalled ==
  ASSUME NEW db, LocalFits(db), TurnsFit(db)
  PROVE  Cardinality({s \in Recent(db) : GetPersonalEffectivenessSession(s).subagentUsageRatio \notin {None, 0}})
           <= GetSubagentUsage(db, 30).sessionsWithAgent
<1> DEFINE rows == Recent(db)
           used == {s \in rows : GetPersonalEffectivenessSession(s).subagentUsageRatio \notin {None, 0}}
           agents == {s \in rows : CallsTo(CallsOf(s), {SUBAGENT_TOOL_NAME}) # {}}
<1>1. IsFiniteSet(rows) /\ rows \in SUBSET db.sessions
  BY DaysOfWindow
<1>2. ASSUME NEW s \in used PROVE s \in agents
  <2> DEFINE S == {i \in DOMAIN s.turns : s.turns[i].subagent # None}
  <2>1. s \in rows /\ s \in db.sessions
    BY <1>1
  <2>2. Ratio(Cardinality(S), s.turnCount) \notin {None, 0}
    BY DEF GetPersonalEffectivenessSession
  <2>3. S # {}
    <3>1. SUFFICES ASSUME S = {} PROVE FALSE
      OBVIOUS
    <3>2. Cardinality(S) = 0
      BY <3>1, FS_EmptySet
    <3>3. s.turnCount \in Nat
      BY <2>1 DEF LocalFits, LocalRow
    <3>4. Ratio(0, s.turnCount) \in {None, 0}
      <4> DEFINE n == s.turnCount
      <4>1. n # 0 => (1000 * 0) \div n = 0
        <5>1. n \in Nat
          BY <3>3
        <5> HIDE DEF n
        <5> QED BY <5>1
      <4> QED BY <4>1 DEF Ratio
    <3> QED BY <2>2, <3>2, <3>4
  <2>4. PICK i \in DOMAIN s.turns : s.turns[i].subagent # None
    BY <2>3
  <2> DEFINE calls == s.turns[i].calls
             valid == {j \in DOMAIN calls : calls[j].tool = SUBAGENT_TOOL_NAME /\ calls[j].type # None}
  <2>5. ExtractSubagentType(calls) # None
    BY <2>1, <2>4 DEF TurnsFit
  <2>6. valid # {}
    BY <2>5 DEF ExtractSubagentType
  <2>7. PICK j \in DOMAIN calls : calls[j].tool = SUBAGENT_TOOL_NAME
    BY <2>6
  <2>8. calls[j] \in CallsOf(s)
    BY DEF CallsOf, Range
  <2>9. calls[j] \in CallsTo(CallsOf(s), {SUBAGENT_TOOL_NAME})
    BY <2>7, <2>8 DEF CallsTo
  <2> QED BY <2>1, <2>9
<1>3. agents \in SUBSET rows
  OBVIOUS
<1>4. GetSubagentUsage(db, 30).sessionsWithAgent = Cardinality(agents)
  BY DEF GetSubagentUsage, Recent
<1>5. used \in SUBSET agents
  BY <1>2
<1>6. IsFiniteSet(agents)
  <2> HIDE DEF agents, rows
  <2> QED BY <1>1, <1>3, FS_Subset
<1> HIDE DEF used, agents
<1>7. Cardinality(used) <= Cardinality(agents)
  BY <1>5, <1>6, CountApart
<1> QED BY <1>4, <1>7 DEF used, rows

(* A point of the scatter has the cost of its session, where the row's model *)
(* is the dominant one.                                                      *)
LEMMA ScatteredCosts ==
  ASSUME NEW db, LocalFits(db), RowsAreRecords(db),
         NEW p \in GetCostRatingScatter(db, 30), NEW s \in Recent(db),
         p.id = s.id, s.model = DominantModel(s)
  PROVE  p.cost = EffectiveCostFor(db, s)
<1> DEFINE calibration == GetCostCalibration(db.calibration)
           cost(t) == EffectiveCost([t EXCEPT !.model = DominantModel(t)], calibration).value
<1>1. GetCostRatingScatter(db, 30) =
        {[id |-> t.id, rating |-> session_effectiveness(t).rating, cost |-> cost(t)] :
           t \in {r \in Recent(db) : IsRated(r)}}
  BY DEF GetCostRatingScatter, Recent
<1> HIDE DEF cost
<1>2. PICK t \in Recent(db) : p = [id |-> t.id, rating |-> session_effectiveness(t).rating, cost |-> cost(t)]
  BY <1>1
<1>3. p.id = t.id /\ p.cost = cost(t)
  BY <1>2
<1>4. Recent(db) \in SUBSET db.sessions
  BY DaysOfWindow
<1>5. t = s
  <2>1. t \in db.sessions /\ s \in db.sessions /\ t.id = s.id
    BY <1>3, <1>4
  <2> QED BY <2>1 DEF LocalFits
<1>6. [s EXCEPT !.model = s.model] = s
  <2>1. s \in db.sessions
    BY <1>4
  <2>2. s = [k \in DOMAIN s |-> s[k]]
    BY <2>1 DEF RowsAreRecords
  <2> QED BY <2>2
<1>7. cost(s) = EffectiveCost(s, calibration).value
  <2>1. [s EXCEPT !.model = DominantModel(s)] = s
    BY <1>6
  <2> HIDE DEF calibration
  <2> QED BY <2>1 DEF cost
<1> QED BY <1>3, <1>5, <1>7 DEF EffectiveCostFor

(* Shares are shares of the same cost: families of models, types of agents   *)
(* and the list price of the sessions they are of (effectiveness-v2.ts,      *)
(* subagent.ts).                                                             *)
THEOREM SharesAlwaysAddUp ==
  ASSUME NEW db, LocalFits(db), TurnsFit(db), RowsAreRecords(db) PROVE SharesAddUp(db)
<1>1. SumOver(GetModelBreakdown(db, 30)) = SumOver([s \in Recent(db) |-> CostOfTurns(s)])
  BY FamiliesShare
<1>2. ASSUME NEW s \in Recent(db), GetSubagentBreakdown(s) # {}
      PROVE  AgentsShareAll(s)
  <2>1. s \in db.sessions
    BY DaysOfWindow
  <2> QED BY <1>2, <2>1, AgentsShare
<1>3. Cardinality({s \in Recent(db) : GetPersonalEffectivenessSession(s).subagentUsageRatio \notin {None, 0}})
        <= GetSubagentUsage(db, 30).sessionsWithAgent
  BY AgentsAreCalled
<1>4. \A p \in GetCostRatingScatter(db, 30), s \in Recent(db) :
        p.id = s.id /\ s.model = DominantModel(s) => p.cost = EffectiveCostFor(db, s)
  BY ScatteredCosts
<1>5. SharesAddUp(db) <=>
        /\ SumOver(GetModelBreakdown(db, 30)) = SumOver([s \in Recent(db) |-> CostOfTurns(s)])
        /\ \A s \in Recent(db) : GetSubagentBreakdown(s) # {} => AgentsShareAll(s)
        /\ Cardinality({s \in Recent(db) : GetPersonalEffectivenessSession(s).subagentUsageRatio \notin {None, 0}})
             <= GetSubagentUsage(db, 30).sessionsWithAgent
        /\ \A p \in GetCostRatingScatter(db, 30), s \in Recent(db) :
             p.id = s.id /\ s.model = DominantModel(s) => p.cost = EffectiveCostFor(db, s)
  BY DEF SharesAddUp, Total, CostOfTurns, Recent, AgentsShareAll
<1> QED BY <1>1, <1>2, <1>3, <1>4, <1>5

-----------------------------------------------------------------------------
(* Tools: their leaderboard and their trend.                                *)

(* The rows a leaderboard keeps are as many as there are, up to its limit.   *)
LEMMA MostCalled ==
  ASSUME NEW S, IsFiniteSet(S), \A r \in S : r.calls \in Int, NEW n \in Nat
  PROVE  LET T == FirstRows(S, n, LAMBDA r : r.calls)
         IN T \in SUBSET S /\ Cardinality(T) = Min({n, Cardinality(S)})
<1> DEFINE P(T) == /\ Cardinality(T) = Min({n, Cardinality(S)})
                   /\ \A r \in T, other \in S \ T : r.calls >= other.calls
           rank == [r \in S |-> r.calls]
<1>1. rank \in [S -> Int] /\ \A r \in S : rank[r] = r.calls
  OBVIOUS
<1> HIDE DEF rank
<1>2. PICK T : T \in FirstBy(S, rank, n)
  BY <1>1, FirstExist
<1>3. T \in SUBSET S /\ P(T)
  BY <1>1, <1>2 DEF FirstBy
<1> DEFINE F == CHOOSE U \in SUBSET S : P(U)
<1>4. F \in SUBSET S /\ P(F)
  <2> HIDE DEF P
  <2> QED BY <1>3
<1>5. F = FirstRows(S, n, LAMBDA r : r.calls)
  BY DEF FirstRows
<1> HIDE DEF F
<1> QED BY <1>4, <1>5

ToolsOf(calls) == {c.tool : c \in calls}

(* The rows of the leaderboard hold each call of the window once, under its  *)
(* tool.                                                                     *)
LEMMA BoardOfCalls ==
  ASSUME NEW calls, IsFiniteSet(calls)
  PROVE  LET R == LeaderboardRows(calls) IN
         /\ IsFiniteSet(R)
         /\ \A r \in R : r.calls \in Nat /\ r.errors \in Nat /\ r.errors <= r.calls /\ r.tool \in ToolsOf(calls)
         /\ \A t \in ToolsOf(calls) : \E r \in R : r.tool = t
         /\ SumOver([r \in R |-> r.calls]) = Cardinality(calls)
<1> DEFINE T == ToolsOf(calls)  R == LeaderboardRows(calls)
           key == [c \in calls |-> c.tool]
           part == [t \in T |-> Cardinality({c \in calls : key[c] = t})]
           row == [t \in T |-> LeaderboardRow(calls, t)]
           h == [r \in R |-> r.calls]
<1>1. key \in [calls -> T] /\ T = {key[c] : c \in calls}
  BY DEF ToolsOf
<1>2. IsFiniteSet(T)
  <2> HIDE DEF key, T
  <2>1. IsFiniteSet({key[c] : c \in calls})
    BY ImageIsFinite
  <2> QED BY <1>1, <2>1
<1>3. ASSUME NEW t \in T
      PROVE  /\ row[t].tool = t /\ row[t].calls = part[t]
             /\ row[t].calls \in Nat /\ row[t].errors \in Nat /\ row[t].errors <= row[t].calls
  <2> DEFINE own == CallsTo(calls, {t})  wrong == {c \in own : c.error}
  <2>1. row[t] = [tool |-> t, calls |-> Cardinality(own), errors |-> Cardinality(wrong)]
    BY DEF LeaderboardRow, Errors
  <2>2. own = {c \in calls : key[c] = t}
    BY DEF CallsTo
  <2>3. own \in SUBSET calls /\ wrong \in SUBSET own
    BY <2>2
  <2> HIDE DEF own, wrong
  <2>4. IsFiniteSet(own)
    BY <2>3, FS_Subset
  <2>5. Cardinality(own) \in Nat /\ Cardinality(wrong) \in Nat /\ Cardinality(wrong) <= Cardinality(own)
    BY <2>3, <2>4, CountApart
  <2> QED BY <2>1, <2>2, <2>5
<1>4. R = {row[t] : t \in T}
  BY DEF LeaderboardRows, ToolsOf
<1>5. h = [r \in R |-> h[r]] /\ part = [t \in T |-> Cardinality({c \in calls : key[c] = t})]
      /\ \A r \in R : h[r] = r.calls
  OBVIOUS
<1> HIDE DEF T, R, key, part, row, h
<1>6. IsFiniteSet(R)
  BY <1>2, <1>4, ImageIsFinite
<1>7. part \in [T -> Nat] /\ Sigma(part, T) = Cardinality(calls)
  <2>1. key \in [calls -> T] /\ part = [t \in T |-> Cardinality({c \in calls : key[c] = t})]
    BY <1>1, <1>5
  <2> QED BY <1>2, <2>1, CountByKey
<1>8. SumOver(h) = Sigma(part, T)
  <2>1. Paired(T, part, row, R, h)
    <3>1. \A t \in T : row[t] \in R /\ h[row[t]] = part[t]
      BY <1>3, <1>4, <1>5
    <3>2. \A t, u \in T : row[t] = row[u] => t = u
      BY <1>3
    <3>3. \A r \in R : \E t \in T : r = row[t]
      BY <1>4
    <3> QED BY <1>5, <3>1, <3>2, <3>3 DEF Paired
  <2>2. part \in [T -> Int]
    BY <1>7
  <2> QED BY <1>2, <2>1, <2>2, SumAlong
<1>9. \A r \in R : r.calls \in Nat /\ r.errors \in Nat /\ r.errors <= r.calls /\ r.tool \in T
  BY <1>3, <1>4
<1>10. \A t \in T : \E r \in R : r.tool = t
  BY <1>3, <1>4
<1> QED BY <1>6, <1>7, <1>8, <1>9, <1>10 DEF T, R, h

(* The calls of some sessions are finitely many.                             *)
LEMMA WindowCallsFit ==
  ASSUME NEW db, LocalFits(db), TurnsFit(db), NEW rows \in SUBSET db.sessions
  PROVE  IsFiniteSet(UNION {CallsOf(s) : s \in rows})
<1> DEFINE f == [s \in rows |-> CallsOf(s)]  U == {f[s] : s \in rows}
<1>1. IsFiniteSet(rows) /\ U = {CallsOf(s) : s \in rows}
  BY FS_Subset DEF LocalFits
<1>2. \A T \in U : IsFiniteSet(T)
  BY TurnsAreFinite
<1>3. IsFiniteSet(U)
  <2> HIDE DEF f
  <2> QED BY <1>1, ImageIsFinite
<1> HIDE DEF U
<1>4. IsFiniteSet(UNION U)
  BY <1>2, <1>3, FS_UNION
<1> QED BY <1>1, <1>4

(* A leaderboard of no more than ten tools leaves none out.                  *)
LEMMA BoardIsWhole ==
  ASSUME NEW db, LocalFits(db), TurnsFit(db), FewTools(db)
  PROVE  GetToolLeaderboard(db, 30, 10) = LeaderboardRows(WindowCalls(db, 30))
<1> DEFINE R == LeaderboardRows(WindowCalls(db, 30))  n == 10
           B == FirstRows(R, n, LAMBDA r : r.calls)
<1>1. IsFiniteSet(R) /\ (\A r \in R : r.calls \in Int) /\ n \in Nat /\ Cardinality(R) <= n
  <2>1. IsFiniteSet(WindowCalls(db, 30))
    BY DaysOfWindow, WindowCallsFit DEF WindowCalls, Recent
  <2>2. IsFiniteSet(R) /\ \A r \in R : r.calls \in Nat
    BY <2>1, BoardOfCalls
  <2> QED BY <2>2 DEF FewTools
<1>2. B = GetToolLeaderboard(db, 30, 10)
  BY DEF GetToolLeaderboard
<1>3. B \in SUBSET R /\ Cardinality(B) = Min({n, Cardinality(R)})
  <2> HIDE DEF R, n
  <2> QED BY <1>1, MostCalled
<1> HIDE DEF B, R, n
<1>4. B = R
  BY <1>1, <1>3, AllFirst
<1> QED BY <1>2, <1>4 DEF R

(* A rate is one of calls there are, of a week in which there are enough. *)
CallRow(r) == r.calls \in Nat /\ r.errors \in Nat
RateOfRow(r) == IF r.calls >= MIN_CALLS_PER_BUCKET THEN Clip(Ratio(r.errors, r.calls), 0, 1000) ELSE None

(* A rate is shown of tools called often enough, and is at most one.         *)
LEMMA RatesOfRows ==
  ASSUME NoneIsNoAnswer, NEW r, CallRow(r)
  PROVE  /\ RateOfRow(r) # None <=> r.calls >= MIN_CALLS_PER_BUCKET
         /\ RateOfRow(r) # None => RateOfRow(r) \in 0 .. 1000
<1>1. CASE r.calls >= MIN_CALLS_PER_BUCKET
  <2> DEFINE n == r.calls  e == r.errors  x == (1000 * e) \div n
  <2>1. n \in Nat /\ e \in Nat /\ n >= 5
    BY <1>1 DEF CallRow, MIN_CALLS_PER_BUCKET
  <2>2. x \in Int
    <3> HIDE DEF n, e
    <3> QED BY <2>1
  <2>3. Ratio(e, n) = x
    BY <2>1 DEF Ratio
  <2> HIDE DEF x, n, e
  <2>4. Clip(x, 0, 1000) \in 0 .. 1000
    BY <2>2 DEF Clip
  <2>5. RateOfRow(r) = Clip(x, 0, 1000)
    BY <1>1, <2>3 DEF RateOfRow, n, e
  <2>6. \A y \in 0 .. 1000 : y # None
    BY DEF NoneIsNoAnswer
  <2> QED BY <1>1, <2>4, <2>5, <2>6
<1>2. CASE ~(r.calls >= MIN_CALLS_PER_BUCKET)
  BY <1>2 DEF RateOfRow
<1> QED BY <1>1, <1>2

(* The tools and the weeks of a trend come from its rows, and a week is      *)
(* shown only if some tool was called often enough in it.                    *)
LEMMA TrendOfRows ==
  ASSUME NoneIsNoAnswer, NEW rows, IsFiniteSet(rows), \A r \in rows : CallRow(r)
  PROVE  LET trend == BuildTrend(rows, 2) IN
         /\ \A t \in trend.tools : \E r \in rows : r.tool = t
         /\ \A w \in DOMAIN trend.points :
              /\ \A p \in trend.points[w] : p.rate # None => p.rate \in 0 .. 1000
              /\ \E p \in trend.points[w] : p.rate # None
<1> DEFINE names == {r.tool : r \in rows}
           amount(t) == SumOver([r \in {x \in rows : x.tool = t} |-> r.calls])
           total == [t \in names |-> [tool |-> t, calls |-> amount(t)]]
           totals == {total[t] : t \in names}
           two == Max({1, 2})
           first == FirstRows(totals, two, LAMBDA r : r.calls)
           tools == {r.tool : r \in first}
           In(w) == {r \in rows : r.week = w /\ r.tool \in tools}
           weeks == {w \in {r.week : r \in rows} : \E r \in In(w) : r.calls >= MIN_CALLS_PER_BUCKET}
           points == [w \in weeks |-> {[tool |-> r.tool, rate |-> RateOfRow(r), calls |-> r.calls] : r \in In(w)}]
           trend == BuildTrend(rows, 2)
<1>1. trend.tools = tools /\ trend.points = points
  <2>1. totals = {[tool |-> t, calls |-> amount(t)] : t \in names}
    OBVIOUS
  <2> HIDE DEF totals
  <2>2. BuildTrend(rows, 2) = [tools |-> tools, points |-> points]
    BY <2>1 DEF BuildTrend, RateOfRow, Total
  <2> HIDE DEF tools, points
  <2> QED BY <2>2
<1>2. two = 2
  BY GreatestOf
<1>3. IsFiniteSet(names)
  <2> DEFINE g == [r \in rows |-> r.tool]
  <2>1. names = {g[r] : r \in rows}
    OBVIOUS
  <2> HIDE DEF g, names
  <2>2. IsFiniteSet({g[r] : r \in rows})
    BY ImageIsFinite
  <2> QED BY <2>1, <2>2
<1>4. \A t \in names : amount(t) \in Int
  <2>1. ASSUME NEW t PROVE amount(t) \in Int
    <3> DEFINE S == {x \in rows : x.tool = t}  h == [r \in S |-> r.calls]
    <3>1. S \in SUBSET rows /\ h = [r \in S |-> h[r]] /\ h \in [S -> Int] /\ S \in SUBSET S
      BY DEF CallRow
    <3>2. IsFiniteSet(S)
      <4> HIDE DEF S
      <4> QED BY <3>1, FS_Subset
    <3> HIDE DEF S, h
    <3>3. SumOver(h) = Sigma(h, S) /\ Sigma(h, S) \in Int
      BY <3>1, <3>2, SumOverIsSigma, SigmaTakes
    <3> QED BY <3>3 DEF S, h
  <2> HIDE DEF amount
  <2> QED BY <2>1
<1>5. first \in SUBSET totals
  <2>1. IsFiniteSet(totals)
    <3> HIDE DEF total, names
    <3> QED BY <1>3, ImageIsFinite
  <2>2. \A r \in totals : r.calls \in Int
    <3>1. \A t \in names : total[t].calls = amount(t)
      OBVIOUS
    <3> HIDE DEF amount, total, names
    <3> QED BY <1>4, <3>1
  <2> HIDE DEF totals, two
  <2>3. two \in Nat
    BY <1>2
  <2> QED BY <2>1, <2>2, <2>3, MostCalled
<1>6. \A t \in tools : \E r \in rows : r.tool = t
  <2>1. ASSUME NEW t \in tools PROVE t \in names
    <3>1. PICK r \in totals : r.tool = t
      <4> HIDE DEF first, totals
      <4> QED BY <1>5
    <3>2. PICK u \in names : r = total[u]
      BY <3>1
    <3>3. total[u].tool = u
      OBVIOUS
    <3> QED BY <3>1, <3>2, <3>3
  <2> HIDE DEF tools
  <2> QED BY <2>1
<1> HIDE DEF tools, trend
<1>7. ASSUME NEW w \in DOMAIN points
      PROVE  /\ \A p \in points[w] : p.rate # None => p.rate \in 0 .. 1000
             /\ \E p \in points[w] : p.rate # None
  <2>1. w \in weeks /\ points[w] = {[tool |-> r.tool, rate |-> RateOfRow(r), calls |-> r.calls] : r \in In(w)}
    OBVIOUS
  <2>2. \A r \in In(w) : CallRow(r)
    OBVIOUS
  <2>3. PICK r \in In(w) : r.calls >= MIN_CALLS_PER_BUCKET
    BY <2>1
  <2>4. [tool |-> r.tool, rate |-> RateOfRow(r), calls |-> r.calls] \in points[w]
    BY <2>1
  <2>5. RateOfRow(r) # None
    BY <2>2, <2>3, RatesOfRows
  <2>6. \A x \in In(w) : RateOfRow(x) # None => RateOfRow(x) \in 0 .. 1000
    BY <2>2, RatesOfRows
  <2> HIDE DEF In, points
  <2>7. \A p \in points[w] : \E x \in In(w) : p.rate = RateOfRow(x)
    BY <2>1
  <2> QED BY <2>4, <2>5, <2>6, <2>7
<1> HIDE DEF points
<1> QED BY <1>1, <1>6, <1>7 DEF trend

(* The same of the trend of a window.                                        *)
LEMMA TrendOfSessions ==
  ASSUME NEW db, LocalFits(db), TurnsFit(db), NoneIsNoAnswer
  PROVE  LET trend == GetToolErrorTrend(db, 30, 2) IN
         /\ \A t \in trend.tools : t \in ToolsOf(WindowCalls(db, 30))
         /\ \A w \in DOMAIN trend.points :
              /\ \A p \in trend.points[w] : p.rate # None => p.rate \in 0 .. 1000
              /\ \E p \in trend.points[w] : p.rate # None
<1> DEFINE rows == Recent(db)
           weeks == {WeekOf(s.startedAt) : s \in rows}
           week(w) == {r \in rows : WeekOf(r.startedAt) = w}
           Calls(w) == UNION {CallsOf(s) : s \in week(w)}
           Row(w, r) == [week |-> w, tool |-> r.tool, calls |-> r.calls, errors |-> r.errors]
           ofWeek == [w \in weeks |-> {Row(w, r) : r \in LeaderboardRows(Calls(w))}]
           all == UNION {ofWeek[w] : w \in weeks}
<1>1. GetToolErrorTrend(db, 30, 2) = BuildTrend(all, 2)
  <2>1. Clip(2, 1, 10) = 2
    BY DEF Clip
  <2>2. GetToolErrorTrend(db, 30, 2) = BuildTrend(UNION {{Row(w, r) : r \in LeaderboardRows(Calls(w))} : w \in weeks}, 2)
    BY <2>1 DEF GetToolErrorTrend, Recent
  <2>3. \A w \in weeks : ofWeek[w] = {Row(w, r) : r \in LeaderboardRows(Calls(w))}
    OBVIOUS
  <2> HIDE DEF ofWeek, Row, Calls, weeks
  <2>4. {{Row(w, r) : r \in LeaderboardRows(Calls(w))} : w \in weeks} = {ofWeek[w] : w \in weeks}
    BY <2>3
  <2> QED BY <2>2, <2>4
<1>2. rows \in SUBSET db.sessions /\ IsFiniteSet(rows)
  BY DaysOfWindow
<1>3. IsFiniteSet(weeks)
  <2> DEFINE g == [s \in rows |-> WeekOf(s.startedAt)]
  <2>1. weeks = {g[s] : s \in rows}
    OBVIOUS
  <2> HIDE DEF g, weeks, rows
  <2> QED BY <1>2, <2>1, ImageIsFinite
<1>4. ASSUME NEW w
      PROVE  /\ IsFiniteSet(Calls(w)) /\ Calls(w) \subseteq WindowCalls(db, 30)
             /\ IsFiniteSet({Row(w, r) : r \in LeaderboardRows(Calls(w))})
             /\ \A x \in {Row(w, r) : r \in LeaderboardRows(Calls(w))} :
                  CallRow(x) /\ x.tool \in ToolsOf(Calls(w))
  <2>1. week(w) \in SUBSET db.sessions
    BY <1>2
  <2>2. Calls(w) \subseteq WindowCalls(db, 30)
    BY DEF WindowCalls, Recent
  <2>3. IsFiniteSet(Calls(w))
    <3> HIDE DEF week
    <3> QED BY <2>1, WindowCallsFit
  <2> DEFINE R == LeaderboardRows(Calls(w))  g == [r \in R |-> Row(w, r)]
  <2>4. IsFiniteSet(R) /\ \A r \in R : r.calls \in Nat /\ r.errors \in Nat /\ r.tool \in ToolsOf(Calls(w))
    <3> HIDE DEF Calls
    <3> QED BY <2>3, BoardOfCalls
  <2>5. {Row(w, r) : r \in R} = {g[r] : r \in R}
    OBVIOUS
  <2> HIDE DEF Calls, R
  <2>6. \A x \in {Row(w, r) : r \in R} : CallRow(x) /\ x.tool \in ToolsOf(Calls(w))
    BY <2>4 DEF CallRow
  <2> HIDE DEF g, Row
  <2>7. IsFiniteSet({g[r] : r \in R})
    BY <2>4, ImageIsFinite
  <2> QED BY <2>2, <2>3, <2>5, <2>6, <2>7 DEF R
<1>5. \A w \in weeks : ofWeek[w] = {Row(w, r) : r \in LeaderboardRows(Calls(w))}
  OBVIOUS
<1> HIDE DEF rows, weeks, week, Calls, Row, ofWeek
<1>6. \A w \in weeks : /\ IsFiniteSet(ofWeek[w])
                       /\ \A x \in ofWeek[w] : CallRow(x) /\ x.tool \in ToolsOf(Calls(w))
  BY <1>4, <1>5
<1>7. IsFiniteSet(all)
  <2> DEFINE U == {ofWeek[w] : w \in weeks}
  <2>1. IsFiniteSet(U)
    BY <1>3, ImageIsFinite
  <2>2. \A T \in U : IsFiniteSet(T)
    BY <1>6
  <2> HIDE DEF U
  <2>3. IsFiniteSet(UNION U)
    BY <2>1, <2>2, FS_UNION
  <2> QED BY <2>3 DEF U
<1>8. \A x \in all : CallRow(x) /\ x.tool \in ToolsOf(WindowCalls(db, 30))
  <2>1. \A w : ToolsOf(Calls(w)) \subseteq ToolsOf(WindowCalls(db, 30))
    BY <1>4 DEF ToolsOf
  <2> QED BY <1>6, <2>1
<1> HIDE DEF all
<1> DEFINE trend == BuildTrend(all, 2)
<1>9. /\ \A t \in trend.tools : \E r \in all : r.tool = t
      /\ \A w \in DOMAIN trend.points :
           /\ \A p \in trend.points[w] : p.rate # None => p.rate \in 0 .. 1000
           /\ \E p \in trend.points[w] : p.rate # None
  BY <1>7, <1>8, TrendOfRows
<1> HIDE DEF trend
<1>10. GetToolErrorTrend(db, 30, 2) = trend
  BY <1>1 DEF trend
<1> QED BY <1>8, <1>9, <1>10

(* A tool of the trend is one of the leaderboard, its rates are at most one, *)
(* a week is shown only if some tool was called often enough in it, and the  *)
(* leaderboard of no more than ten tools holds every call                    *)
(* (effectiveness.ts).                                                       *)
THEOREM TrendsAreAlwaysRates ==
  ASSUME NEW db, LocalFits(db), TurnsFit(db), FewTools(db), NoneIsNoAnswer
  PROVE  TrendsAreRates(db)
<1> DEFINE calls == WindowCalls(db, 30)  R == LeaderboardRows(calls)
           trend == GetToolErrorTrend(db, 30, 2)  board == GetToolLeaderboard(db, 30, 10)
<1>1. IsFiniteSet(calls)
  BY DaysOfWindow, WindowCallsFit DEF WindowCalls, Recent
<1>2. /\ \A r \in R : r.errors <= r.calls
      /\ \A t \in ToolsOf(calls) : \E r \in R : r.tool = t
      /\ SumOver([r \in R |-> r.calls]) = Cardinality(calls)
  <2> HIDE DEF calls
  <2> QED BY <1>1, BoardOfCalls
<1>3. board = R
  BY BoardIsWhole
<1>4. /\ \A t \in trend.tools : t \in ToolsOf(calls)
      /\ \A w \in DOMAIN trend.points :
           /\ \A p \in trend.points[w] : p.rate # None => p.rate \in 0 .. 1000
           /\ \E p \in trend.points[w] : p.rate # None
  BY TrendOfSessions
<1>5. TrendsAreRates(db) <=>
        /\ \A t \in trend.tools : \E r \in board : r.tool = t
        /\ \A w \in DOMAIN trend.points :
             /\ \A p \in trend.points[w] : p.rate # None => p.rate \in 0 .. 1000
             /\ \E p \in trend.points[w] : p.rate # None
        /\ \A r \in board : r.errors <= r.calls
        /\ Cardinality(calls) = SumOver([r \in board |-> r.calls])
  BY DEF TrendsAreRates, Total
<1> HIDE DEF calls, R, trend, board
<1> QED BY <1>2, <1>3, <1>4, <1>5

(* Whatever the number of sessions and the size of a page, the link to a page  *)
(* shows the items it numbers, but past MAX_OFFSET, where it leads back to the *)
(* first (computePagination, pagination.ts).                                *)
THEOREM LinksAlwaysReachAll ==
  ASSUME NEW total \in Nat \ {0}, NEW pageSize \in Nat \ {0}
  PROVE  LinksReachAll(total, pageSize)
<1> SUFFICES ASSUME NEW n \in 0 .. (total - 1) \div pageSize
             PROVE  ComputePagination(n * pageSize, total, pageSize).rangeStart
                      = (IF n * pageSize <= MaxOffset THEN n * pageSize ELSE 0) + 1
  BY DEF LinksReachAll
<1>1. n * pageSize \in Nat /\ n * pageSize < total
  <2> DEFINE q == (total - 1) \div pageSize
  <2>1. q \in Nat /\ q * pageSize <= total - 1
    OBVIOUS
  <2>2. n * pageSize <= q * pageSize
    BY <2>1
  <2> QED BY <2>1, <2>2
<1> DEFINE offset == IF n * pageSize <= MaxOffset THEN n * pageSize ELSE 0
<1>2. offset = (IF n * pageSize \in 0 .. MaxOffset THEN n * pageSize ELSE 0) /\ offset < total
  BY <1>1 DEF MaxOffset
<1> HIDE DEF offset
<1>3. ComputePagination(n * pageSize, total, pageSize).rangeStart = offset + 1
  BY <1>2 DEF ComputePagination
<1> QED BY <1>3 DEF offset

(* For any limits and instants: two tabs of the quota card that save one after *)
(* the other keep both calibrations, and the limit the second had seen        *)
(* (saveThreshold and saveCalibration, quota-token-card.tsx).               *)
THEOREM SavesAlwaysKeepTheRest ==
  ASSUME NEW Limits, NEW Moments,
         NEW settings \in [limit5h : Limits, limit7d : Limits, reset5h : Moments, reset7d : Moments],
         NEW rendered \in [limit5h : Limits, limit7d : Limits, reset5h : Moments, reset7d : Moments],
         NEW window \in {"5h", "7d"}, NEW value \in Limits, NEW at \in Moments
  PROVE  SavesKeepTheRest(settings, rendered, window, value, at)
<1> DEFINE saved == SaveThreshold(settings, rendered, window, value)
           other == IF window = "5h" THEN "7d" ELSE "5h"
           once == SaveCalibration(saved, window, at)
           both == SaveCalibration(once, other, at)
<1>1. /\ saved \in [limit5h : Limits, limit7d : Limits, reset5h : Moments, reset7d : Moments]
      /\ saved.reset5h = settings.reset5h /\ saved.reset7d = settings.reset7d
  BY DEF SaveThreshold, ExecuteQuotaSettingsUpdate
<1>2. rendered = settings /\ TokenField(value) =>
          IF window = "5h" THEN saved.limit7d = settings.limit7d ELSE saved.limit5h = settings.limit5h
  BY DEF SaveThreshold, ExecuteQuotaSettingsUpdate
<1> HIDE DEF saved
<1>3. once \in [limit5h : Limits, limit7d : Limits, reset5h : Moments, reset7d : Moments]
        /\ (IF window = "5h" THEN once.reset5h = at ELSE once.reset7d = at)
        /\ once.limit5h = saved.limit5h /\ once.limit7d = saved.limit7d
  BY <1>1 DEF SaveCalibration, ExecuteQuota5hResetCalibrationUpdate,
          ExecuteQuota7dResetCalibrationUpdate
<1> HIDE DEF once
<1>4. both.reset5h = at /\ both.reset7d = at
        /\ both.limit5h = saved.limit5h /\ both.limit7d = saved.limit7d
  BY <1>3 DEF SaveCalibration, ExecuteQuota5hResetCalibrationUpdate,
          ExecuteQuota7dResetCalibrationUpdate
<1> QED BY <1>1, <1>2, <1>4 DEF SavesKeepTheRest, once, saved

-----------------------------------------------------------------------------
(* What a turn costs before the tier and the rounding. *)
RawCost(t, price) ==
  t.input * price.input + t.output * price.output + t.read * price.read
    + t.write5m * price.write5m + t.write1h * price.write1h
Price == [input : Nat, output : Nat, read : Nat, write5m : Nat, write1h : Nat]

(* What a turn of a known model costs before the rounding is a natural       *)
(* number.                                                                   *)
LEMMA RawCostNat ==
  ASSUME NEW t \in [model : STRING, input : Nat, output : Nat, read : Nat, write5m : Nat, write1h : Nat,
                    write : Nat, tier : {"standard", "batch"}],
         GetPricing(t.model) # None
  PROVE  RawCost(t, GetPricing(t.model)) \in Nat
<1>1. {Opus, Sonnet, Haiku, Claude5} \subseteq Price
  BY DEF Opus, Sonnet, Haiku, Claude5, Price
<1>2. GetPricing(t.model) \in Price
  BY <1>1 DEF GetPricing, FamilyPricing
<1>3. ASSUME NEW p \in Price PROVE RawCost(t, p) \in Nat
  <2>1. \A m, n \in Nat : m * n \in Nat
    OBVIOUS
  <2>2. /\ t.input * p.input \in Nat /\ t.output * p.output \in Nat /\ t.read * p.read \in Nat
        /\ t.write5m * p.write5m \in Nat /\ t.write1h * p.write1h \in Nat
    BY <2>1 DEF Price
  <2> QED BY <2>2 DEF RawCost
<1> QED BY <1>2, <1>3

(* Half of a cost, rounded, is half of the rounded cost but for one.         *)
LEMMA HalfRounded ==
  ASSUME NEW raw \in Nat
  PROVE  Rounded(raw) - 2 * Rounded(raw \div 2) \in -1 .. 1
BY DEF Rounded

(* For any counts of tokens: recomputing the cost of a turn gives what its      *)
(* ingestion wrote, or twice that for the batch tier (recomputeTurnsDefault,  *)
(* recompute-costs.ts; writeSession).                                       *)
THEOREM RepairAlwaysMatchesIngest ==
  ASSUME NEW usage \in Usage, NoneIsNoAnswer
  PROVE  RepairMatchesIngest(usage)
<1> DEFINE t == TurnOf(usage)
           price == GetPricing(t.model)
           raw == RawCost(t, price)
           kept == [t EXCEPT !.write = None]
           split == t.write5m > 0 \/ t.write1h > 0
           repaired == [t EXCEPT !.tier = "standard", !.write = IF split THEN None ELSE @,
                           !.write5m = IF split THEN @ ELSE None,
                           !.write1h = IF split THEN @ ELSE None]
<1>0. None \notin Nat
  BY DEF NoneIsNoAnswer
<1>1. t \in [model : STRING, input : Nat, output : Nat, read : Nat, write5m : Nat, write1h : Nat,
             write : Nat, tier : {"standard", "batch"}]
        /\ t.write = t.write5m + t.write1h /\ t.tier = usage.tier
  <2>1. ParsedWrites(usage) \in CacheWriteSplit
    BY <1>0 DEF Usage, CacheWriteSplit, ParsedWrites
  <2> QED BY <1>0, <2>1 DEF TurnOf, Usage, CacheWriteSplit
<1> HIDE DEF t
<1>2. price # None => raw \in Nat
  BY <1>1, RawCostNat
<1>3. CacheWrites(kept) = [short |-> t.write5m, long |-> t.write1h]
  BY <1>0, <1>1 DEF CacheWrites
<1>4. CacheWrites(repaired) = [short |-> t.write5m, long |-> t.write1h]
  <2>1. CASE split
    BY <1>0, <1>1, <2>1 DEF CacheWrites
  <2>2. CASE ~split
    <3>1. t.write5m = 0 /\ t.write1h = 0 /\ t.write = 0
      BY <1>1, <2>2
    <3> QED BY <1>0, <1>1, <2>2, <3>1 DEF CacheWrites
  <2> QED BY <2>1, <2>2
<1>5. ComputeCost(kept) = IF price = None THEN 0
                          ELSE Rounded(IF t.tier = "batch" THEN raw \div 2 ELSE raw)
  BY <1>1, <1>3 DEF ComputeCost, RawCost
<1>6. ComputeCost(repaired) = IF price = None THEN 0 ELSE Rounded(raw)
  BY <1>1, <1>4 DEF ComputeCost, RawCost
<1> HIDE DEF kept, repaired, price, raw
<1>7. IngestedCost(t) = ComputeCost(kept) /\ RepairedCost(t) = ComputeCost(repaired)
  BY DEF IngestedCost, RepairedCost, kept, repaired
<1>8. price # None => Rounded(raw) - 2 * Rounded(raw \div 2) \in -1 .. 1
  BY <1>2, HalfRounded
<1>9. IF usage.tier = "batch" THEN RepairedCost(t) - 2 * IngestedCost(t) \in -1 .. 1
                              ELSE RepairedCost(t) = IngestedCost(t)
  <2>1. CASE price = None
    BY <1>5, <1>6, <1>7, <2>1
  <2>2. CASE price # None /\ usage.tier = "batch"
    BY <1>1, <1>5, <1>6, <1>7, <1>8, <2>2
  <2>3. CASE price # None /\ usage.tier # "batch"
    BY <1>1, <1>5, <1>6, <1>7, <2>3
  <2> QED BY <2>1, <2>2, <2>3
<1> QED BY <1>9 DEF RepairMatchesIngest, t

-----------------------------------------------------------------------------
(* Instants that have been have a last one, and a first.                     *)
LEMMA LastInstant ==
  ASSUME NEW present \in Nat, NEW T \in SUBSET (0 .. present), T # {}
  PROVE  Max(T) \in T /\ \A y \in T : y <= Max(T)
<1>1. PICK x \in {present - t : t \in T} : \A y \in {present - t : t \in T} : x <= y
  <2>1. \A t \in T : present - t \in Nat
    OBVIOUS
  <2>2. {present - t : t \in T} \in SUBSET Nat /\ {present - t : t \in T} # {}
    BY <2>1
  <2> QED BY <2>2, LeastNumber
<1>2. PICK t \in T : x = present - t
  OBVIOUS
<1>3. ASSUME NEW y \in T PROVE t >= y
  <2>1. present - y \in {present - u : u \in T}
    OBVIOUS
  <2>2. present - t <= present - y
    BY <1>1, <1>2, <2>1
  <2> QED BY <2>2
<1> QED BY <1>3 DEF Max

(* The first of some instants.                                               *)
LEMMA EarliestInstant ==
  ASSUME NEW T \in SUBSET Nat, T # {}
  PROVE  Min(T) \in T /\ \A y \in T : Min(T) <= y
<1>1. PICK x \in T : \A y \in T : x <= y
  BY LeastNumber
<1> QED BY <1>1 DEF Min

(* The blocks of a set of instants are well defined: they are found from the    *)
(* first instant on.                                                         *)
AreBlocks(B, times) == B = {t \in times : ~\E b \in B : b < t /\ t < b + WINDOW_5H}
TurnsBefore(times, n) == {t \in times : t < n}

(* The blocks of the turns before an instant give those of the turns up to   *)
(* it.                                                                       *)
LEMMA OneMoreBlock ==
  ASSUME NEW times \in SUBSET Nat, NEW n \in Nat,
         NEW B \in SUBSET TurnsBefore(times, n), AreBlocks(B, TurnsBefore(times, n))
  PROVE  \E C \in SUBSET TurnsBefore(times, n + 1) : AreBlocks(C, TurnsBefore(times, n + 1))
<1> USE DEF WINDOW_5H
<1>1. TurnsBefore(times, n + 1) = TurnsBefore(times, n) \cup (times \cap {n})
  <2>1. \A t \in times : t \in Nat /\ (t < n + 1 <=> t < n \/ t = n)
    OBVIOUS
  <2> QED BY <2>1 DEF TurnsBefore
<1>2. \A t \in TurnsBefore(times, n) : t \in Nat /\ t < n
  BY DEF TurnsBefore
<1>3. CASE n \notin times
  BY <1>1, <1>3
<1>4. CASE n \in times /\ \E b \in B : b < n /\ n < b + 5
  <2>1. AreBlocks(B, TurnsBefore(times, n + 1))
    BY <1>1, <1>2, <1>4 DEF AreBlocks
  <2> QED BY <1>1, <2>1
<1>5. CASE n \in times /\ ~\E b \in B : b < n /\ n < b + 5
  <2> DEFINE C == B \cup {n}
  <2>1. C \in SUBSET TurnsBefore(times, n + 1)
    BY <1>1, <1>5
  <2>2. \A t \in TurnsBefore(times, n) : (\E b \in C : b < t /\ t < b + 5) <=> (\E b \in B : b < t /\ t < b + 5)
    BY <1>2
  <2>3. ~\E b \in C : b < n /\ n < b + 5
    BY <1>5
  <2>4. AreBlocks(C, TurnsBefore(times, n + 1))
    BY <1>1, <1>2, <1>5, <2>2, <2>3 DEF AreBlocks
  <2> QED BY <2>1, <2>4
<1> QED BY <1>3, <1>4, <1>5

(* Whatever the turns, there are the blocks that quota.ts describes.         *)
LEMMA BlocksExist ==
  ASSUME NEW present \in Nat, NEW times \in SUBSET (0 .. present)
  PROVE  BlockStarts(times) \in SUBSET times /\ AreBlocks(BlockStarts(times), times)
<1> DEFINE Bad == {n \in Nat : ~\E B \in SUBSET TurnsBefore(times, n) : AreBlocks(B, TurnsBefore(times, n))}
<1>1. Bad = {}
  <2>1. SUFFICES ASSUME Bad # {} PROVE FALSE
    OBVIOUS
  <2>2. PICK n \in Bad : \A m \in Bad : n <= m
    BY <2>1, LeastNumber
  <2>3. 0 \notin Bad
    <3>1. TurnsBefore(times, 0) = {}
      <4>1. \A t \in times : ~(t < 0)
        OBVIOUS
      <4> QED BY <4>1 DEF TurnsBefore
    <3>2. AreBlocks({}, {})
      BY DEF AreBlocks
    <3> QED BY <3>1, <3>2
  <2>4. n - 1 \in Nat /\ n - 1 \notin Bad /\ (n - 1) + 1 = n
    BY <2>2, <2>3
  <2>5. PICK B \in SUBSET TurnsBefore(times, n - 1) : AreBlocks(B, TurnsBefore(times, n - 1))
    BY <2>4
  <2>6. \E C \in SUBSET TurnsBefore(times, (n - 1) + 1) : AreBlocks(C, TurnsBefore(times, (n - 1) + 1))
    <3> DEFINE m == n - 1
    <3>1. m \in Nat /\ B \in SUBSET TurnsBefore(times, m) /\ AreBlocks(B, TurnsBefore(times, m))
      BY <2>4, <2>5
    <3>2. times \in SUBSET Nat
      OBVIOUS
    <3> HIDE DEF m
    <3>3. \E C \in SUBSET TurnsBefore(times, m + 1) : AreBlocks(C, TurnsBefore(times, m + 1))
      BY <3>1, <3>2, OneMoreBlock
    <3> QED BY <3>3 DEF m
  <2> QED BY <2>2, <2>4, <2>6
<1>2. TurnsBefore(times, present + 1) = times
  <2>1. \A t \in times : t < present + 1
    OBVIOUS
  <2> QED BY <2>1 DEF TurnsBefore
<1>3. \E B \in SUBSET times : AreBlocks(B, times)
  <2>1. present + 1 \notin Bad
    BY <1>1
  <2> QED BY <1>2, <2>1
<1> QED BY <1>3 DEF BlockStarts, AreBlocks

(* The next of a series of instants a window apart is ahead, by a window at     *)
(* most.                                                                     *)
LEMMA NextIsAhead ==
  ASSUME NEW present \in Nat, NEW at \in 0 .. present, NEW window \in {WINDOW_5H, WINDOW_7D}
  PROVE  LET next == at + window * ((present - at) \div window + 1)
         IN next \in Nat /\ next > present /\ next <= present + window
<1>1. CASE window = 5
  BY <1>1 DEF WINDOW_5H
<1>2. CASE window = 168
  BY <1>2 DEF WINDOW_7D
<1> QED BY <1>1, <1>2 DEF WINDOW_5H, WINDOW_7D


(* A calibrated reset is ahead.                                              *)
LEMMA CalibratedIsAhead ==
  ASSUME NEW present \in Nat, NEW at \in Nat, NEW window \in {WINDOW_5H, WINDOW_7D}
  PROVE  NextReset(at, window, present) \in Nat /\ NextReset(at, window, present) > present
<1>1. CASE at > present
  BY <1>1 DEF NextReset
<1>2. CASE at <= present
  <2>1. at \in 0 .. present
    BY <1>2
  <2>2. NextReset(at, window, present) = at + window * ((present - at) \div window + 1)
    BY <1>2 DEF NextReset
  <2> QED BY <2>1, <2>2, NextIsAhead
<1> QED BY <1>1, <1>2

(* The estimate of the reset of a block. *)
LEMMA EstimateIsAhead ==
  ASSUME NEW present \in Nat, NEW times \in SUBSET (0 .. present), NoneIsNoAnswer
  PROVE  LET e == EstimateFrom(times, present)
             B == {b \in BlockStarts(times) : present < b + WINDOW_5H}
         IN /\ e \in {None} \cup Nat
            /\ e # None => e > present /\ e <= present + WINDOW_5H
            /\ \A b \in B :
                 /\ e # None
                 /\ e - (b + WINDOW_5H) \in 1 - WINDOW_5H .. WINDOW_5H - 1
                 /\ (~\E t \in times : t < b /\ b - t <= WINDOW_5H) => e = b + WINDOW_5H
<1> DEFINE e == EstimateFrom(times, present)
           Starts == {t \in times : ~\E u \in times : u < t /\ t - u <= 5}
           B == {b \in BlockStarts(times) : present < b + 5}
<1> USE DEF WINDOW_5H
<1>0. BlockStarts(times) \in SUBSET times /\ B \in SUBSET times
  BY BlocksExist
<1>1. CASE times = {}
  BY <1>0, <1>1 DEF EstimateFrom
<1>2. CASE times # {}
  <2>0. \A t \in times : t \in Nat /\ t <= present
    OBVIOUS
  <2> DEFINE last == Max(times \cup {0})
  <2>1. last \in Nat /\ \A t \in times : t <= last
    <3>1. times \cup {0} \in SUBSET (0 .. present) /\ times \cup {0} # {}
      OBVIOUS
    <3>2. last \in times \cup {0} /\ \A t \in times \cup {0} : t <= last
      BY <3>1, LastInstant
    <3> HIDE DEF last
    <3> QED BY <2>0, <3>2
  <2> HIDE DEF last
  <2>2. Starts \in SUBSET (0 .. present) /\ Starts # {}
    <3>1. PICK first \in times : \A t \in times : first <= t
      BY <1>2, <2>0, LeastNumber
    <3>2. first \in Starts
      BY <2>0, <3>1
    <3> QED BY <2>0, <3>2
  <2> DEFINE anchor == SessionAnchor(times)
             candidate == anchor + 5 * ((present - anchor) \div 5 + 1)
  <2>3. anchor \in Starts /\ \A t \in Starts : t <= anchor
    BY <2>2, LastInstant DEF SessionAnchor
  <2> HIDE DEF anchor
  <2>4. anchor \in 0 .. present /\ anchor \in times
    BY <2>3
  <2>5. candidate \in Nat /\ candidate > present /\ candidate <= present + 5
    BY <2>4, NextIsAhead
  <2>6. NextBoundary(anchor, present) = candidate
    <3>1. (present - anchor) \div 5 \in Nat
      BY <2>4
    <3> DEFINE k == (present - anchor) \div 5
    <3> HIDE DEF k
    <3>2. Max({0, k}) = k
      <4>1. k \in Nat
        BY <3>1 DEF k
      <4>2. Max({0, k}) \in {0, k} /\ \A y \in {0, k} : y <= Max({0, k})
        BY <4>1, LastInstant
      <4> QED BY <4>1, <4>2
    <3> QED BY <2>5, <3>2 DEF NextBoundary, k
  <2>7. e \in {None, candidate}
    BY <1>2, <2>6 DEF EstimateFrom, anchor
  <2> HIDE DEF candidate
  <2>8. ASSUME NEW b \in B
        PROVE  e = candidate /\ candidate - (b + 5) \in -4 .. 4
    <3>1. b \in times /\ b \in 0 .. present /\ present < b + 5
      BY <1>0
    <3>2. ~(present - last > 5)
      BY <2>1, <3>1
    <3>3. e = candidate
      BY <1>2, <2>6, <3>2 DEF EstimateFrom, anchor, last
    <3> QED BY <2>5, <3>1, <3>3
  <2>9. ASSUME NEW b \in B, ~\E t \in times : t < b /\ b - t <= 5
        PROVE  candidate = b + 5
    <3>1. b \in times /\ b \in 0 .. present /\ present < b + 5
      BY <1>0
    <3>2. b \in Starts
      BY <2>9, <3>1
    <3>3. anchor = b
      BY <2>3, <2>4, <3>1, <3>2
    <3>4. (present - b) \div 5 = 0
      BY <3>1
    <3> QED BY <3>1, <3>3, <3>4 DEF candidate
  <2>10. None \notin Nat
    BY DEF NoneIsNoAnswer
  <2> QED BY <2>5, <2>7, <2>8, <2>9, <2>10
<1> QED BY <1>1, <1>2

(* For any turns that have been and any settings: every reset shown is ahead    *)
(* and at most a window away; while a block runs there is an estimate, less    *)
(* than a block from its end (getQuotaResetEstimates, quota.ts).              *)
THEOREM ResetsAreAlwaysAhead ==
  ASSUME NEW db \in QuotaDb, \A x \in db.turns : x.at <= db.now, NoneIsNoAnswer
  PROVE  ResetsAreAhead(db)
<1> DEFINE cal == db.settings
           times == Times7d(db)
           r == QuotaPage(db)
<1>0. db.now \in Nat /\ cal.reset5h \in {None} \cup Nat /\ cal.reset7d \in {None} \cup Nat
  BY DEF QuotaDb
<1>1. /\ times \in SUBSET (0 .. db.now)
      /\ \A t \in times : t >= db.now - 168
  BY DEF QuotaDb, Times7d, TurnsSince, WINDOW_7D
<1>2. /\ r.card5h.reset = IF cal.reset5h # None THEN NextReset(cal.reset5h, WINDOW_5H, db.now)
                                               ELSE EstimateFrom(times, db.now)
      /\ r.card7d.reset = IF cal.reset7d # None THEN NextReset(cal.reset7d, WINDOW_7D, db.now)
                                               ELSE Estimate7d(db)
  BY DEF QuotaPage, CardsOf, CurrentCycle, CycleUntil, GetQuotaResetEstimates, Estimate5h
<1> HIDE DEF cal, r
<1>3. cal.reset5h # None => NextReset(cal.reset5h, WINDOW_5H, db.now) > db.now
  BY <1>0, CalibratedIsAhead
<1>4. cal.reset7d # None => NextReset(cal.reset7d, WINDOW_7D, db.now) > db.now
  BY <1>0, CalibratedIsAhead
<1>5. Estimate7d(db) # None => /\ Estimate7d(db) > db.now - 1
                               /\ Estimate7d(db) <= db.now + WINDOW_7D
  <2>1. times # {} => Min(times) \in times
    BY <1>1, EarliestInstant
  <2> QED BY <1>0, <1>1, <2>1 DEF Estimate7d, WINDOW_7D
<1> DEFINE e == EstimateFrom(times, db.now)
<1>6. /\ e # None => e > db.now /\ e <= db.now + WINDOW_5H
      /\ \A b \in {b \in BlockStarts(times) : b <= db.now /\ db.now < b + WINDOW_5H} :
           /\ e # None
           /\ e - (b + WINDOW_5H) \in 1 - WINDOW_5H .. WINDOW_5H - 1
           /\ (~\E t \in times : t < b /\ b - t <= WINDOW_5H) => e = b + WINDOW_5H
  BY <1>0, <1>1, EstimateIsAhead
<1> HIDE DEF e, times
<1>7. r.card5h.reset # None => r.card5h.reset > db.now
  BY <1>2, <1>3, <1>6 DEF e
<1>8. r.card7d.reset # None => r.card7d.reset > db.now - (IF cal.reset7d = None THEN 1 ELSE 0)
  BY <1>0, <1>2, <1>4, <1>5
<1>9. cal.reset5h = None =>
        /\ r.card5h.reset # None => r.card5h.reset <= db.now + WINDOW_5H
        /\ \A b \in {b \in BlockStarts(times) : b <= db.now /\ db.now < b + WINDOW_5H} :
             /\ r.card5h.reset # None
             /\ r.card5h.reset - (b + WINDOW_5H) \in 1 - WINDOW_5H .. WINDOW_5H - 1
             /\ (~\E t \in times : t < b /\ b - t <= WINDOW_5H)
                  => r.card5h.reset = b + WINDOW_5H
  BY <1>2, <1>6 DEF e
<1>10. cal.reset7d = None /\ r.card7d.reset # None => r.card7d.reset <= db.now + WINDOW_7D
  BY <1>2, <1>5
<1> QED BY <1>7, <1>8, <1>9, <1>10 DEF ResetsAreAhead, r, cal, times

(* A bar is red from nine tenths of its limit on, and never longer than its    *)
(* place.                                                                    *)
BarIsSound(used, limit) ==
  /\ (QuotaBand(QuotaPct(used, limit)) = "red") = (10 * used >= 9 * limit)
  /\ ComputeFillPct(QuotaPct(used, limit)) \in 0 .. 1000

(* A bar is red from nine tenths on, and never fuller than full.             *)
LEMMA BandOfUsage ==
  ASSUME NEW used \in Nat, NEW limit \in Nat \ {0} PROVE BarIsSound(used, limit)
<1> DEFINE q == (1000 * used) \div limit
<1>1. q \in Nat /\ (q >= 900 <=> 1000 * used >= 900 * limit)
  <2> DEFINE a == 1000 * used
  <2>1. a \in Nat
    OBVIOUS
  <2> HIDE DEF a
  <2>2. a \div limit \in Nat /\ (a \div limit >= 900 <=> a >= 900 * limit)
    BY <2>1
  <2> QED BY <2>2 DEF a
<1>2. QuotaPct(used, limit) = q
  BY DEF QuotaPct
<1>3. 1000 * used >= 900 * limit <=> 10 * used >= 9 * limit
  OBVIOUS
<1> HIDE DEF q
<1>4. QuotaBand(q) = "red" <=> q >= 900
  BY <1>1 DEF QuotaBand
<1>5. Max({0, q}) = q
  BY <1>1, GreatestOf
<1>6. Min({1000, q}) = IF 1000 <= q THEN 1000 ELSE q
  BY <1>1, LeastAmong
<1>7. Min({1000, q}) \in 0 .. 1000
  BY <1>1, <1>6
<1>8. QuotaBand(QuotaPct(used, limit)) = "red" <=> 10 * used >= 9 * limit
  BY <1>1, <1>2, <1>3, <1>4
<1>9. ComputeFillPct(QuotaPct(used, limit)) \in 0 .. 1000
  <2>1. ComputeFillPct(q) = Min({1000, q})
    BY <1>5 DEF ComputeFillPct
  <2> QED BY <1>2, <1>7, <2>1
<1>10. (QuotaBand(QuotaPct(used, limit)) = "red") = (10 * used >= 9 * limit)
  <2> DEFINE red == QuotaBand(QuotaPct(used, limit)) = "red"  most == 10 * used >= 9 * limit
  <2>1. red \in BOOLEAN /\ most \in BOOLEAN /\ (red <=> most)
    BY <1>8
  <2> HIDE DEF red, most
  <2>2. red = most
    BY <2>1
  <2> QED BY <2>2 DEF red, most
<1> QED BY <1>9, <1>10 DEF BarIsSound

TokensIn(S) == SumOver([x \in S |-> x.tokens])

(* The tokens of some turns are a natural number.                            *)
LEMMA TokensAreCounted ==
  ASSUME NEW db \in QuotaDb, IsFiniteSet(db.turns), NEW S \in SUBSET db.turns
  PROVE  TokensIn(S) \in Nat /\ TokensIn({}) = 0
<1> DEFINE f == [x \in S |-> x.tokens]  g == [x \in {} |-> x.tokens]
<1>1. IsFiniteSet(S) /\ f \in [S -> Int] /\ \A x \in S : f[x] >= 0
  BY FS_Subset DEF QuotaDb
<1>2. IsFiniteSet({}) /\ g \in [{} -> Int]
  BY FS_EmptySet
<1>3. f = [x \in S |-> f[x]] /\ g = [x \in {} |-> g[x]]
  OBVIOUS
<1>4. TokensIn(S) = SumOver(f) /\ TokensIn({}) = SumOver(g)
  BY DEF TokensIn
<1> HIDE DEF f, g
<1>5. SumOver(f) = Sigma(f, S) /\ SumOver(g) = Sigma(g, {})
  BY <1>3, SumOverIsSigma
<1>6. Sigma(f, S) \in Int
  BY <1>1, SigmaTakes
<1>7. Sigma(f, S) >= 0
  BY <1>1, SigmaGrows
<1>8. Sigma(g, {}) = 0
  BY <1>2, SigmaTakes
<1> QED BY <1>4, <1>5, <1>6, <1>7, <1>8

(* The resets a page shows are instants, or none. *)
LEMMA ResetsAreInstants ==
  ASSUME NEW db \in QuotaDb, \A x \in db.turns : x.at <= db.now, NoneIsNoAnswer
  PROVE  LET r == CurrentCycle(db).resets IN
         /\ r.reset5h \in {None} \cup Nat /\ r.reset7d \in {None} \cup Nat
         /\ db.settings.reset5h # None => r.reset5h = NextReset(db.settings.reset5h, WINDOW_5H, db.now)
<1> DEFINE cal == db.settings  times == Times7d(db)
<1>0. db.now \in Nat /\ cal.reset5h \in {None} \cup Nat /\ cal.reset7d \in {None} \cup Nat
  BY DEF QuotaDb
<1>1. times \in SUBSET (0 .. db.now)
  BY DEF QuotaDb, Times7d, TurnsSince
<1>2. CurrentCycle(db).resets = GetQuotaResetEstimates(db, cal.reset5h, cal.reset7d)
  BY DEF CurrentCycle, CycleUntil
<1> DEFINE r == GetQuotaResetEstimates(db, cal.reset5h, cal.reset7d)
<1>3. /\ r.reset5h = IF cal.reset5h # None THEN NextReset(cal.reset5h, WINDOW_5H, db.now)
                                           ELSE EstimateFrom(times, db.now)
      /\ r.reset7d = IF cal.reset7d # None THEN NextReset(cal.reset7d, WINDOW_7D, db.now)
                                           ELSE Estimate7d(db)
  BY DEF GetQuotaResetEstimates, Estimate5h
<1> HIDE DEF cal, r
<1>4. cal.reset5h # None => NextReset(cal.reset5h, WINDOW_5H, db.now) \in Nat
  BY <1>0, CalibratedIsAhead
<1>5. cal.reset7d # None => NextReset(cal.reset7d, WINDOW_7D, db.now) \in Nat
  BY <1>0, CalibratedIsAhead
<1>6. EstimateFrom(times, db.now) \in {None} \cup Nat
  BY <1>0, <1>1, EstimateIsAhead
<1>7. Estimate7d(db) \in {None} \cup Nat
  <2>1. times # {} => Min(times) \in times
    BY <1>1, EarliestInstant
  <2> QED BY <1>0, <1>1, <2>1 DEF Estimate7d, WINDOW_7D
<1> HIDE DEF times
<1>8. r.reset5h \in {None} \cup Nat
  BY <1>3, <1>4, <1>6
<1>9. r.reset7d \in {None} \cup Nat
  BY <1>3, <1>5, <1>7
<1> QED BY <1>2, <1>3, <1>8, <1>9 DEF r, cal

(* For any turns that have been and any settings: a card says what its cycle   *)
(* holds, none when the reset that was entered is too far ahead, and the bar  *)
(* of the layout says what the card does (getQuotaUsage, quota.ts).          *)
THEOREM UsageIsAlwaysOfCycle ==
  ASSUME NEW db \in QuotaDb, IsFiniteSet(db.turns), \A x \in db.turns : x.at <= db.now, NoneIsNoAnswer
  PROVE  UsageIsOfCycle(db)
<1> DEFINE c == CurrentCycle(db)  r == QuotaPage(db)  cal == db.settings
           Since5h == TurnsSince(db, IF c.resets.reset5h = None THEN db.now - 5 ELSE c.resets.reset5h - 5)
           Since7d == TurnsSince(db, IF c.resets.reset7d = None THEN db.now - 168 ELSE c.resets.reset7d - 168)
           Within(reset, window) == {x \in db.turns : reset - x.at <= window}
<1>1. /\ db.now \in Nat /\ cal.limit5h \in {None} \cup (Nat \ {0}) /\ cal.limit7d \in {None} \cup (Nat \ {0})
      /\ cal.reset5h \in {None} \cup Nat /\ \A x \in db.turns : x.at \in Nat
  BY DEF QuotaDb
<1>2. /\ c.resets.reset5h \in {None} \cup Nat /\ c.resets.reset7d \in {None} \cup Nat
      /\ cal.reset5h # None => c.resets.reset5h = NextReset(cal.reset5h, WINDOW_5H, db.now)
  BY ResetsAreInstants
<1>3. None \notin Int
  BY DEF NoneIsNoAnswer
<1>4. /\ c.usage.tokens5h = TokensIn(Since5h) /\ c.usage.tokens7d = TokensIn(Since7d)
  <2>1. c.usage = GetQuotaUsage(db, IF c.resets.reset5h = None THEN None ELSE c.resets.reset5h - WINDOW_5H,
                                    IF c.resets.reset7d = None THEN None ELSE c.resets.reset7d - WINDOW_7D)
    BY DEF CurrentCycle, CycleUntil
  <2> HIDE DEF c
  <2>2. \A x \in Nat : x - 5 # None /\ x - 168 # None
    BY <1>3
  <2>3. c.resets.reset5h # None => c.resets.reset5h - 5 # None
    BY <1>2, <2>2
  <2>4. c.resets.reset7d # None => c.resets.reset7d - 168 # None
    BY <1>2, <2>2
  <2>5. c.usage.tokens5h = TokensIn(Since5h)
    BY <2>1, <2>3 DEF GetQuotaUsage, Total, TokensIn, WINDOW_5H, WINDOW_7D
  <2>6. c.usage.tokens7d = TokensIn(Since7d)
    BY <2>1, <2>4 DEF GetQuotaUsage, Total, TokensIn, WINDOW_5H, WINDOW_7D
  <2> QED BY <2>5, <2>6
<1>5. /\ r.card5h = [used |-> c.usage.tokens5h, limit |-> cal.limit5h, reset |-> c.resets.reset5h,
                     line |-> ResetLine(c.resets.reset5h, cal.limit5h)]
      /\ r.card7d = [used |-> c.usage.tokens7d, limit |-> cal.limit7d, reset |-> c.resets.reset7d,
                     line |-> ResetLine(c.resets.reset7d, cal.limit7d)]
  BY DEF QuotaPage, CardsOf
<1>6. c.usage.tokens5h \in Nat /\ c.usage.tokens7d \in Nat
  <2>1. Since5h \in SUBSET db.turns /\ Since7d \in SUBSET db.turns
    BY DEF TurnsSince
  <2> HIDE DEF Since5h, Since7d
  <2> QED BY <1>4, <2>1, TokensAreCounted
<1>7. \A bar \in QuotaNavWidget(db) :
        \/ bar.window = "5h" /\ cal.limit5h # None /\ bar.used = c.usage.tokens5h /\ bar.limit = cal.limit5h
        \/ bar.window = "7d" /\ cal.limit7d # None /\ bar.used = c.usage.tokens7d /\ bar.limit = cal.limit7d
  BY DEF QuotaNavWidget, BarsOf
<1> HIDE DEF c, r, cal
<1>8. c.resets.reset5h # None => Since5h = Within(c.resets.reset5h, 5)
  <2>1. ASSUME NEW t \in Nat PROVE TurnsSince(db, t - 5) = Within(t, 5)
    BY <1>1 DEF TurnsSince
  <2> QED BY <1>2, <2>1
<1>9. c.resets.reset7d # None => Since7d = Within(c.resets.reset7d, 168)
  <2>1. ASSUME NEW t \in Nat PROVE TurnsSince(db, t - 168) = Within(t, 168)
    BY <1>1 DEF TurnsSince
  <2> QED BY <1>2, <2>1
<1>10. ASSUME cal.reset5h # None, cal.reset5h - 5 > db.now PROVE c.usage.tokens5h = 0
  <2>1. cal.reset5h \in Nat
    BY <1>1, <1>10
  <2>2. c.resets.reset5h = cal.reset5h
    BY <1>1, <1>2, <1>10, <2>1 DEF NextReset
  <2>3. Since5h = {}
    BY <1>1, <1>3, <1>10, <2>1, <2>2 DEF TurnsSince
  <2>4. TokensIn({}) = 0
    <3>1. {} \in SUBSET db.turns
      OBVIOUS
    <3> QED BY <3>1, TokensAreCounted
  <2> QED BY <1>4, <2>3, <2>4
<1>11. /\ c.resets.reset5h # None => c.usage.tokens5h = TokensIn(Within(c.resets.reset5h, WINDOW_5H))
       /\ c.resets.reset7d # None => c.usage.tokens7d = TokensIn(Within(c.resets.reset7d, WINDOW_7D))
  <2> HIDE DEF Since5h, Since7d, Within
  <2>1. c.resets.reset5h # None => c.usage.tokens5h = TokensIn(Within(c.resets.reset5h, 5))
    BY <1>4, <1>8
  <2>2. c.resets.reset7d # None => c.usage.tokens7d = TokensIn(Within(c.resets.reset7d, 168))
    BY <1>4, <1>9
  <2>3. WINDOW_5H = 5 /\ WINDOW_7D = 168
    BY DEF WINDOW_5H, WINDOW_7D
  <2> QED BY <2>1, <2>2, <2>3
<1>12. ASSUME NEW bar \in QuotaNavWidget(db)
       PROVE  LET card == IF bar.window = "5h" THEN r.card5h ELSE r.card7d IN
              /\ bar.used = card.used /\ bar.limit = card.limit
              /\ (QuotaBand(QuotaPct(bar.used, bar.limit)) = "red") = (10 * bar.used >= 9 * bar.limit)
              /\ ComputeFillPct(QuotaPct(bar.used, bar.limit)) \in 0 .. 1000
  <2>1. bar.used \in Nat /\ bar.limit \in Nat \ {0}
    BY <1>1, <1>6, <1>7
  <2>2. /\ (QuotaBand(QuotaPct(bar.used, bar.limit)) = "red") = (10 * bar.used >= 9 * bar.limit)
        /\ ComputeFillPct(QuotaPct(bar.used, bar.limit)) \in 0 .. 1000
    <3>1. BarIsSound(bar.used, bar.limit)
      BY <2>1, BandOfUsage
    <3> QED BY <3>1 DEF BarIsSound
  <2>3. LET card == IF bar.window = "5h" THEN r.card5h ELSE r.card7d IN
        bar.used = card.used /\ bar.limit = card.limit
    BY <1>5, <1>7
  <2> QED BY <2>2, <2>3
<1>13. r.card5h.reset = None /\ cal.limit5h # None => r.card5h.line = "idle"
  BY <1>5 DEF ResetLine
<1>14. /\ r.card5h.used = c.usage.tokens5h /\ r.card5h.reset = c.resets.reset5h
       /\ r.card7d.used = c.usage.tokens7d /\ r.card7d.reset = c.resets.reset7d
  BY <1>5
<1>15. UsageIsOfCycle(db) <=>
         /\ cal.reset5h # None /\ cal.reset5h - WINDOW_5H > db.now => r.card5h.used = 0
         /\ r.card5h.reset # None => r.card5h.used = TokensIn(Within(r.card5h.reset, WINDOW_5H))
         /\ r.card7d.reset # None => r.card7d.used = TokensIn(Within(r.card7d.reset, WINDOW_7D))
         /\ r.card5h.reset = None /\ cal.limit5h # None => r.card5h.line = "idle"
         /\ \A bar \in QuotaNavWidget(db) :
              LET card == IF bar.window = "5h" THEN r.card5h ELSE r.card7d IN
              /\ bar.used = card.used /\ bar.limit = card.limit
              /\ (QuotaBand(QuotaPct(bar.used, bar.limit)) = "red") = (10 * bar.used >= 9 * bar.limit)
              /\ ComputeFillPct(QuotaPct(bar.used, bar.limit)) \in 0 .. 1000
  BY DEF UsageIsOfCycle, Total, TokensIn, r, cal
<1> HIDE DEF Within
<1> QED BY <1>10, <1>11, <1>12, <1>13, <1>14, <1>15 DEF WINDOW_5H

-----------------------------------------------------------------------------
(* The weeks of the quota (quota.ts, quota-heatmap.tsx, quota-weekly-bars).  *)

(* A sum key by key, over the keys that have any.                           *)
Positive(f, A, key) == {w \in {key[x] : x \in A} : Sigma(f, {x \in A : key[x] = w}) > 0}

(* Of sums by key of numbers that are not negative, those that are nought    *)
(* may be left out.                                                          *)
LEMMA PositiveKeys ==
  ASSUME NEW D, IsFiniteSet(D), NEW f \in [D -> Int], \A x \in D : f[x] >= 0, NEW A \in SUBSET D, NEW key
  PROVE  LET some == Positive(f, A, key) IN
         /\ IsFiniteSet(some) /\ KeySums(f, A, key, some) \in [some -> Nat]
         /\ \A w \in some : KeySums(f, A, key, some)[w] > 0
         /\ SumOver(KeySums(f, A, key, some)) = Sigma(f, A)
<1> DEFINE all == {key[x] : x \in A}  k == [x \in A |-> key[x]]
           some == Positive(f, A, key)
<1>1. \A w : {x \in A : k[x] = w} = {x \in A : key[x] = w}
  OBVIOUS
<1>2. IsFiniteSet(A) /\ k \in [A -> all]
  BY FS_Subset
<1>3. IsFiniteSet(all)
  <2> HIDE DEF all
  <2>1. IsFiniteSet({key[x] : x \in A})
    BY <1>2, ImageIsFinite
  <2> QED BY <2>1 DEF all
<1> HIDE DEF k
<1>4. some \in SUBSET all /\ \A w \in all \ some : ~(Sigma(f, {x \in A : key[x] = w}) > 0)
  BY DEF Positive
<1>5. ASSUME NEW w PROVE Sigma(f, {x \in A : key[x] = w}) \in Nat
  <2> DEFINE S == {x \in A : key[x] = w}
  <2>1. S \in SUBSET D /\ S \in SUBSET S /\ \A x \in S : f[x] >= 0
    OBVIOUS
  <2> HIDE DEF S
  <2>2. 0 <= Sigma(f, S) /\ Sigma(f, S) \in Int
    BY <2>1, SigmaGrows, SigmaTakes
  <2> QED BY <2>2 DEF S
<1>6. KeySums(f, A, key, some) = KeySums(f, A, k, some)
  BY <1>1 DEF KeySums
<1>7. \A w \in some : Sigma(f, {x \in A : key[x] = w}) > 0
  BY DEF Positive
<1> HIDE DEF all, some
<1>8. \A w \in all \ some : KeySums(f, A, k, all)[w] = 0
  <2>1. \A w \in all : KeySums(f, A, k, all)[w] = Sigma(f, {x \in A : k[x] = w})
    BY DEF KeySums
  <2>2. ASSUME NEW w \in all \ some PROVE KeySums(f, A, k, all)[w] = 0
    <3>1. KeySums(f, A, k, all)[w] = Sigma(f, {x \in A : key[x] = w})
      BY <1>1, <2>1
    <3> DEFINE n == Sigma(f, {x \in A : key[x] = w})
    <3>2. n \in Nat /\ ~(n > 0)
      BY <1>4, <1>5
    <3> HIDE DEF n
    <3>3. n = 0
      BY <3>2
    <3> QED BY <3>1, <3>3 DEF n
  <2> QED BY <2>2
<1>9. SumOver(KeySums(f, A, k, some)) = Sigma(f, A)
  BY <1>2, <1>3, <1>4, <1>8, SomeKeys
<1>10. KeySums(f, A, key, some) \in [some -> Nat] /\ \A w \in some : KeySums(f, A, key, some)[w] > 0
  BY <1>5, <1>7 DEF KeySums
<1>11. IsFiniteSet(some)
  BY <1>3, <1>4, FS_Subset
<1> QED BY <1>6, <1>9, <1>10, <1>11 DEF some

(* The turns of four weeks. *)
FourWeeks(db) == TurnsSince(db, db.now - WINDOW_28D)
TokenOf(db) == [x \in FourWeeks(db) |-> x.tokens]
DayIn(db) == [x \in FourWeeks(db) |-> DayOf(x.at)]

(* The turns of four weeks are of the 29 days from today backwards.          *)
LEMMA FourWeeksFit ==
  ASSUME NEW db, QuotaFits(db)
  PROVE  /\ IsFiniteSet(FourWeeks(db)) /\ TokenOf(db) \in [FourWeeks(db) -> Int]
         /\ \A x \in FourWeeks(db) : /\ TokenOf(db)[x] >= 0 /\ DayIn(db)[x] \in Nat
                                     /\ DaysAgo(DayIn(db)[x], db.now) \in 0 .. 28
                                     /\ DayIn(db)[x] = DayOf(x.at)
         /\ \A S \in SUBSET FourWeeks(db) : TokensIn(S) = Sigma(TokenOf(db), S)
<1> DEFINE rows == FourWeeks(db)  f == TokenOf(db)
<1>1. /\ db.now \in Nat
      /\ \A x \in rows : x.at \in Nat /\ x.tokens \in Nat /\ x.at <= db.now /\ x.at >= db.now - 672
  BY DEF QuotaFits, QuotaDb, FourWeeks, TurnsSince, WINDOW_28D
<1>2. IsFiniteSet(rows)
  BY FS_Subset DEF QuotaFits, FourWeeks, TurnsSince
<1>3. f \in [rows -> Int] /\ \A x \in rows : f[x] >= 0
  BY <1>1 DEF TokenOf
<1>4. ASSUME NEW x \in rows
      PROVE  DayOf(x.at) \in Nat /\ DaysAgo(DayOf(x.at), db.now) \in 0 .. 28
  <2>1. ASSUME NEW t \in Nat, NEW u \in Nat, t <= u, t >= u - 672
        PROVE  t \div 24 \in Nat /\ (u \div 24) - (t \div 24) \in 0 .. 28
    BY <2>1
  <2> QED BY <1>1, <2>1 DEF DayOf, DaysAgo
<1>5. ASSUME NEW S \in SUBSET rows PROVE TokensIn(S) = Sigma(f, S)
  <2> DEFINE h == [x \in S |-> x.tokens]
  <2>1. h = [x \in S |-> f[x]]
    BY DEF TokenOf
  <2>2. TokensIn(S) = SumOver(h)
    BY DEF TokensIn
  <2> HIDE DEF h, f, rows
  <2> QED BY <1>2, <1>3, <2>1, <2>2, SumOfPart
<1>6. \A x \in rows : DayIn(db)[x] = DayOf(x.at)
  BY DEF DayIn
<1> QED BY <1>2, <1>3, <1>4, <1>5, <1>6

(* The sums of the days are those of the turns on them. *)
LEMMA DailySums ==
  ASSUME NEW db, QuotaFits(db)
  PROVE  LET some == Positive(TokenOf(db), FourWeeks(db), DayIn(db)) IN
         GetDailyTokenSums(db, 28) = KeySums(TokenOf(db), FourWeeks(db), DayIn(db), some)
<1> DEFINE rows == FourWeeks(db)  f == TokenOf(db)  day == DayIn(db)
           On(d) == SumOver([x \in {y \in rows : DayOf(y.at) = d} |-> x.tokens])
<1>1. rows = TurnsSince(db, db.now - 24 * 28)
  BY DEF FourWeeks, WINDOW_28D
<1>2. GetDailyTokenSums(db, 28) = [d \in {e \in {DayOf(x.at) : x \in rows} : On(e) > 0} |-> On(d)]
  BY <1>1 DEF GetDailyTokenSums, Total
<1>3. \A x \in rows : day[x] = DayOf(x.at)
  BY FourWeeksFit
<1>4. ASSUME NEW d PROVE On(d) = Sigma(f, {x \in rows : day[x] = d})
  <2>1. {y \in rows : DayOf(y.at) = d} = {x \in rows : day[x] = d}
    BY <1>3
  <2>2. On(d) = TokensIn({x \in rows : day[x] = d})
    BY <2>1 DEF TokensIn
  <2> HIDE DEF On
  <2> QED BY <2>2, FourWeeksFit
<1>5. {DayOf(x.at) : x \in rows} = {day[x] : x \in rows}
  BY <1>3
<1> HIDE DEF On, rows, f, day
<1>6. {e \in {DayOf(x.at) : x \in rows} : On(e) > 0} = Positive(f, rows, day)
  BY <1>4, <1>5 DEF Positive
<1>7. GetDailyTokenSums(db, 28) = KeySums(f, rows, day, Positive(f, rows, day))
  BY <1>2, <1>4, <1>6 DEF KeySums
<1> QED BY <1>7 DEF rows, f, day

(* The statistics add the days up, and so do the bars.                       *)
Elapsed(db, d) == DaysAgo(d, db.now)
Full(db) == {x \in FourWeeks(db) : Elapsed(db, DayIn(db)[x]) \in 0 .. 27}
FullDays(db) == {d \in DOMAIN GetDailyTokenSums(db, 28) : Elapsed(db, d) \in 0 .. 27}
DailyFrom(db) == [d \in FullDays(db) |-> GetDailyTokenSums(db, 28)[d]]

(* The daily sums of the 28 whole days add up to the tokens of their turns.  *)
LEMMA DailyFits ==
  ASSUME NEW db, QuotaFits(db)
  PROVE  /\ IsFiniteSet(FullDays(db)) /\ DailyFrom(db) \in [FullDays(db) -> Nat]
         /\ FullDays(db) \subseteq Nat
         /\ SumOver(DailyFrom(db)) = Sigma(TokenOf(db), Full(db))
<1> DEFINE rows == FourWeeks(db)  f == TokenOf(db)  day == DayIn(db)  A == Full(db)
           all == Positive(f, rows, day)  some == Positive(f, A, day)
           sums == KeySums(f, rows, day, all)
<1>1. /\ IsFiniteSet(rows) /\ f \in [rows -> Int] /\ \A x \in rows : f[x] >= 0 /\ day[x] \in Nat
  BY FourWeeksFit
<1>2. A \in SUBSET rows /\ \A x \in rows : x \in A <=> Elapsed(db, day[x]) \in 0 .. 27
  BY DEF Full
<1>3. GetDailyTokenSums(db, 28) = sums
  BY DailySums
<1>4. DOMAIN sums = all /\ \A w \in all : sums[w] = Sigma(f, {x \in rows : day[x] = w})
  BY DEF KeySums
<1> HIDE DEF rows, f, day, A
<1>5. ASSUME NEW w, Elapsed(db, w) \in 0 .. 27
      PROVE  {x \in rows : day[x] = w} = {x \in A : day[x] = w}
  BY <1>2, <1>5
<1>6. FullDays(db) = some
  <2>1. FullDays(db) = {d \in all : Elapsed(db, d) \in 0 .. 27}
    BY <1>3, <1>4 DEF FullDays
  <2>2. \A w : w \in all <=> /\ \E x \in rows : w = day[x]
                             /\ Sigma(f, {x \in rows : day[x] = w}) > 0
    BY DEF Positive
  <2>3. \A w : w \in some <=> /\ \E x \in A : w = day[x]
                              /\ Sigma(f, {x \in A : day[x] = w}) > 0
    BY DEF Positive
  <2> HIDE DEF all, some
  <2>4. ASSUME NEW w PROVE w \in some <=> w \in all /\ Elapsed(db, w) \in 0 .. 27
    <3>1. CASE Elapsed(db, w) \in 0 .. 27
      BY <1>2, <1>5, <2>2, <2>3, <3>1
    <3>2. CASE Elapsed(db, w) \notin 0 .. 27
      BY <1>2, <2>3, <3>2
    <3> QED BY <3>1, <3>2
  <2> QED BY <2>1, <2>4
<1>7. DailyFrom(db) = KeySums(f, A, day, some)
  <2>1. \A w \in some : w \in all /\ Elapsed(db, w) \in 0 .. 27
    BY <1>3, <1>4, <1>6 DEF FullDays
  <2> HIDE DEF some, all, sums
  <2>2. ASSUME NEW w \in some PROVE GetDailyTokenSums(db, 28)[w] = Sigma(f, {x \in A : day[x] = w})
    BY <1>3, <1>4, <1>5, <2>1
  <2> QED BY <1>6, <2>2 DEF DailyFrom, KeySums
<1>8. /\ IsFiniteSet(some) /\ KeySums(f, A, day, some) \in [some -> Nat]
      /\ SumOver(KeySums(f, A, day, some)) = Sigma(f, A)
  BY <1>1, <1>2, PositiveKeys
<1>9. some \subseteq Nat
  BY <1>1, <1>2 DEF Positive
<1> HIDE DEF some
<1> QED BY <1>6, <1>7, <1>8, <1>9 DEF f, A

(* The four bars of the weeks hold the same days as the statistics.          *)
LEMMA BarsHoldDays ==
  ASSUME NEW db, QuotaFits(db)
  PROVE  SumOver(BucketDailyIntoWeeks(GetDailyTokenSums(db, 28), db.now)) = SumOver(DailyFrom(db))
<1> DEFINE daily == GetDailyTokenSums(db, 28)  days == FullDays(db)  f == DailyFrom(db)
           key == [d \in days |-> 3 - (Elapsed(db, d) \div 7)]  K == 0 .. 3
           ofWeek == [b \in K |-> {d \in DOMAIN daily : DaysAgo(d, db.now) >= 0 /\ 3 - (DaysAgo(d, db.now) \div 7) = b}]
           bars == [b \in K |-> SumOver([d \in ofWeek[b] |-> daily[d]])]
<1>1. IsFiniteSet(days) /\ f \in [days -> Int] /\ days \subseteq Nat
  BY DailyFits
<1>2. BucketDailyIntoWeeks(daily, db.now) = bars
  <2> HIDE DEF daily
  <2> QED BY DEF BucketDailyIntoWeeks, Total
<1>3. db.now \in Nat /\ DOMAIN daily \subseteq Nat
  <2>1. db.now \in Nat
    BY DEF QuotaFits, QuotaDb
  <2>2. DOMAIN daily = Positive(TokenOf(db), FourWeeks(db), DayIn(db))
    BY DailySums DEF KeySums
  <2> HIDE DEF daily
  <2> QED BY <2>1, <2>2, FourWeeksFit DEF Positive
<1>4. ASSUME NEW d \in DOMAIN daily
      PROVE  /\ DaysAgo(d, db.now) \in Int
             /\ \A b \in K : DaysAgo(d, db.now) >= 0 /\ 3 - (DaysAgo(d, db.now) \div 7) = b
                               <=> DaysAgo(d, db.now) \in 0 .. 27 /\ 3 - (DaysAgo(d, db.now) \div 7) = b
  <2>1. DaysAgo(d, db.now) \in Int
    BY <1>3 DEF DaysAgo, DayOf
  <2>2. \A a \in Int, b \in 0 .. 3 : a >= 0 /\ 3 - (a \div 7) = b <=> a \in 0 .. 27 /\ 3 - (a \div 7) = b
    OBVIOUS
  <2> QED BY <2>1, <2>2
<1>5. days = {d \in DOMAIN daily : DaysAgo(d, db.now) \in 0 .. 27}
  BY DEF FullDays, Elapsed
<1>6. key \in [days -> K]
  <2>1. \A a \in 0 .. 27 : 3 - (a \div 7) \in 0 .. 3
    OBVIOUS
  <2> QED BY <1>5, <2>1 DEF Elapsed
<1>7. \A b \in K : ofWeek[b] = {d \in days : key[d] = b}
  <2>1. ASSUME NEW b \in K PROVE ofWeek[b] = {d \in days : key[d] = b}
    <3>1. ofWeek[b] = {d \in DOMAIN daily : DaysAgo(d, db.now) >= 0 /\ 3 - (DaysAgo(d, db.now) \div 7) = b}
      OBVIOUS
    <3>2. {d \in days : key[d] = b} = {d \in DOMAIN daily : DaysAgo(d, db.now) \in 0 .. 27 /\ 3 - (DaysAgo(d, db.now) \div 7) = b}
      BY <1>5 DEF Elapsed
    <3> HIDE DEF daily, ofWeek, key, days
    <3> QED BY <1>4, <3>1, <3>2
  <2> QED BY <2>1
<1>8. \A d \in days : f[d] = daily[d]
  BY DEF DailyFrom
<1>9. f = [d \in days |-> f[d]]
  BY DEF DailyFrom
<1> HIDE DEF key, ofWeek, daily, days, f
<1>10. ASSUME NEW b \in K PROVE bars[b] = Sigma(f, {d \in days : key[d] = b})
  <2> DEFINE S == {d \in days : key[d] = b}  h == [d \in S |-> daily[d]]
  <2>1. S \in SUBSET days /\ h = [d \in S |-> f[d]]
    BY <1>8
  <2>2. bars[b] = SumOver(h)
    BY <1>7
  <2> HIDE DEF h, S, bars
  <2>3. SumOver(h) = Sigma(f, S)
    BY <1>1, <2>1, SumOfPart
  <2> QED BY <2>2, <2>3 DEF S
<1>11. bars = KeySums(f, days, key, K)
  <2>1. bars = [b \in K |-> bars[b]]
    OBVIOUS
  <2> HIDE DEF bars, K
  <2> QED BY <1>10, <2>1 DEF KeySums
<1>12. IsFiniteSet(K)
  <2>1. 0 \in Int /\ 3 \in Int
    OBVIOUS
  <2> QED BY <2>1, FS_Interval
<1> HIDE DEF K, bars
<1>13. KeySums(f, days, key, K) \in [K -> Int] /\ Sigma(KeySums(f, days, key, K), K) = Sigma(f, days)
  BY <1>1, <1>6, <1>12, KeySumsAddUp
<1>14. SumOver(bars) = Sigma(bars, K)
  <2>1. bars = [b \in K |-> bars[b]]
    BY DEF bars
  <2> QED BY <2>1, SumOverIsSigma
<1>15. SumOver(f) = Sigma(f, days)
  BY <1>9, SumOverIsSigma
<1> QED BY <1>2, <1>11, <1>13, <1>14, <1>15 DEF daily, f

(* The heatmap holds every token of the four weeks.                          *)
SlotIn(db) == [x \in FourWeeks(db) |-> <<DayOf(x.at) % 7, x.at % 24>>]

(* The cells of the heatmap by hour hold the tokens of the four weeks.       *)
LEMMA HeatHoldsTokens ==
  ASSUME NEW db, QuotaFits(db)
  PROVE  LET heat == GetQuotaHeatmap(db) IN
         /\ IsFiniteSet(heat) /\ \A c \in heat : c.tokens \in Nat /\ c.tokens > 0
         /\ SumOver([c \in heat |-> c.tokens]) = Sigma(TokenOf(db), FourWeeks(db))
<1> DEFINE rows == FourWeeks(db)  f == TokenOf(db)  slot == SlotIn(db)
           In(dow, hour) == SumOver([x \in {y \in rows : DayOf(y.at) % 7 = dow /\ y.at % 24 = hour} |-> x.tokens])
           Cell(x) == [dow |-> DayOf(x.at) % 7, hour |-> x.at % 24, tokens |-> In(DayOf(x.at) % 7, x.at % 24)]
           some == Positive(f, rows, slot)
           part == KeySums(f, rows, slot, some)
           g == [k \in some |-> [dow |-> k[1], hour |-> k[2], tokens |-> part[k]]]
           heat == {c \in {Cell(x) : x \in rows} : c.tokens > 0}
           h == [c \in heat |-> c.tokens]
<1>1. GetQuotaHeatmap(db) = heat
  BY DEF GetQuotaHeatmap, FourWeeks, Total
<1>2. \A x \in rows : slot[x] = <<DayOf(x.at) % 7, x.at % 24>>
  BY DEF SlotIn
<1>3. /\ IsFiniteSet(rows) /\ f \in [rows -> Int] /\ \A x \in rows : f[x] >= 0
      /\ \A S \in SUBSET rows : TokensIn(S) = Sigma(f, S)
  BY FourWeeksFit
<1>4. ASSUME NEW x \in rows
      PROVE  In(DayOf(x.at) % 7, x.at % 24) = Sigma(f, {y \in rows : slot[y] = slot[x]})
  <2> DEFINE S == {y \in rows : slot[y] = slot[x]}
  <2>1. {y \in rows : DayOf(y.at) % 7 = DayOf(x.at) % 7 /\ y.at % 24 = x.at % 24} = S
    BY <1>2
  <2>2. In(DayOf(x.at) % 7, x.at % 24) = TokensIn(S)
    BY <2>1 DEF TokensIn
  <2>3. S \in SUBSET rows
    OBVIOUS
  <2> HIDE DEF S, In
  <2> QED BY <1>3, <2>2, <2>3 DEF S
<1> HIDE DEF In
<1>5. /\ IsFiniteSet(some) /\ part \in [some -> Nat] /\ \A k \in some : part[k] > 0
      /\ SumOver(part) = Sigma(f, rows)
  <2>1. rows \in SUBSET rows
    OBVIOUS
  <2> HIDE DEF rows, f, slot
  <2> QED BY <1>3, <2>1, PositiveKeys
<1>6. \A k \in some : part[k] = Sigma(f, {y \in rows : slot[y] = k})
  BY DEF KeySums
<1>7. \A k : k \in some <=> (\E x \in rows : k = slot[x]) /\ Sigma(f, {y \in rows : slot[y] = k}) > 0
  BY DEF Positive
<1>8. part = [k \in some |-> part[k]]
  BY DEF KeySums
<1> HIDE DEF rows, f, slot, some, part
<1>9. ASSUME NEW k \in some
      PROVE  /\ g[k] \in heat /\ g[k].tokens = part[k] /\ <<g[k].dow, g[k].hour>> = k
  <2>1. PICK x \in rows : k = slot[x]
    BY <1>7
  <2>2. k = <<DayOf(x.at) % 7, x.at % 24>> /\ In(DayOf(x.at) % 7, x.at % 24) = part[k]
    BY <1>2, <1>4, <1>6, <2>1
  <2>3. g[k] = Cell(x)
    BY <2>2
  <2>4. Cell(x).tokens > 0
    BY <1>5, <2>2
  <2>5. g[k].tokens = part[k] /\ g[k].dow = k[1] /\ g[k].hour = k[2]
    OBVIOUS
  <2>6. Cell(x) \in heat
    BY <2>4
  <2> HIDE DEF g, Cell, heat
  <2> QED BY <2>2, <2>3, <2>5, <2>6
<1>10. ASSUME NEW c \in heat PROVE \E k \in some : c = g[k]
  <2>1. PICK x \in rows : c = Cell(x) /\ c.tokens > 0
    OBVIOUS
  <2>2. slot[x] \in some
    BY <1>4, <1>7, <2>1
  <2>3. g[slot[x]] = Cell(x)
    <3>1. PICK k \in some : k = slot[x]
      BY <2>2
    <3>2. k = <<DayOf(x.at) % 7, x.at % 24>> /\ In(DayOf(x.at) % 7, x.at % 24) = part[k]
      BY <1>2, <1>4, <1>6, <3>1
    <3>3. g[k] = Cell(x)
      BY <3>2
    <3> QED BY <3>1, <3>3
  <2> QED BY <2>1, <2>2, <2>3
<1>11. \A c \in heat : h[c] = c.tokens
  OBVIOUS
<1>12. h = [c \in heat |-> h[c]]
  OBVIOUS
<1>13. {g[k] : k \in some} = heat
  <2> HIDE DEF g, heat
  <2> QED BY <1>9, <1>10
<1>14. h = [c \in heat |-> c.tokens]
  OBVIOUS
<1> HIDE DEF g, heat, h
<1>15. Paired(some, part, g, heat, h)
  <2>1. \A k \in some : g[k] \in heat /\ h[g[k]] = part[k]
    BY <1>9, <1>11
  <2>2. \A k, l \in some : g[k] = g[l] => k = l
    BY <1>9
  <2> QED BY <1>10, <1>12, <2>1, <2>2 DEF Paired
<1>16. part \in [some -> Int]
  BY <1>5
<1>17. SumOver(h) = Sigma(part, some)
  BY <1>5, <1>15, <1>16, SumAlong
<1>18. SumOver(part) = Sigma(part, some)
  BY <1>8, SumOverIsSigma
<1>19. IsFiniteSet(heat)
  BY <1>5, <1>13, ImageIsFinite
<1>20. \A c \in heat : c.tokens \in Nat /\ c.tokens > 0
  BY <1>5, <1>9, <1>10
<1> QED BY <1>1, <1>5, <1>14, <1>17, <1>18, <1>19, <1>20 DEF rows, f

(* A cell with more tokens has no lighter a colour.                          *)
LEMMA LevelsGrow ==
  ASSUME NEW cells, IsFiniteSet(cells), \A c \in cells : c.tokens \in Nat /\ c.tokens > 0,
         NEW c \in cells, NEW other \in cells, c.tokens >= other.tokens
  PROVE  CellLevel(cells, c) >= CellLevel(cells, other)
<1> DEFINE n == Cardinality(cells)
           Rank(v) == Cardinality({x \in cells : x.tokens <= v})
           above(k) == {x \in cells : Rank(x.tokens) > (n * k) \div 4}
           amounts(k) == {x.tokens : x \in above(k)}
           quartile == [k \in 1 .. 3 |-> Min(amounts(k))]
           reached(v) == {k \in 1 .. 3 : v >= quartile[k]}
<1>1. n \in Nat /\ n > 0
  <2>1. n \in Nat /\ (n = 0 <=> cells = {})
    BY FS_CardinalityType, FS_EmptySet
  <2> QED BY <2>1
<1>2. \A x \in cells : x.tokens \in Nat /\ x.tokens > 0
  OBVIOUS
<1>3. ASSUME NEW x \in cells
      PROVE  CellLevel(cells, x) = 1 + Cardinality(reached(x.tokens))
  <2>1. reached(x.tokens) = {k \in 1 .. 3 : x.tokens >= Min(amounts(k))}
    OBVIOUS
  <2>2. x.tokens # 0
    BY <1>2
  <2> HIDE DEF quartile
  <2> QED BY <2>1, <2>2 DEF CellLevel
<1>4. PICK top \in cells : \A x \in cells : x.tokens <= top.tokens
  <2> DEFINE g == [x \in cells |-> x.tokens]  all == {g[x] : x \in cells}
  <2>1. IsFiniteSet(all)
    <3> HIDE DEF g
    <3> QED BY ImageIsFinite
  <2>2. all \in SUBSET Int /\ all # {}
    BY <1>2
  <2>3. PICK v \in all : \A w \in all : w <= v
    <3> HIDE DEF all
    <3> QED BY <2>1, <2>2, LeastAndGreatest
  <2>4. PICK t \in cells : v = g[t]
    OBVIOUS
  <2> QED BY <2>3, <2>4
<1>5. Rank(top.tokens) = n
  <2>1. {x \in cells : x.tokens <= top.tokens} = cells
    BY <1>4
  <2> QED BY <2>1
<1> HIDE DEF Rank, n
<1>6. ASSUME NEW k \in 1 .. 3 PROVE quartile[k] \in Nat
  <2>1. n > (n * k) \div 4
    <3>1. k = 1 \/ k = 2 \/ k = 3
      OBVIOUS
    <3> QED BY <1>1, <3>1
  <2>2. top \in above(k)
    BY <1>5, <2>1
  <2>3. amounts(k) \in SUBSET Nat /\ amounts(k) # {}
    BY <1>2, <2>2
  <2> HIDE DEF amounts
  <2>4. Min(amounts(k)) \in amounts(k)
    BY <2>3, EarliestInstant
  <2> QED BY <2>3, <2>4
<1> HIDE DEF quartile
<1>7. reached(other.tokens) \in SUBSET reached(c.tokens)
  <2>1. ASSUME NEW k \in 1 .. 3, other.tokens >= quartile[k] PROVE c.tokens >= quartile[k]
    BY <1>2, <1>6, <2>1
  <2> QED BY <2>1
<1>8. IsFiniteSet(reached(c.tokens))
  <2>1. 1 \in Int /\ 3 \in Int
    OBVIOUS
  <2>2. IsFiniteSet(1 .. 3)
    BY <2>1, FS_Interval
  <2> QED BY <2>2, FS_Subset
<1> HIDE DEF reached
<1>9. /\ Cardinality(reached(other.tokens)) \in Nat /\ Cardinality(reached(c.tokens)) \in Nat
      /\ Cardinality(reached(other.tokens)) <= Cardinality(reached(c.tokens))
  BY <1>7, <1>8, CountApart
<1> QED BY <1>3, <1>9

(* For any turns that have been: the bars of the weeks and the statistics hold  *)
(* the same tokens, the heatmap those and the rest of the day four weeks ago,  *)
(* and its colours are in the order of the tokens (getQuotaHeatmap, quota.ts; *)
(* deriveStats, bucketDailyIntoWeeks).                                       *)
THEOREM WeeksAlwaysAddUp == ASSUME NEW db, QuotaFits(db) PROVE WeeksAddUp(db)
<1> DEFINE heat == GetQuotaHeatmap(db)  daily == GetDailyTokenSums(db, 28)
           stats == DeriveStats(heat, daily, db.now)
           rows == FourWeeks(db)  f == TokenOf(db)  A == Full(db)
           rest == {x \in TurnsSince(db, db.now - WINDOW_28D) : DaysAgo(DayOf(x.at), db.now) = 28}
<1>1. stats.total28d = SumOver(DailyFrom(db))
  <2> HIDE DEF heat, daily
  <2>1. stats.total28d = SumOver([d \in {e \in DOMAIN daily : DaysAgo(e, db.now) \in 0 .. 27} |-> daily[d]])
    BY DEF DeriveStats, Total
  <2>2. {e \in DOMAIN daily : DaysAgo(e, db.now) \in 0 .. 27} = FullDays(db)
    BY DEF FullDays, Elapsed, daily
  <2>3. DailyFrom(db) = [d \in FullDays(db) |-> daily[d]]
    BY DEF DailyFrom, daily
  <2> QED BY <2>1, <2>2, <2>3
<1>2. SumOver(BucketDailyIntoWeeks(daily, db.now)) = SumOver(DailyFrom(db))
  BY BarsHoldDays
<1>3. /\ IsFiniteSet(rows) /\ f \in [rows -> Int]
      /\ \A x \in rows : Elapsed(db, DayIn(db)[x]) \in 0 .. 28 /\ DayIn(db)[x] = DayOf(x.at)
      /\ \A S \in SUBSET rows : TokensIn(S) = Sigma(f, S)
  BY FourWeeksFit DEF Elapsed
<1>4. A \in SUBSET rows /\ rest \in SUBSET rows /\ A \cap rest = {} /\ A \cup rest = rows
  <2>1. \A n \in 0 .. 28 : n \in 0 .. 27 <=> n # 28
    OBVIOUS
  <2>2. \A x \in rows : x \in A <=> Elapsed(db, DayIn(db)[x]) \in 0 .. 27
    BY DEF Full
  <2>3. \A x \in rows : x \in rest <=> Elapsed(db, DayIn(db)[x]) = 28
    BY <1>3 DEF Elapsed, FourWeeks
  <2>4. A \in SUBSET rows /\ rest \in SUBSET rows
    BY DEF Full, FourWeeks
  <2> HIDE DEF A, rest, rows
  <2> QED BY <1>3, <2>1, <2>2, <2>3, <2>4
<1>5. Sigma(f, A \cup rest) = Sigma(f, A) + Sigma(f, rest)
  <2> HIDE DEF f, A, rest, rows
  <2> QED BY <1>3, <1>4, SigmaUnion
<1>6. SumOver(DailyFrom(db)) = Sigma(f, A)
  BY DailyFits
<1>7. /\ IsFiniteSet(heat) /\ \A c \in heat : c.tokens \in Nat /\ c.tokens > 0
      /\ SumOver([c \in heat |-> c.tokens]) = Sigma(f, rows)
  BY HeatHoldsTokens
<1>8. TokensIn(rest) = Sigma(f, rest)
  BY <1>3, <1>4
<1>9. WeeksAddUp(db) <=>
        /\ SumOver(BucketDailyIntoWeeks(daily, db.now)) = stats.total28d
        /\ SumOver([c \in heat |-> c.tokens]) = stats.total28d + TokensIn(rest)
        /\ \A c \in heat, other \in heat :
             c.tokens >= other.tokens => CellLevel(heat, c) >= CellLevel(heat, other)
  BY DEF WeeksAddUp, Total, TokensIn
<1> HIDE DEF heat, daily, stats, rows, f, A, rest
<1>10. \A c \in heat, other \in heat :
         c.tokens >= other.tokens => CellLevel(heat, c) >= CellLevel(heat, other)
  BY <1>7, LevelsGrow
<1> QED BY <1>1, <1>2, <1>4, <1>5, <1>6, <1>7, <1>8, <1>9, <1>10

-----------------------------------------------------------------------------
(* The search (search/queries.ts, app/search/page.tsx).                      *)


HitsOf(index, today, raw, days) ==
  {t \in index : raw.terms \subseteq t.words /\ (days = 0 \/ t.startedOn >= today - days)}
BetterHits(hits) ==
  [t \in hits |-> {u \in hits : u.rank < t.rank \/ (u.rank = t.rank /\ u.n < t.n)}]
PageItems(hits, k) == {t \in hits : Cardinality(BetterHits(hits)[t]) \in (2 * k) .. (2 * k + 1)}
ShowsPage(page, hits, k) == page.items = PageItems(hits, k) /\ page.total = Cardinality(hits)
Asked(raw, days) ==
  days \in 0 .. 3650 /\ raw.terms # None /\ raw.length \in 2 .. 200 /\ raw.terms # {}

(* A page of a search that was asked has the hits of its places.             *)
LEMMA PageOfHits ==
  ASSUME NEW index, NEW today, NEW raw, NEW days, Asked(raw, days), NEW k \in Nat, NoneIsNoAnswer
  PROVE  ShowsPage(SearchPage(index, today, raw, days, 2 * k, 2).results,
                   HitsOf(index, today, raw, days), k)
<1> DEFINE hits == HitsOf(index, today, raw, days)  from == 2 * k
           Better(t) == {u \in hits : u.rank < t.rank \/ (u.rank = t.rank /\ u.n < t.n)}
<1>1. /\ None \notin Int /\ days \in 0 .. 3650
      /\ raw.terms # None /\ raw.length \in 2 .. 200 /\ raw.terms # {}
  BY DEF NoneIsNoAnswer, Asked
<1>2. from \in Nat /\ from # None /\ days # None
  <2>1. days \in Int
    BY <1>1
  <2>2. from \in Nat /\ from \in Int
    OBVIOUS
  <2> HIDE DEF from
  <2> QED BY <1>1, <2>1, <2>2
<1> HIDE DEF from
<1>3. SearchPage(index, today, raw, days, from, 2).results = SearchTurns(index, today, raw, days, 2, from)
  BY <1>1, <1>2 DEF SearchPage
<1>4. NormalizeOffset(from) = from
  BY <1>2, GreatestOf DEF NormalizeOffset
<1>5. NormalizeLimit(2) = 2
  <2>1. Min({100, 2}) = 2 /\ Max({1, 2}) = 2
    BY LeastAmong, GreatestOf
  <2>2. 2 # None
    BY <1>1
  <2> QED BY <2>1, <2>2 DEF NormalizeLimit
<1>6. SanitizeFtsQuery(raw) = raw.terms
  BY <1>1 DEF SanitizeFtsQuery
<1> DEFINE H == {t \in index : SanitizeFtsQuery(raw) \subseteq t.words
                                 /\ (days \notin {None, 0} => t.startedOn >= today - days)}
           lo == NormalizeOffset(from)  hi == NormalizeOffset(from) + NormalizeLimit(2) - 1
<1>7. SearchTurns(index, today, raw, days, 2, from)
        = IF SanitizeFtsQuery(raw) = None THEN [items |-> {}, total |-> 0]
          ELSE [items |-> {t \in H : Cardinality({u \in H : u.rank < t.rank \/ (u.rank = t.rank /\ u.n < t.n)}) \in lo .. hi},
                total |-> Cardinality(H)]
  BY DEF SearchTurns
<1>8. H = hits
  BY <1>2, <1>6 DEF HitsOf
<1>9. lo = 2 * k /\ hi = 2 * k + 1
  BY <1>2, <1>4, <1>5 DEF from
<1> HIDE DEF H, lo, hi, hits
<1>10. SearchTurns(index, today, raw, days, 2, from)
         = [items |-> {t \in hits : Cardinality(Better(t)) \in (2 * k) .. (2 * k + 1)},
            total |-> Cardinality(hits)]
  BY <1>1, <1>6, <1>7, <1>8, <1>9
<1>11. {t \in hits : Cardinality(Better(t)) \in (2 * k) .. (2 * k + 1)} = PageItems(hits, k)
  BY DEF PageItems, BetterHits
<1> HIDE DEF Better
<1>12. ShowsPage(SearchTurns(index, today, raw, days, 2, from), hits, k)
  BY <1>10, <1>11 DEF ShowsPage
<1>13. ShowsPage(SearchPage(index, today, raw, days, from, 2).results, hits, k)
  BY <1>3, <1>12
<1> QED BY <1>13 DEF from, hits

(* No page of a query that has none shows anything. *)
LEMMA PageOfNothing ==
  ASSUME NEW index, NEW today, NEW raw, NEW days, NEW k,
         ~(raw.length \in 2 .. 200 /\ raw.terms # {})
  PROVE  SearchPage(index, today, raw, days, 2 * k, 2).results = [items |-> {}, total |-> 0]
<1>1. SanitizeFtsQuery(raw) = None
  BY DEF SanitizeFtsQuery
<1>2. SearchTurns(index, today, raw, days, 2, 2 * k) = [items |-> {}, total |-> 0]
  BY <1>1 DEF SearchTurns
<1> QED BY <1>2 DEF SearchPage

(* The pages of some hits hold each once. *)
LEMMA PagesOfHits ==
  ASSUME NEW hits, IsFiniteSet(hits), \A t \in hits : t.n \in Int /\ t.rank \in Int,
         \A t, u \in hits : t.n = u.n => t = u
  PROVE  LET n == Cardinality(hits) IN
         /\ n \in Nat /\ UNION {PageItems(hits, k) : k \in 0 .. n} = hits
         /\ SumOver([k \in 0 .. n |-> Cardinality(PageItems(hits, k))]) = n
<1> DEFINE n == Cardinality(hits)  before == BetterHits(hits)
           a == [t \in hits |-> t.rank]  b == [t \in hits |-> t.n]
           K == 0 .. n  key == [t \in hits |-> Cardinality(before[t]) \div 2]
           part == [k \in K |-> Cardinality(PageItems(hits, k))]
<1>1. Orders(before, hits)
  <2>1. a \in [hits -> Int] /\ b \in [hits -> Int] /\ \A x, y \in hits : b[x] = b[y] => x = y
    OBVIOUS
  <2>2. before = [y \in hits |-> {x \in hits : a[x] < a[y] \/ (a[x] = a[y] /\ b[x] < b[y])}]
    BY DEF BetterHits
  <2> HIDE DEF a, b, before
  <2>3. Orders([y \in hits |-> {x \in hits : a[x] < a[y] \/ (a[x] = a[y] /\ b[x] < b[y])}], hits)
    BY <2>1, RankThenId
  <2> QED BY <2>2, <2>3
<1>2. n \in Nat
  BY FS_CardinalityType
<1>3. \A t \in hits : Cardinality(before[t]) \in 0 .. n - 1
  <2> HIDE DEF before
  <2> QED BY <1>1, RanksAreTaken
<1>4. ASSUME NEW t \in hits
      PROVE  /\ Cardinality(before[t]) \div 2 \in K
             /\ \A k \in K : Cardinality(before[t]) \in (2 * k) .. (2 * k + 1)
                               <=> Cardinality(before[t]) \div 2 = k
  <2>1. ASSUME NEW p \in 0 .. n - 1
        PROVE  p \div 2 \in 0 .. n /\ \A k \in 0 .. n : p \in (2 * k) .. (2 * k + 1) <=> p \div 2 = k
    BY <1>2, <2>1
  <2> HIDE DEF before, n
  <2> QED BY <1>3, <2>1
<1>5. key \in [hits -> K]
  BY <1>4
<1>6. \A k \in K : PageItems(hits, k) = {t \in hits : key[t] = k}
  BY <1>4 DEF PageItems
<1>7. IsFiniteSet(K)
  <2>1. 0 \in Int /\ n \in Int
    BY <1>2
  <2> HIDE DEF n
  <2> QED BY <2>1, FS_Interval
<1> HIDE DEF before, key
<1>8. part = [k \in K |-> Cardinality({t \in hits : key[t] = k})]
  BY <1>6
<1>9. part = [k \in K |-> part[k]]
  OBVIOUS
<1>10. \A t \in hits : t \in PageItems(hits, key[t]) /\ key[t] \in K
  BY <1>5, <1>6
<1>11. \A k \in K : PageItems(hits, k) \in SUBSET hits
  BY <1>6
<1> HIDE DEF K, part
<1>12. Sigma(part, K) = n
  BY <1>5, <1>7, <1>8, CountByKey
<1>13. SumOver(part) = Sigma(part, K)
  BY <1>9, SumOverIsSigma
<1>14. UNION {PageItems(hits, k) : k \in K} = hits
  BY <1>10, <1>11
<1> QED BY <1>2, <1>12, <1>13, <1>14 DEF part, K

(* For any index and query, and any turn that is written over: the pages of a   *)
(* search hold every hit once and nothing else, and what is written is found  *)
(* by its new words alone (searchTurns, search/queries.ts; trg_turns_au).     *)
THEOREM SearchAlwaysFindsAll ==
  ASSUME NEW index, NEW today \in Int, NEW raw, NEW days, NEW old, NEW new,
         SearchFits(index, raw, days, old, new), NoneIsNoAnswer
  PROVE  SearchFindsAll(index, today, raw, days, old, new)
<1> DEFINE after == IndexAfter(index, old, new)
           Page(k) == SearchPage(after, today, raw, days, 2 * k, 2).results
           n == Page(0).total  all == UNION {Page(k).items : k \in 0 .. n}
           hits == HitsOf(after, today, raw, days)
           asked == raw.length \in 2 .. 200 /\ raw.terms # {}
           sizes == [k \in 0 .. n |-> Cardinality(Page(k).items)]
<1>1. SearchFindsAll(index, today, raw, days, old, new) <=>
        IF asked
          THEN /\ \A t \in all : t.n \in {o.n : o \in old} => t \in new
               /\ all = hits
               /\ SumOver(sizes) = n
          ELSE n = 0 /\ all = {}
  BY DEF SearchFindsAll, HitsOf, Total
<1>2. CASE ~asked
  <2>1. ASSUME NEW k PROVE Page(k) = [items |-> {}, total |-> 0]
    <3> HIDE DEF after
    <3> QED BY <1>2, PageOfNothing
  <2>2. n = 0 /\ \A k : Page(k).items = {}
    BY <2>1
  <2>3. all = {}
    BY <2>2
  <2> HIDE DEF all, n, asked
  <2> QED BY <1>1, <1>2, <2>2, <2>3
<1>3. CASE asked
  <2>1. ASSUME NEW k \in Nat PROVE ShowsPage(Page(k), hits, k)
    <3>1. Asked(raw, days)
      BY <1>3 DEF SearchFits, Asked
    <3> HIDE DEF after
    <3>2. ShowsPage(SearchPage(after, today, raw, days, 2 * k, 2).results,
                    HitsOf(after, today, raw, days), k)
      BY <3>1, PageOfHits
    <3> QED BY <3>2
  <2>2. /\ IsFiniteSet(after) /\ \A t \in after : t.n \in Int /\ t.rank \in Int
        /\ \A t, u \in after : t.n = u.n => t = u
    <3>1. IsFiniteSet(index \ old)
      <4>1. IsFiniteSet(index) /\ index \ old \in SUBSET index
        BY DEF SearchFits
      <4> QED BY <4>1, FS_Subset
    <3>2. IsFiniteSet((index \ old) \cup new)
      <4>1. IsFiniteSet(new)
        BY DEF SearchFits
      <4> QED BY <3>1, <4>1, FS_Union
    <3>3. \A t \in after : t \in index \cup new
      BY DEF IndexAfter
    <3>4. \A t \in after : t.n \in Int /\ t.rank \in Int
      BY <3>3 DEF SearchFits
    <3>5. \A t, u \in after : t.n = u.n => t = u
      BY DEF SearchFits
    <3>6. IsFiniteSet(after)
      BY <3>2 DEF IndexAfter
    <3> HIDE DEF after
    <3> QED BY <3>4, <3>5, <3>6
  <2>3. /\ IsFiniteSet(hits) /\ \A t \in hits : t \in after /\ t.n \in Int /\ t.rank \in Int
        /\ \A t, u \in hits : t.n = u.n => t = u
    <3>1. hits \subseteq after
      BY DEF HitsOf
    <3> HIDE DEF hits, after
    <3> QED BY <2>2, <3>1, FS_Subset
  <2>4. n = Cardinality(hits)
    <3>1. ShowsPage(Page(0), hits, 0)
      BY <2>1
    <3> HIDE DEF Page, hits
    <3> QED BY <3>1 DEF ShowsPage
  <2>5. ASSUME NEW t \in after, t.n \in {o.n : o \in old} PROVE t \in new
    BY <2>5 DEF IndexAfter, SearchFits
  <2> HIDE DEF Page, hits, n
  <2>6. /\ n \in Nat /\ UNION {PageItems(hits, k) : k \in 0 .. n} = hits
        /\ SumOver([k \in 0 .. n |-> Cardinality(PageItems(hits, k))]) = n
    BY <2>3, <2>4, PagesOfHits
  <2>7. \A k \in 0 .. n : Page(k).items = PageItems(hits, k)
    BY <2>1, <2>6 DEF ShowsPage
  <2>8. {Page(k).items : k \in 0 .. n} = {PageItems(hits, k) : k \in 0 .. n}
    BY <2>7
  <2>9. sizes = [k \in 0 .. n |-> Cardinality(PageItems(hits, k))]
    BY <2>7
  <2>10. all = hits
    BY <2>6, <2>8
  <2>11. SumOver(sizes) = n
    <3> HIDE DEF sizes
    <3> QED BY <2>6, <2>9
  <2> HIDE DEF all, sizes
  <2> QED BY <1>1, <1>3, <2>3, <2>5, <2>10, <2>11
<1> QED BY <1>2, <1>3

-----------------------------------------------------------------------------
(* The text of a session that is shared (share/session-markdown.ts).         *)

(* What stands for a part in the redacted text: the same part without its     *)
(* texts.                                                                    *)
TextFields == {"text", "input", "result", "note"}
Hides(whole, cut) ==
  /\ DOMAIN cut = DOMAIN whole
  /\ \A k \in DOMAIN cut \cap TextFields :
       cut[k] \in {None, "redacted"} /\ (cut[k] = None <=> whole[k] = None)
  /\ \A k \in DOMAIN cut \ TextFields : cut[k] = whole[k]

(* A list of parts and its redacted form. *)
HidesIn(S, s, t) ==
  s \in Seq(S) /\ t \in Seq(S) /\ Len(s) = Len(t) /\ \A i \in 1 .. Len(s) : Hides(s[i], t[i])
HidesAll(s, t) == \E S : HidesIn(S, s, t)

(* A larger set of parts hides as well.                                      *)
LEMMA HidesMore ==
  ASSUME NEW S, NEW T, S \subseteq T, NEW s, NEW t, HidesIn(S, s, t) PROVE HidesIn(T, s, t)
<1>1. s \in Seq(S) /\ t \in Seq(S)
  BY DEF HidesIn
<1>2. s \in Seq(T) /\ t \in Seq(T)
  BY <1>1, SeqMonotonic
<1> QED BY <1>2 DEF HidesIn

(* One part, none, and one list after another. *)
LEMMA HidesNone == HidesAll(<<>>, <<>>)
<1>1. <<>> \in Seq({}) /\ Len(<<>>) = 0
  BY EmptySeq
<1>2. HidesIn({}, <<>>, <<>>)
  BY <1>1 DEF HidesIn
<1> QED BY <1>2 DEF HidesAll

(* A text of one part.                                                       *)
LEMMA HidesOne ==
  ASSUME NEW x, NEW y, Hides(x, y) PROVE HidesAll(<<x>>, <<y>>)
<1>1. <<x>> \in Seq({x, y}) /\ <<y>> \in Seq({x, y}) /\ Len(<<x>>) = 1 /\ Len(<<y>>) = 1
  OBVIOUS
<1>2. HidesIn({x, y}, <<x>>, <<y>>)
  BY <1>1 DEF HidesIn
<1> QED BY <1>2 DEF HidesAll

(* One text after another.                                                   *)
LEMMA HidesBoth ==
  ASSUME NEW s, NEW t, HidesAll(s, t), NEW u, NEW v, HidesAll(u, v)
  PROVE  HidesAll(s \o u, t \o v)
<1>1. PICK S : HidesIn(S, s, t)
  BY DEF HidesAll
<1>2. PICK T : HidesIn(T, u, v)
  BY DEF HidesAll
<1> DEFINE W == S \cup T
<1>3. S \subseteq W /\ T \subseteq W
  OBVIOUS
<1> HIDE DEF W
<1>4. HidesIn(W, s, t)
  BY <1>1, <1>3, HidesMore
<1>5. HidesIn(W, u, v)
  BY <1>2, <1>3, HidesMore
<1>6. /\ s \in Seq(W) /\ t \in Seq(W) /\ u \in Seq(W) /\ v \in Seq(W)
      /\ Len(s) = Len(t) /\ Len(u) = Len(v)
  BY <1>4, <1>5 DEF HidesIn
<1>7. /\ s \o u \in Seq(W) /\ Len(s \o u) = Len(s) + Len(u)
      /\ \A i \in 1 .. Len(s) + Len(u) : (s \o u)[i] = IF i <= Len(s) THEN s[i] ELSE u[i - Len(s)]
  BY <1>6, ConcatProperties
<1>8. /\ t \o v \in Seq(W) /\ Len(t \o v) = Len(t) + Len(v)
      /\ \A i \in 1 .. Len(t) + Len(v) : (t \o v)[i] = IF i <= Len(t) THEN t[i] ELSE v[i - Len(t)]
  BY <1>6, ConcatProperties
<1>9. Len(s) \in Nat /\ Len(u) \in Nat
  BY <1>6, LenProperties
<1>10. ASSUME NEW i \in 1 .. Len(s \o u) PROVE Hides((s \o u)[i], (t \o v)[i])
  <2>1. i \in 1 .. Len(s) + Len(u) /\ i \in 1 .. Len(t) + Len(v)
    BY <1>6, <1>7
  <2>2. CASE i <= Len(s)
    <3>1. (s \o u)[i] = s[i] /\ (t \o v)[i] = t[i]
      BY <1>6, <1>7, <1>8, <2>1, <2>2
    <3>2. i \in 1 .. Len(s)
      BY <1>9, <2>1, <2>2
    <3> QED BY <1>4, <3>1, <3>2 DEF HidesIn
  <2>3. CASE ~(i <= Len(s))
    <3>1. (s \o u)[i] = u[i - Len(s)] /\ (t \o v)[i] = v[i - Len(s)]
      BY <1>6, <1>7, <1>8, <2>1, <2>3
    <3>2. i - Len(s) \in 1 .. Len(u)
      BY <1>9, <2>1, <2>3
    <3> QED BY <1>5, <3>1, <3>2 DEF HidesIn
  <2> QED BY <2>2, <2>3
<1>11. HidesIn(W, s \o u, t \o v)
  BY <1>6, <1>7, <1>8, <1>10 DEF HidesIn
<1> QED BY <1>11 DEF HidesAll

(* A list of so many parts. *)
LEMMA HidesEach ==
  ASSUME NEW n \in Nat, NEW s, s = [i \in 1 .. n |-> s[i]], NEW t, t = [i \in 1 .. n |-> t[i]],
         \A i \in 1 .. n : Hides(s[i], t[i])
  PROVE  HidesAll(s, t)
<1> DEFINE S == {s[i] : i \in 1 .. n} \cup {t[i] : i \in 1 .. n}
<1>1. s \in [1 .. n -> S] /\ t \in [1 .. n -> S]
  OBVIOUS
<1> HIDE DEF S
<1>2. s \in Seq(S) /\ t \in Seq(S)
  BY <1>1, SeqDef
<1>3. DOMAIN s = 1 .. n /\ DOMAIN t = 1 .. n
  BY <1>1
<1>4. Len(s) = n /\ Len(t) = n
  BY <1>2, <1>3, LenProperties
<1>5. HidesIn(S, s, t)
  BY <1>2, <1>4 DEF HidesIn
<1> QED BY <1>5 DEF HidesAll

-----------------------------------------------------------------------------
(* The fold of the turns' parts exists, for any number of turns.             *)
IsFlat(f, n, seqs) == f = [i \in 1 .. n |-> IF i = 1 THEN seqs[i] ELSE f[i - 1] \o seqs[i]]

(* It is shown by the least number of turns for which it would not.          *)
LEMMA FlatExists ==
  ASSUME NEW seqs, NEW n \in Nat PROVE \E f : IsFlat(f, n, seqs)
<1> DEFINE Bad == {m \in Nat : ~\E f : IsFlat(f, m, seqs)}
<1>1. SUFFICES ASSUME Bad # {} PROVE FALSE
  OBVIOUS
<1>2. PICK m \in Bad : \A k \in Bad : m <= k
  <2>1. Bad \in SUBSET Nat
    OBVIOUS
  <2> HIDE DEF Bad
  <2> QED BY <1>1, <2>1, LeastNumber
<1>3. m # 0
  <2> DEFINE f == [i \in 1 .. 0 |-> seqs[i]]
  <2>1. IsFlat(f, 0, seqs)
    <3>1. 1 .. 0 = {}
      OBVIOUS
    <3> QED BY <3>1 DEF IsFlat
  <2> HIDE DEF f
  <2> QED BY <2>1
<1>4. m - 1 \in Nat /\ m - 1 \notin Bad
  BY <1>2, <1>3
<1>5. PICK f : IsFlat(f, m - 1, seqs)
  BY <1>4
<1> DEFINE g == [i \in 1 .. m |-> IF i = m THEN (IF i = 1 THEN seqs[i] ELSE f[i - 1] \o seqs[i]) ELSE f[i]]
<1>6. ASSUME NEW i \in 1 .. m
      PROVE  g[i] = IF i = 1 THEN seqs[i] ELSE g[i - 1] \o seqs[i]
  <2>1. CASE i = m
    <3>1. i # 1 => i - 1 \in 1 .. m /\ i - 1 # m
      BY <2>1
    <3>2. i # 1 => g[i - 1] = f[i - 1]
      BY <3>1
    <3> QED BY <2>1, <3>2
  <2>2. CASE i # m
    <3>1. i \in 1 .. m - 1
      BY <2>2
    <3>2. f[i] = IF i = 1 THEN seqs[i] ELSE f[i - 1] \o seqs[i]
      BY <1>5, <3>1 DEF IsFlat
    <3>3. i # 1 => i - 1 \in 1 .. m /\ i - 1 # m
      BY <3>1
    <3>4. i # 1 => g[i - 1] = f[i - 1]
      BY <3>3
    <3>5. g[i] = f[i]
      BY <2>2
    <3> HIDE DEF g
    <3> QED BY <3>2, <3>4, <3>5
  <2> QED BY <2>1, <2>2
<1>7. g = [i \in 1 .. m |-> g[i]]
  OBVIOUS
<1> HIDE DEF g
<1>8. IsFlat(g, m, seqs)
  BY <1>6, <1>7 DEF IsFlat
<1> QED BY <1>2, <1>8

(* Lists of lists, one after another. *)
LEMMA HidesFlat ==
  ASSUME NEW n \in Nat, NEW ss, ss = [i \in 1 .. n |-> ss[i]], NEW tt, tt = [i \in 1 .. n |-> tt[i]],
         \A i \in 1 .. n : HidesAll(ss[i], tt[i])
  PROVE  HidesAll(FlattenSeq(ss), FlattenSeq(tt))
<1> DEFINE flat(seqs) == CHOOSE f : IsFlat(f, n, seqs)
<1>1. ASSUME NEW seqs, seqs = [i \in 1 .. n |-> seqs[i]]
      PROVE  /\ Len(seqs) = n
             /\ IsFlat(flat(seqs), n, seqs)
             /\ FlattenSeq(seqs) = IF n = 0 THEN seqs ELSE flat(seqs)[n]
  <2>1. Len(seqs) = n
    <3> DEFINE S == {seqs[i] : i \in 1 .. n}
    <3>1. seqs \in [1 .. n -> S]
      BY <1>1
    <3> HIDE DEF S
    <3>2. seqs \in Seq(S) /\ DOMAIN seqs = 1 .. n
      BY <3>1, SeqDef
    <3> QED BY <3>2, LenProperties
  <2>2. IsFlat(flat(seqs), n, seqs)
    BY FlatExists
  <2>3. FlattenSeq(seqs) = IF n = 0 THEN seqs ELSE flat(seqs)[n]
    BY <2>1 DEF FlattenSeq, IsFlat
  <2> QED BY <2>1, <2>2, <2>3
<1> DEFINE f == flat(ss)  g == flat(tt)
<1>2. IsFlat(f, n, ss) /\ FlattenSeq(ss) = IF n = 0 THEN ss ELSE f[n]
  <2> HIDE DEF flat
  <2> QED BY <1>1
<1>3. IsFlat(g, n, tt) /\ FlattenSeq(tt) = IF n = 0 THEN tt ELSE g[n]
  <2> HIDE DEF flat
  <2> QED BY <1>1
<1> HIDE DEF f, g
<1>4. CASE n = 0
  <2>1. ss = <<>> /\ tt = <<>>
    <3>1. 1 .. n = {}
      BY <1>4
    <3> QED BY <3>1
  <2> QED BY <1>2, <1>3, <1>4, <2>1, HidesNone
<1>5. CASE n # 0
  <2> DEFINE Bad == {m \in 1 .. n : ~HidesAll(f[m], g[m])}
  <2>1. Bad = {}
    <3>1. SUFFICES ASSUME Bad # {} PROVE FALSE
      OBVIOUS
    <3>2. PICK m \in Bad : \A k \in Bad : m <= k
      <4>1. Bad \in SUBSET Nat
        OBVIOUS
      <4> HIDE DEF Bad
      <4> QED BY <3>1, <4>1, LeastNumber
    <3>3. m \in 1 .. n /\ ~HidesAll(f[m], g[m])
      OBVIOUS
    <3>4. /\ f[m] = IF m = 1 THEN ss[m] ELSE f[m - 1] \o ss[m]
          /\ g[m] = IF m = 1 THEN tt[m] ELSE g[m - 1] \o tt[m]
      BY <1>2, <1>3, <3>3 DEF IsFlat
    <3>5. CASE m = 1
      BY <3>3, <3>4, <3>5
    <3>6. CASE m # 1
      <4>1. m - 1 \in 1 .. n /\ m - 1 \notin Bad
        BY <3>2, <3>3, <3>6
      <4>2. HidesAll(f[m - 1], g[m - 1])
        BY <4>1
      <4>3. HidesAll(ss[m], tt[m])
        BY <3>3
      <4> DEFINE a == f[m - 1]  b == g[m - 1]  c == ss[m]  d == tt[m]
      <4> HIDE DEF a, b, c, d
      <4>4. HidesAll(a \o c, b \o d)
        BY <4>2, <4>3, HidesBoth DEF a, b, c, d
      <4> QED BY <3>3, <3>4, <3>6, <4>4 DEF a, b, c, d
    <3> QED BY <3>5, <3>6
  <2>2. HidesAll(f[n], g[n])
    BY <1>5, <2>1
  <2> QED BY <1>2, <1>3, <1>5, <2>2
<1> QED BY <1>4, <1>5

-----------------------------------------------------------------------------
(* The parts of a document.                                                  *)


(* A redacted tool call tells its name and whether it failed, not its input  *)
(* or its result.                                                            *)
LEMMA CallHides ==
  ASSUME NEW c, c.input # None, NoneIsNoAnswer PROVE Hides(RenderToolCall(c, FALSE), RenderToolCall(c, TRUE))
<1>1. None # "redacted"
  BY DEF NoneIsNoAnswer
<1> DEFINE x == RenderToolCall(c, FALSE)  y == RenderToolCall(c, TRUE)
<1>2. /\ x = [part |-> "tool", name |-> c.name, error |-> c.error, input |-> c.input,
              result |-> IF c.result = None THEN None ELSE c.result]
      /\ y = [part |-> "tool", name |-> c.name, error |-> c.error, input |-> "redacted",
              result |-> IF c.result = None THEN None ELSE "redacted"]
  BY DEF RenderToolCall, Shown
<1> HIDE DEF x, y
<1>3. DOMAIN x = {"part", "name", "error", "input", "result"} /\ DOMAIN y = DOMAIN x
  BY <1>2
<1>4. /\ y.part = x.part /\ y.name = x.name /\ y.error = x.error
      /\ y.input = "redacted" /\ x.input # None
      /\ y.result \in {None, "redacted"} /\ (y.result = None <=> x.result = None)
  BY <1>1, <1>2
<1>5. Hides(x, y)
  BY <1>1, <1>3, <1>4 DEF Hides, TextFields
<1> QED BY <1>5 DEF x, y

(* A redacted rating tells its value, not its note.                          *)
LEMMA RatingHides ==
  ASSUME NEW r, NoneIsNoAnswer PROVE Hides(RenderRating(r, FALSE), RenderRating(r, TRUE))
<1>1. None # "redacted"
  BY DEF NoneIsNoAnswer
<1> DEFINE x == RenderRating(r, FALSE)  y == RenderRating(r, TRUE)
<1>2. /\ x = [part |-> "rating", value |-> r.value, note |-> IF r.note \in {None, ""} THEN None ELSE r.note]
      /\ y = [part |-> "rating", value |-> r.value, note |-> IF r.note \in {None, ""} THEN None ELSE "redacted"]
  BY DEF RenderRating, Shown
<1> HIDE DEF x, y
<1>3. DOMAIN x = {"part", "value", "note"} /\ DOMAIN y = DOMAIN x
  BY <1>2
<1>4. /\ y.part = x.part /\ y.value = x.value
      /\ y.note \in {None, "redacted"} /\ (y.note = None <=> x.note = None)
  BY <1>1, <1>2
<1>5. Hides(x, y)
  BY <1>3, <1>4 DEF Hides, TextFields
<1> QED BY <1>5 DEF x, y

(* A redacted text is one mark.                                              *)
LEMMA TextHides ==
  ASSUME NEW part, NEW text, text # None, NoneIsNoAnswer
  PROVE  Hides([part |-> part, text |-> Shown(text, FALSE)], [part |-> part, text |-> Shown(text, TRUE)])
<1> DEFINE x == [part |-> part, text |-> Shown(text, FALSE)]  y == [part |-> part, text |-> Shown(text, TRUE)]
<1>1. x.part = part /\ y.part = part /\ x.text = text /\ y.text = "redacted"
  BY DEF Shown
<1>2. DOMAIN x = {"part", "text"} /\ DOMAIN y = {"part", "text"} /\ None # "redacted"
  BY DEF NoneIsNoAnswer
<1> HIDE DEF x, y
<1>3. Hides(x, y)
  BY <1>1, <1>2 DEF Hides, TextFields
<1> QED BY <1>3 DEF x, y

(* A part that has no text is left as it is. *)
LEMMA PlainHides ==
  ASSUME NEW x, DOMAIN x \cap TextFields = {} PROVE Hides(x, x)
BY DEF Hides

(* A text that is given. *)
TextPart(part, text, redact) ==
  IF text \in {None, ""} THEN <<>> ELSE <<[part |-> part, text |-> Shown(text, redact)]>>

(* A prompt or an answer, where there is one.                                *)
LEMMA TextPartHides ==
  ASSUME NEW part, NEW text, NoneIsNoAnswer
  PROVE  HidesAll(TextPart(part, text, FALSE), TextPart(part, text, TRUE))
<1>1. CASE text \in {None, ""}
  BY <1>1, HidesNone DEF TextPart
<1>2. CASE text \notin {None, ""}
  <2> DEFINE x == [part |-> part, text |-> Shown(text, FALSE)]  y == [part |-> part, text |-> Shown(text, TRUE)]
  <2>1. TextPart(part, text, FALSE) = <<x>> /\ TextPart(part, text, TRUE) = <<y>>
    BY <1>2 DEF TextPart
  <2>2. Hides(x, y)
    BY <1>2, TextHides
  <2> HIDE DEF x, y
  <2>3. HidesAll(<<x>>, <<y>>)
    BY <2>2, HidesOne
  <2> QED BY <2>1, <2>3
<1> QED BY <1>1, <1>2

CallParts(t, redact) == [i \in DOMAIN t.calls |-> RenderToolCall(t.calls[i], redact)]

(* The tool calls of a turn.                                                 *)
LEMMA CallPartsHide ==
  ASSUME NEW t, Len(t.calls) \in Nat, DOMAIN t.calls = 1 .. Len(t.calls),
         \A j \in DOMAIN t.calls : t.calls[j].input # None, NoneIsNoAnswer
  PROVE  HidesAll(CallParts(t, FALSE), CallParts(t, TRUE))
<1> DEFINE n == Len(t.calls)  x == CallParts(t, FALSE)  y == CallParts(t, TRUE)
<1>1. n \in Nat /\ x = [i \in 1 .. n |-> x[i]] /\ y = [i \in 1 .. n |-> y[i]]
  BY DEF CallParts
<1>2. ASSUME NEW i \in 1 .. n PROVE Hides(x[i], y[i])
  <2>1. x[i] = RenderToolCall(t.calls[i], FALSE) /\ y[i] = RenderToolCall(t.calls[i], TRUE)
    BY DEF CallParts
  <2>2. t.calls[i].input # None
    OBVIOUS
  <2> DEFINE c == t.calls[i]
  <2> HIDE DEF c, x, y
  <2>3. Hides(RenderToolCall(c, FALSE), RenderToolCall(c, TRUE))
    BY <2>2, CallHides DEF c
  <2> QED BY <2>1, <2>3 DEF c
<1> HIDE DEF n, x, y
<1>3. HidesAll(x, y)
  BY <1>1, <1>2, HidesEach
<1> QED BY <1>3 DEF x, y

RatingPart(t, redact) == IF t.rating = None THEN <<>> ELSE <<RenderRating(t.rating, redact)>>

(* The rating of a turn, where there is one.                                 *)
LEMMA RatingPartHides ==
  ASSUME NEW t, NoneIsNoAnswer PROVE HidesAll(RatingPart(t, FALSE), RatingPart(t, TRUE))
<1>1. CASE t.rating = None
  BY <1>1, HidesNone DEF RatingPart
<1>2. CASE t.rating # None
  <2> DEFINE x == RenderRating(t.rating, FALSE)  y == RenderRating(t.rating, TRUE)
  <2>1. RatingPart(t, FALSE) = <<x>> /\ RatingPart(t, TRUE) = <<y>>
    BY <1>2 DEF RatingPart
  <2>2. Hides(x, y)
    BY RatingHides
  <2> HIDE DEF x, y
  <2>3. HidesAll(<<x>>, <<y>>)
    BY <2>2, HidesOne
  <2> QED BY <2>1, <2>3
<1> QED BY <1>1, <1>2

Blocks(t, redact) ==
  TextPart("prompt", t.prompt, redact) \o TextPart("answer", t.answer, redact)
    \o CallParts(t, redact) \o RatingPart(t, redact)

(* What a turn says.                                                         *)
LEMMA TurnHides ==
  ASSUME NEW t, Len(t.calls) \in Nat, DOMAIN t.calls = 1 .. Len(t.calls),
         \A j \in DOMAIN t.calls : t.calls[j].input # None, NoneIsNoAnswer
  PROVE  HidesAll(RenderTurn(t, FALSE), RenderTurn(t, TRUE))
<1> DEFINE a(r) == TextPart("prompt", t.prompt, r)  b(r) == TextPart("answer", t.answer, r)
           c(r) == CallParts(t, r)  d(r) == RatingPart(t, r)
           head == [part |-> "turn", model |-> t.model]  none == [part |-> "empty"]
           x == Blocks(t, FALSE)  y == Blocks(t, TRUE)
<1>1. HidesAll(a(FALSE), a(TRUE)) /\ HidesAll(b(FALSE), b(TRUE))
  BY TextPartHides
<1>2. HidesAll(c(FALSE), c(TRUE)) /\ HidesAll(d(FALSE), d(TRUE))
  BY CallPartsHide, RatingPartHides
<1>3. x = a(FALSE) \o b(FALSE) \o c(FALSE) \o d(FALSE) /\ y = a(TRUE) \o b(TRUE) \o c(TRUE) \o d(TRUE)
  BY DEF Blocks
<1> HIDE DEF a, b, c, d
<1>4. HidesAll(a(FALSE) \o b(FALSE), a(TRUE) \o b(TRUE))
  BY <1>1, HidesBoth
<1>5. HidesAll(a(FALSE) \o b(FALSE) \o c(FALSE), a(TRUE) \o b(TRUE) \o c(TRUE))
  BY <1>2, <1>4, HidesBoth
<1>6. HidesAll(x, y)
  BY <1>2, <1>3, <1>5, HidesBoth
<1>7. /\ RenderTurn(t, FALSE) = <<head>> \o (IF x = <<>> THEN <<none>> ELSE x)
      /\ RenderTurn(t, TRUE) = <<head>> \o (IF y = <<>> THEN <<none>> ELSE y)
  BY DEF RenderTurn, Blocks, TextPart, CallParts, RatingPart
<1> HIDE DEF x, y
<1>8. x = <<>> <=> y = <<>>
  <2>1. PICK S : x \in Seq(S) /\ y \in Seq(S) /\ Len(x) = Len(y)
    BY <1>6 DEF HidesAll, HidesIn
  <2> QED BY <2>1, EmptySeq
<1>9. Hides(head, head) /\ Hides(none, none)
  <2>1. DOMAIN head = {"part", "model"} /\ DOMAIN none = {"part"}
    OBVIOUS
  <2>2. DOMAIN head \cap TextFields = {} /\ DOMAIN none \cap TextFields = {}
    BY <2>1 DEF TextFields
  <2> HIDE DEF head, none
  <2> QED BY <2>2, PlainHides
<1> HIDE DEF head, none
<1>10. HidesAll(<<head>>, <<head>>) /\ HidesAll(<<none>>, <<none>>)
  BY <1>9, HidesOne
<1>11. HidesAll(<<head>> \o x, <<head>> \o y) /\ HidesAll(<<head>> \o <<none>>, <<head>> \o <<none>>)
  BY <1>6, <1>10, HidesBoth
<1> QED BY <1>7, <1>8, <1>11

(* What comes before the turns has no texts. *)
LEMMA HeadHides ==
  ASSUME NEW doc, IsFiniteSet(doc.breakdown)
  PROVE  LET head == <<[part |-> "session", project |-> doc.project, source |-> doc.source]>>
                       \o RenderOtel(doc.otel) \o RenderSubagents(doc.breakdown)
         IN HidesAll(head, head)
<1> DEFINE h == [part |-> "session", project |-> doc.project, source |-> doc.source]
           o == RenderOtel(doc.otel)  a == RenderSubagents(doc.breakdown)
<1>1. HidesAll(<<h>>, <<h>>)
  <2>1. DOMAIN h = {"part", "project", "source"}
    OBVIOUS
  <2>2. DOMAIN h \cap TextFields = {}
    BY <2>1 DEF TextFields
  <2> HIDE DEF h
  <2>3. Hides(h, h)
    BY <2>2, PlainHides
  <2> QED BY <2>3, HidesOne
<1>2. HidesAll(o, o)
  <2> DEFINE x == [part |-> "otel", accepts |-> doc.otel.acceptRate, active |-> doc.otel.activeSeconds > 0]
  <2>1. o = <<>> \/ o = <<x>>
    BY DEF RenderOtel
  <2>2. DOMAIN x = {"part", "accepts", "active"}
    OBVIOUS
  <2>3. DOMAIN x \cap TextFields = {}
    BY <2>2 DEF TextFields
  <2> HIDE DEF x, o
  <2>4. Hides(x, x)
    BY <2>3, PlainHides
  <2>5. HidesAll(<<x>>, <<x>>)
    BY <2>4, HidesOne
  <2> QED BY <2>1, <2>5, HidesNone
<1>3. HidesAll(a, a)
  <2> DEFINE n == Cardinality(doc.breakdown)
  <2>1. n \in Nat
    BY FS_CardinalityType
  <2>2. a = [i \in 1 .. n |-> a[i]] /\ \A i \in 1 .. n : \E row : a[i] = [part |-> "agent", type |-> row.type, cost |-> row.cost]
    BY DEF RenderSubagents
  <2> HIDE DEF a, n
  <2>3. ASSUME NEW i \in 1 .. n PROVE Hides(a[i], a[i])
    <3>1. PICK row : a[i] = [part |-> "agent", type |-> row.type, cost |-> row.cost]
      BY <2>2
    <3>2. DOMAIN a[i] = {"part", "type", "cost"}
      BY <3>1
    <3>3. DOMAIN a[i] \cap TextFields = {}
      BY <3>2 DEF TextFields
    <3> QED BY <3>3, PlainHides
  <2> QED BY <2>1, <2>2, <2>3, HidesEach
<1> HIDE DEF h, o, a
<1>4. HidesAll(<<h>> \o o, <<h>> \o o)
  BY <1>1, <1>2, HidesBoth
<1>5. HidesAll(<<h>> \o o \o a, <<h>> \o o \o a)
  BY <1>3, <1>4, HidesBoth
<1> QED BY <1>5 DEF h, o, a

(* For any session: the redacted text has the parts of the whole one and what   *)
(* they are about, and none of the texts (renderSessionMarkdown).             *)
THEOREM RedactionAlwaysHides ==
  ASSUME NEW input, ShareFits(input), NoneIsNoAnswer PROVE RedactionHides(input)
<1> DEFINE whole == RenderSessionMarkdown(input, FALSE)  cut == RenderSessionMarkdown(input, TRUE)
           head == <<[part |-> "session", project |-> input.project, source |-> input.source]>>
                     \o RenderOtel(input.otel) \o RenderSubagents(input.breakdown)
           n == Len(input.turns)
           ss == [i \in DOMAIN input.turns |-> RenderTurn(input.turns[i], FALSE)]
           tt == [i \in DOMAIN input.turns |-> RenderTurn(input.turns[i], TRUE)]
<1>1. whole = head \o FlattenSeq(ss) /\ cut = head \o FlattenSeq(tt)
  BY DEF RenderSessionMarkdown
<1>2. HidesAll(head, head)
  <2>1. IsFiniteSet(input.breakdown)
    BY DEF ShareFits
  <2> QED BY <2>1, HeadHides
<1>3. n \in Nat /\ DOMAIN input.turns = 1 .. n
  BY DEF ShareFits
<1>4. ss = [i \in 1 .. n |-> ss[i]] /\ tt = [i \in 1 .. n |-> tt[i]]
  BY <1>3
<1>5. ASSUME NEW i \in 1 .. n PROVE HidesAll(ss[i], tt[i])
  <2> DEFINE t == input.turns[i]
  <2>1. ss[i] = RenderTurn(t, FALSE) /\ tt[i] = RenderTurn(t, TRUE)
    BY <1>3
  <2>2. /\ Len(t.calls) \in Nat /\ DOMAIN t.calls = 1 .. Len(t.calls)
        /\ \A j \in DOMAIN t.calls : t.calls[j].input # None
    BY <1>3 DEF ShareFits
  <2> HIDE DEF ss, tt, t
  <2>3. HidesAll(RenderTurn(t, FALSE), RenderTurn(t, TRUE))
    BY <2>2, TurnHides
  <2> QED BY <2>1, <2>3
<1> HIDE DEF head, ss, tt, n
<1>6. HidesAll(FlattenSeq(ss), FlattenSeq(tt))
  BY <1>3, <1>4, <1>5, HidesFlat
<1>7. HidesAll(whole, cut)
  BY <1>1, <1>2, <1>6, HidesBoth
<1> HIDE DEF whole, cut
<1>8. PICK S : HidesIn(S, whole, cut)
  BY <1>7 DEF HidesAll
<1>9. /\ whole \in Seq(S) /\ cut \in Seq(S) /\ Len(whole) = Len(cut)
      /\ \A i \in 1 .. Len(whole) : Hides(whole[i], cut[i])
  BY <1>8 DEF HidesIn
<1>10. DOMAIN whole = 1 .. Len(whole) /\ DOMAIN cut = 1 .. Len(cut)
  BY <1>9, LenProperties
<1>11. ASSUME NEW i \in DOMAIN whole
       PROVE  /\ DOMAIN cut[i] = DOMAIN whole[i]
              /\ \A k \in DOMAIN cut[i] \cap TextFields : cut[i][k] \in {None, "redacted"}
              /\ \A k \in DOMAIN cut[i] \cap TextFields : (cut[i][k] = None) = (whole[i][k] = None)
              /\ \A k \in DOMAIN cut[i] \ TextFields : cut[i][k] = whole[i][k]
  <2> DEFINE x == whole[i]  y == cut[i]
  <2>1. Hides(x, y)
    BY <1>9, <1>10
  <2> HIDE DEF x, y
  <2>2. ASSUME NEW k \in DOMAIN y \cap TextFields PROVE (y[k] = None) = (x[k] = None)
    <3> DEFINE p == y[k] = None  q == x[k] = None
    <3>1. p \in BOOLEAN /\ q \in BOOLEAN /\ (p <=> q)
      BY <2>1 DEF Hides
    <3> HIDE DEF p, q
    <3>2. p = q
      BY <3>1
    <3> QED BY <3>2 DEF p, q
  <2>3. /\ DOMAIN y = DOMAIN x
        /\ \A k \in DOMAIN y \cap TextFields : y[k] \in {None, "redacted"}
        /\ \A k \in DOMAIN y \ TextFields : y[k] = x[k]
    BY <2>1 DEF Hides
  <2> QED BY <2>2, <2>3, Zenon DEF x, y
<1> DEFINE Fields == {"text", "input", "result", "note"}
<1>12. RedactionHides(input) <=>
         /\ DOMAIN cut = DOMAIN whole
         /\ \A i \in DOMAIN whole :
              /\ DOMAIN cut[i] = DOMAIN whole[i]
              /\ \A k \in DOMAIN cut[i] \cap TextFields : cut[i][k] \in {None, "redacted"}
              /\ \A k \in DOMAIN cut[i] \cap TextFields : (cut[i][k] = None) = (whole[i][k] = None)
              /\ \A k \in DOMAIN cut[i] \ TextFields : cut[i][k] = whole[i][k]
  BY DEF RedactionHides, TextFields, whole, cut
<1>13. DOMAIN cut = DOMAIN whole
  BY <1>9, <1>10
<1> QED BY <1>11, <1>12, <1>13, Zenon
=============================================================================
