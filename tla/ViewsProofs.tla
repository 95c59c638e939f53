---------------------------- MODULE ViewsProofs ----------------------------
(***************************************************************************)
(* The views of the server agree, whatever the tables hold.  SpendViews and  *)
(* TeamViews say what two of them have in common; each of those properties is *)
(* proved here for every snapshot that fits (SnapshotFits), every log and     *)
(* every sample, of which Server checks a few.                               *)
(*                                                                         *)
(* Most of it is about sums, and rests on the lemmas of CostProofs.          *)
(***************************************************************************)
EXTENDS TeamViews, CostProofs, SequenceTheorems

-----------------------------------------------------------------------------
(* Calibration lent by an organisation (overview.ts,                        *)
(* buildOrgGlobalCalibration): a weighted mean of rates lies between the    *)
(* least and the greatest of them.                                          *)

(* No more ids than users.                                                  *)
LEMMA IdsAreFinite ==
  ASSUME NEW users, IsFiniteSet(users)
  PROVE  IsFiniteSet(MemberIds(users)) /\ Cardinality(MemberIds(users)) <= Cardinality(users)
<1> DEFINE f == [u \in users |-> u.id]
<1>1. MemberIds(users) = {f[u] : u \in users}
  BY DEF MemberIds
<1> HIDE DEF f
<1> QED BY <1>1, ImageIsFinite

(* Each lent rate is the weighted mean of rates in bounds, hence in bounds. *)
LEMMA LentRates ==
  ASSUME NEW db, NEW org, SnapshotFits(db)
  PROVE  LET lent == BuildOrgGlobalCalibration(LoadCalibrationByUser(db, org))
         IN \A f \in DOMAIN lent : lent[f] \in RateEntries /\ IsRateInBounds(lent[f])
<1> DEFINE byUser == LoadCalibrationByUser(db, org)
           lent == BuildOrgGlobalCalibration(byUser)
<1>1. SUFFICES ASSUME NEW f \in DOMAIN lent PROVE lent[f] \in RateEntries /\ IsRateInBounds(lent[f])
  OBVIOUS
<1> DEFINE having == {u \in DOMAIN byUser : f \in DOMAIN byUser[u]}
           otel == [u \in having |-> byUser[u][f].otel]
           local == [u \in having |-> byUser[u][f].local]
<1>2. /\ lent[f] = [otel |-> MapThenSumSet(LAMBDA u : byUser[u][f].otel, having),
                    local |-> MapThenSumSet(LAMBDA u : byUser[u][f].local, having)]
      /\ lent[f].local > 0
  BY DEF BuildOrgGlobalCalibration
<1>3. ASSUME NEW u \in having PROVE byUser[u][f] \in RateEntries /\ IsRateInBounds(byUser[u][f])
  <2>1. u \in MemberIds(db.users) /\ byUser[u] = db.calibrations[u] /\ f \in DOMAIN db.calibrations[u]
    BY DEF LoadCalibrationByUser, MemberIds, Members
  <2> QED BY <2>1 DEF SnapshotFits, RatesFit
<1>4. IsFiniteSet(having)
  <2>1. having \subseteq {u.id : u \in db.users}
    BY DEF LoadCalibrationByUser, MemberIds, Members
  <2> USE DEF SnapshotFits, StoredFits
  <2>2. IsFiniteSet({u.id : u \in db.users})
    BY IdsAreFinite DEF MemberIds
  <2> QED BY <2>1, <2>2, FS_Subset
<1>5. /\ MapThenSumSet(LAMBDA u : byUser[u][f].otel, having) = Sigma(otel, having)
      /\ MapThenSumSet(LAMBDA u : byUser[u][f].local, having) = Sigma(local, having)
  <2> HIDE DEF byUser, having
  <2> DEFINE Otel(g) == g = [s \in SUBSET having |-> IF s = {} THEN 0
               ELSE byUser[CHOOSE x \in s : TRUE][f].otel + g[s \ {CHOOSE x \in s : TRUE}]]
             Local(g) == g = [s \in SUBSET having |-> IF s = {} THEN 0
               ELSE byUser[CHOOSE x \in s : TRUE][f].local + g[s \ {CHOOSE x \in s : TRUE}]]
  <2>1. \A s \in SUBSET having : s # {} => Chosen(s) \in having
    BY ChosenIn
  <2>2. \A g : (Otel(g) <=> IsSum(g, otel, having)) /\ (Local(g) <=> IsSum(g, local, having))
    BY <2>1 DEF IsSum, Chosen
  <2>3. /\ (CHOOSE g : Otel(g)) = CHOOSE g : IsSum(g, otel, having)
        /\ (CHOOSE g : Local(g)) = CHOOSE g : IsSum(g, local, having)
    <3> HIDE DEF Otel, Local, otel, local
    <3> QED BY <2>2, Zenon
  <2>4. /\ MapThenSumSet(LAMBDA u : byUser[u][f].otel, having) = (CHOOSE g : Otel(g))[having]
        /\ MapThenSumSet(LAMBDA u : byUser[u][f].local, having) = (CHOOSE g : Local(g))[having]
    BY DEF MapThenSumSet, MapThenFoldSet
  <2> QED BY <2>3, <2>4 DEF Sigma
<1> HIDE DEF byUser, lent, having
<1>6. /\ otel \in [having -> Int] /\ local \in [having -> Int]
      /\ \A u \in having : local[u] <= 100 * otel[u] /\ otel[u] <= 2 * local[u]
  BY <1>3 DEF RateEntries, IsRateInBounds
<1>7. /\ Sigma(local, having) <= Sigma([u \in having |-> 100 * otel[u]], having)
      /\ Sigma(otel, having) <= Sigma([u \in having |-> 2 * local[u]], having)
  <2> DEFINE more == [u \in having |-> 100 * otel[u]]  twice == [u \in having |-> 2 * local[u]]
  <2>1. more \in [having -> Int] /\ twice \in [having -> Int]
    BY <1>6
  <2>2. \A u \in having : local[u] <= more[u] /\ otel[u] <= twice[u]
    BY <1>6
  <2> HIDE DEF more, twice, local, otel
  <2>3. Sigma(local, having) <= Sigma(more, having) /\ Sigma(otel, having) <= Sigma(twice, having)
    BY <1>4, <1>6, <2>1, <2>2, SigmaAtMost
  <2> QED BY <2>3 DEF more, twice
<1>8. /\ Sigma([u \in having |-> 100 * otel[u]], having) = 100 * Sigma(otel, having)
      /\ Sigma([u \in having |-> 2 * local[u]], having) = 2 * Sigma(local, having)
  <2> HIDE DEF otel, local
  <2> QED BY <1>4, <1>6, SigmaTimes
<1> HIDE DEF otel, local
<1>9. Sigma(otel, having) \in Nat /\ Sigma(local, having) \in Nat
  <2>1. \A u \in having : otel[u] >= 0 /\ local[u] >= 0
    BY <1>3 DEF RateEntries, otel, local
  <2>2. Sigma(otel, having) \in Int /\ Sigma(local, having) \in Int
    BY <1>4, <1>6, SigmaTakes
  <2>3. Sigma(otel, having) >= 0 /\ Sigma(local, having) >= 0
    BY <1>4, <1>6, <2>1, SigmaGrows
  <2> QED BY <2>2, <2>3
<1> QED BY <1>2, <1>5, <1>7, <1>8, <1>9 DEF IsRateInBounds, RateEntries

(* The calibration that an organisation lends to users without their own is *)
(* within the bounds that the ingest enforces on each (overview.ts,         *)
(* buildOrgGlobalCalibration).                                              *)
THEOREM LentRatesAlwaysUsable ==
  ASSUME NEW db, NEW org, SnapshotFits(db)
  PROVE  LentRatesUsable(db, org)
BY LentRates DEF LentRatesUsable

-----------------------------------------------------------------------------
(* Spikes (anomaly-detection.ts, detectSpike).                              *)

(* With nine members at most nobody is three standard deviations out. *)
LEMMA NoSpike ==
  ASSUME NEW k \in 0 .. 8, NEW x \in Int, NEW t \in Int, NEW q \in Int, t * t <= k * q,
         LET n == k + 1
             v == n * (q + x * x) - (t + x) * (t + x)
             e == n * x - (t + x)
         IN v > 0 /\ e * e >= 9 * v
  PROVE  FALSE
<1> DEFINE v == (k + 1) * (q + x * x) - (t + x) * (t + x)
           e == (k + 1) * x - (t + x)
           tt == t * t  tx == t * x  xx == x * x
<1>1. tt \in Int /\ tx \in Int /\ xx \in Int /\ tt <= k * q
  OBVIOUS
<1>2. (t + x) * (t + x) = tt + 2 * tx + xx
  OBVIOUS
<1>3. e = k * x - t
  OBVIOUS
<1>4. (k * x - t) * (k * x - t) = k * (k * xx) - 2 * (k * tx) + tt
  OBVIOUS
<1>5. v = (k + 1) * (q + xx) - (tt + 2 * tx + xx)
  BY <1>2
<1>6. v > 0 /\ k * (k * xx) - 2 * (k * tx) + tt >= 9 * v
  BY <1>3, <1>4
<1> HIDE DEF v, e, tt, tx, xx
<1>7. k \in {0, 1, 2, 3, 4, 5, 6, 7, 8}
  OBVIOUS
<1> QED BY <1>1, <1>5, <1>6, <1>7

(* For any sample of whole numbers: whoever spends more than three standard *)
(* deviations above the mean of his team has nine colleagues at least, so   *)
(* that the guard of the cron job on teams of fewer than five decides nothing*)
(* about spikes (anomaly-detection.ts, detectSpike). The square of a sum is *)
(* at most the number of its terms times the sum of their squares.          *)
THEOREM SpikesAlwaysNeedTen ==
  ASSUME NEW D, IsFiniteSet(D), NEW sample \in [D -> Int]
  PROVE  SpikesNeedTen(sample)
<1> DEFINE sq == [x \in D |-> sample[x] * sample[x]]
<1>0. DOMAIN sample = D /\ sample = [x \in D |-> sample[x]] /\ sq \in [D -> Int]
  OBVIOUS
<1>1. SampleSum(sample) = Sigma(sample, D)
  <2>1. SampleSum(sample) = SumOver(sample)
    BY DEF SampleSum, SumOver
  <2> QED BY <1>0, <2>1, SumOverIsSigma
<1>2. SampleSquares(sample) = Sigma(sq, D)
  <2> DEFINE Is(g) == g = [s \in SUBSET D |-> IF s = {} THEN 0
               ELSE sample[CHOOSE x \in s : TRUE] * sample[CHOOSE x \in s : TRUE]
                      + g[s \ {CHOOSE x \in s : TRUE}]]
  <2>1. \A s \in SUBSET D : s # {} => Chosen(s) \in D
    BY ChosenIn
  <2>2. \A g : Is(g) <=> IsSum(g, sq, D)
    BY <2>1 DEF IsSum, Chosen
  <2>3. (CHOOSE g : Is(g)) = CHOOSE g : IsSum(g, sq, D)
    <3> HIDE DEF Is, sq
    <3> QED BY <2>2, Zenon
  <2>4. SampleSquares(sample) = (CHOOSE g : Is(g))[D]
    BY <1>0 DEF SampleSquares, MapThenSumSet, MapThenFoldSet
  <2>5. DOMAIN sq = D
    OBVIOUS
  <2> QED BY <2>3, <2>4, <2>5 DEF Sigma
<1>3. SUFFICES ASSUME NEW i \in D, DetectSpike(sample, i), Cardinality(D) < 10 PROVE FALSE
  <2>1. Cardinality(D) \in Nat
    BY FS_CardinalityType
  <2> QED BY <1>0, <2>1 DEF SpikesNeedTen
<1> DEFINE A == D \ {i}  k == Cardinality(A)  x == sample[i]
           t == Sigma(sample, A)  q == Sigma(sq, A)
<1>4. k \in 0 .. 8 /\ Cardinality(D) = k + 1
  <2>1. IsFiniteSet(A) /\ k \in Nat /\ Cardinality(D) \in Nat
    BY FS_Subset, FS_CardinalityType
  <2>2. k = Cardinality(D) - 1
    BY FS_RemoveElement
  <2> QED BY <1>3, <2>1, <2>2
<1>5. x \in Int /\ sq[i] = x * x
  OBVIOUS
<1>6. t \in Int /\ q \in Int /\ Sigma(sample, D) = x + t /\ Sigma(sq, D) = x * x + q
  <2> HIDE DEF sq
  <2>1. Sigma(sample, D) = sample[i] + Sigma(sample, A) /\ Sigma(sample, A) \in Int
    BY SigmaTakes
  <2>2. Sigma(sq, D) = sq[i] + Sigma(sq, A) /\ Sigma(sq, A) \in Int
    BY <1>0, SigmaTakes
  <2> QED BY <1>5, <2>1, <2>2
<1>7. t * t <= k * q
  BY SigmaOfSquares
<1>8. /\ ScaledVariance(sample) = (k + 1) * (x * x + q) - (x + t) * (x + t)
      /\ ScaledExcess(sample, i) = (k + 1) * x - (x + t)
  BY <1>0, <1>1, <1>2, <1>4, <1>6 DEF ScaledVariance, ScaledExcess
<1> HIDE DEF A, k, x, t, q
<1>9. x * x + q = q + x * x /\ x + t = t + x
  BY <1>5, <1>6
<1> DEFINE v == (k + 1) * (q + x * x) - (t + x) * (t + x)  e == (k + 1) * x - (t + x)
<1>10. v > 0 /\ e * e >= 9 * v
  <2>1. ScaledVariance(sample) = v /\ ScaledExcess(sample, i) = e
    BY <1>8, <1>9
  <2> HIDE DEF v, e
  <2> QED BY <1>3, <2>1 DEF DetectSpike, SIGMA_THRESHOLD
<1> QED BY <1>4, <1>5, <1>6, <1>7, <1>10, NoSpike

-----------------------------------------------------------------------------
(* The overview of an organisation (overview.ts).                           *)

Spend(db, org, S) == Total(S, LAMBDA s : OverviewCost(db, org, s).value)
SpendOf(db, org, D) == [s \in D |-> OverviewCost(db, org, s).value]

(* The spend of a set of sessions is a Sigma of their costs.                *)
LEMMA SpendIsSigma ==
  ASSUME NEW db, NEW org, NEW D, IsFiniteSet(D), SpendOf(db, org, D) \in [D -> Int], NEW S \in SUBSET D
  PROVE  Spend(db, org, S) = Sigma(SpendOf(db, org, D), S)
<1> DEFINE f == SpendOf(db, org, S)
<1>1. Spend(db, org, S) = Sigma(f, S)
  <2>1. Spend(db, org, S) = SumOver(f)
    BY DEF Spend, Total, SpendOf
  <2>2. f = [s \in S |-> f[s]]
    BY DEF SpendOf
  <2> HIDE DEF f
  <2> QED BY <2>1, <2>2, SumOverIsSigma
<1>2. f \in [S -> Int] /\ \A s \in S : f[s] = SpendOf(db, org, D)[s]
  BY DEF SpendOf
<1>3. IsFiniteSet(S) /\ S \in SUBSET (S \cap D)
  BY FS_Subset
<1> HIDE DEF f
<1>4. Sigma(f, S) = Sigma(SpendOf(db, org, D), S)
  <2> DEFINE h == SpendOf(db, org, D)
  <2>1. h \in [D -> Int] /\ \A s \in S : f[s] = h[s]
    BY <1>2
  <2> HIDE DEF h
  <2>2. Sigma(f, S) = Sigma(h, S)
    BY <1>2, <1>3, <2>1, SigmaSame
  <2> QED BY <2>2 DEF h
<1> QED BY <1>1, <1>4

(* The days of a sum add up to it. *)
SumByDay(f, R) == [d \in {s.startedOn : s \in R} |-> Sigma(f, {s \in R : s.startedOn = d})]
LEMMA DaysAddUp ==
  ASSUME NEW D, IsFiniteSet(D), NEW f \in [D -> Int], NEW R \in SUBSET D
  PROVE  SumOver(SumByDay(f, R)) = Sigma(f, R)
<1> DEFINE key == [s \in R |-> s.startedOn]  K == {key[s] : s \in R}
           part == [d \in K |-> Sigma(f, {s \in R : key[s] = d})]
<1>1. IsFiniteSet(K)
  <2>1. IsFiniteSet(R)
    BY FS_Subset
  <2> HIDE DEF key
  <2> QED BY <2>1, ImageIsFinite
<1>2. key \in [R -> K]
  OBVIOUS
<1>3. SumByDay(f, R) = part
  <2>1. {s.startedOn : s \in R} = K
    OBVIOUS
  <2>2. \A d : {s \in R : key[s] = d} = {s \in R : s.startedOn = d}
    OBVIOUS
  <2> HIDE DEF key, K
  <2> QED BY <2>1, <2>2 DEF SumByDay
<1>4. Sigma(part, K) = Sigma(f, R)
  <2> HIDE DEF key, K
  <2> QED BY <1>1, <1>2, SigmaByKey
<1>5. SumOver(part) = Sigma(part, K)
  <2>1. part = [d \in K |-> part[d]]
    OBVIOUS
  <2> HIDE DEF part, K
  <2> QED BY <2>1, SumOverIsSigma
<1> QED BY <1>3, <1>4, <1>5

(* The sessions of an organisation are finitely many, and of its users.     *)
LEMMA RowsFit ==
  ASSUME NEW db, NEW org, SnapshotFits(db)
  PROVE  LET rows == LoadSessionsForOrg(db, org) IN
         /\ IsFiniteSet(rows) /\ rows \subseteq db.sessions
         /\ \A s \in rows : /\ s.user \in MemberIds(Members(db, org)) /\ s.startedOn \in Int
                            /\ OverviewCost(db, org, s).value \in Nat
                            /\ OverviewCost(db, org, s).source \in {"otel", "calibrated", "list"}
<1> DEFINE rows == LoadSessionsForOrg(db, org)
           byUser == LoadCalibrationByUser(db, org)
<1>1. IsFiniteSet(rows) /\ rows \subseteq db.sessions
  <2>1. rows \subseteq db.sessions
    BY DEF LoadSessionsForOrg, SessionsOf, Since
  <2> QED BY <2>1, FS_Subset DEF SnapshotFits, StoredFits
<1>2. SUFFICES ASSUME NEW s \in rows
      PROVE /\ s.user \in MemberIds(Members(db, org)) /\ s.startedOn \in Int
            /\ OverviewCost(db, org, s).value \in Nat
            /\ OverviewCost(db, org, s).source \in {"otel", "calibrated", "list"}
  BY <1>1
<1>3. s.user \in MemberIds(Members(db, org)) /\ s.startedOn \in Int
  BY <1>1 DEF LoadSessionsForOrg, SessionsOf, Since, SnapshotFits, StoredFits
<1>4. CostedRow(s)
  BY <1>1 DEF SnapshotFits, StoredFits, CostedRow
<1>5. RatesFit(IF s.user \in DOMAIN byUser THEN byUser[s.user]
                      ELSE BuildOrgGlobalCalibration(byUser))
  <2>1. CASE s.user \in DOMAIN byUser
    <3>1. byUser[s.user] = db.calibrations[s.user] /\ s.user \in MemberIds(db.users)
      BY <2>1, <1>3 DEF LoadCalibrationByUser, MemberIds, Members
    <3> QED BY <2>1, <3>1 DEF SnapshotFits
  <2>2. CASE s.user \notin DOMAIN byUser
    <3>1. RatesFit(BuildOrgGlobalCalibration(byUser))
      BY LentRates DEF RatesFit
    <3> QED BY <2>2, <3>1
  <2> QED BY <2>1, <2>2
<1> HIDE DEF byUser
<1>6. OverviewCost(db, org, s) = EffectiveCost(s, IF s.user \in DOMAIN byUser THEN byUser[s.user]
                                                ELSE BuildOrgGlobalCalibration(byUser))
  BY DEF OverviewCost, byUser
<1>7. /\ OverviewCost(db, org, s).value \in Nat
      /\ OverviewCost(db, org, s).source \in {"otel", "calibrated", "list"}
  BY <1>4, <1>5, <1>6, CostsAreCosts
<1> QED BY <1>3, <1>7

(* One session of the organisation has one team, or none. *)
TeamOfRow(db, s) == (CHOOSE u \in db.users : u.id = s.user).team

TeamsOf(db, rows) == {TeamOfRow(db, s) : s \in rows}
RowsOfTeam(db, rows, t) == {s \in rows : TeamOfRow(db, s) = t}
Sparkline(f, rows, now) == [d \in (now - 6) .. now |-> Sigma(f, {s \in rows : s.startedOn = d})]

(* The user of a session is unique.                                         *)
LEMMA UserOfRow ==
  ASSUME NEW db, NEW org, SnapshotFits(db), NEW s, s.user \in MemberIds(Members(db, org))
  PROVE  \E u \in Members(db, org) : u.id = s.user /\ u.team = TeamOfRow(db, s)
<1>1. PICK u \in Members(db, org) : u.id = s.user
  BY DEF MemberIds
<1>2. u \in db.users /\ \A v \in db.users : v.id = s.user => v = u
  BY <1>1 DEF Members, SnapshotFits, StoredFits
<1>3. (CHOOSE v \in db.users : v.id = s.user) = u
  BY <1>1, <1>2
<1> QED BY <1>1, <1>3 DEF TeamOfRow

(* The amounts of the overview, as sums over the rows. *)
LEMMA OverviewAsSums ==
  ASSUME NEW db, NEW org, SnapshotFits(db)
  PROVE  LET view == GetOrgOverview(db, org)
             rows == LoadSessionsForOrg(db, org)
             f == SpendOf(db, org, rows)
             Of(t) == RowsOfTeam(db, rows, t)
         IN /\ f \in [rows -> Nat]
            /\ view.spend7d = Sigma(f, Since(rows, db.now, 7))
            /\ view.spend30d = Sigma(f, Since(rows, db.now, 30))
            /\ view.spend90d = Sigma(f, rows)
            /\ view.spendTrend30d = SumByDay(f, Since(rows, db.now, 30))
            /\ DOMAIN view.teamBreakdown = TeamsOf(db, rows) \ {None}
            /\ \A t \in DOMAIN view.teamBreakdown :
                 /\ view.teamBreakdown[t].spend30d = Sigma(f, Since(Of(t), db.now, 30))
                 /\ view.teamBreakdown[t].sparkline7d =
                      Sparkline(f, Of(t), db.now)
<1> DEFINE view == GetOrgOverview(db, org)
           rows == LoadSessionsForOrg(db, org)
           f == SpendOf(db, org, rows)
           Of(t) == RowsOfTeam(db, rows, t)
<1>1. IsFiniteSet(rows) /\ f \in [rows -> Nat] /\ f \in [rows -> Int]
  <2>1. IsFiniteSet(rows) /\ \A s \in rows : OverviewCost(db, org, s).value \in Nat
    BY RowsFit
  <2> QED BY <2>1 DEF SpendOf
<1>2. ASSUME NEW S \in SUBSET rows PROVE Spend(db, org, S) = Sigma(f, S)
  <2> HIDE DEF rows
  <2> QED BY <1>1, SpendIsSigma
<1>3. \A n : \A S \in SUBSET rows : Since(S, db.now, n) \in SUBSET rows
  BY DEF Since
<1>4. /\ view.spend7d = Spend(db, org, Since(rows, db.now, 7))
      /\ view.spend30d = Spend(db, org, Since(rows, db.now, 30))
      /\ view.spend90d = Spend(db, org, rows)
      /\ view.spendTrend30d = [d \in {s.startedOn : s \in Since(rows, db.now, 30)} |->
           Spend(db, org, {s \in Since(rows, db.now, 30) : s.startedOn = d})]
  BY DEF GetOrgOverview, Spend, ByDay
<1>5. view.teamBreakdown = [t \in TeamsOf(db, rows) \ {None} |-> TeamRowOf(db, Of(t), org)]
  <2> DEFINE teamOf == [s \in rows |-> (CHOOSE u \in db.users : u.id = s.user).team]
  <2>1. view.teamBreakdown = [t \in {teamOf[s] : s \in rows} \ {None} |->
                                TeamRowOf(db, {s \in rows : teamOf[s] = t}, org)]
    BY DEF GetOrgOverview
  <2>2. \A s \in rows : teamOf[s] = TeamOfRow(db, s)
    BY DEF TeamOfRow
  <2>3. {teamOf[s] : s \in rows} = TeamsOf(db, rows)
    BY <2>2 DEF TeamsOf
  <2>4. \A t : {s \in rows : teamOf[s] = t} = Of(t)
    BY <2>2 DEF RowsOfTeam
  <2> HIDE DEF view, rows, teamOf, Of
  <2> QED BY <2>1, <2>3, <2>4
<1>6. ASSUME NEW t PROVE
      /\ TeamRowOf(db, Of(t), org).spend30d = Sigma(f, Since(Of(t), db.now, 30))
      /\ TeamRowOf(db, Of(t), org).sparkline7d =
           Sparkline(f, Of(t), db.now)
  <2>1. /\ TeamRowOf(db, Of(t), org).spend30d = Spend(db, org, Since(Of(t), db.now, 30))
        /\ TeamRowOf(db, Of(t), org).sparkline7d =
             [d \in (db.now - 6) .. db.now |-> Spend(db, org, {s \in Of(t) : s.startedOn = d})]
    BY DEF TeamRowOf, Spend, Sparkline7dKeys
  <2>2. Since(Of(t), db.now, 30) \in SUBSET rows /\ \A d : {s \in Of(t) : s.startedOn = d} \in SUBSET rows
    BY <1>3 DEF RowsOfTeam
  <2> HIDE DEF rows, Of, f
  <2> QED BY <1>2, <2>1, <2>2 DEF Sparkline
<1>7. view.spendTrend30d = SumByDay(f, Since(rows, db.now, 30))
  <2> DEFINE R == Since(rows, db.now, 30)
  <2>1. R \in SUBSET rows
    BY <1>3
  <2>2. \A d : {s \in R : s.startedOn = d} \in SUBSET rows
    BY <2>1
  <2> HIDE DEF rows, R, f, view
  <2> QED BY <1>2, <1>4, <2>2 DEF SumByDay, R
<1>8. DOMAIN view.teamBreakdown = TeamsOf(db, rows) \ {None}
      /\ \A t \in DOMAIN view.teamBreakdown : view.teamBreakdown[t] = TeamRowOf(db, Of(t), org)
  <2> HIDE DEF view, rows, Of
  <2> QED BY <1>5
<1>9. Since(rows, db.now, 7) \in SUBSET rows /\ Since(rows, db.now, 30) \in SUBSET rows /\ rows \in SUBSET rows
  BY <1>3
<1>10. /\ view.spend7d = Sigma(f, Since(rows, db.now, 7))
       /\ view.spend30d = Sigma(f, Since(rows, db.now, 30))
       /\ view.spend90d = Sigma(f, rows)
  <2> HIDE DEF view, rows, f
  <2> QED BY <1>2, <1>4, <1>9
<1> HIDE DEF view, rows, f, Of
<1>11. /\ f \in [rows -> Nat]
       /\ view.spend7d = Sigma(f, Since(rows, db.now, 7))
       /\ view.spend30d = Sigma(f, Since(rows, db.now, 30))
       /\ view.spend90d = Sigma(f, rows)
       /\ view.spendTrend30d = SumByDay(f, Since(rows, db.now, 30))
       /\ DOMAIN view.teamBreakdown = TeamsOf(db, rows) \ {None}
       /\ \A t \in DOMAIN view.teamBreakdown :
                 /\ view.teamBreakdown[t].spend30d = Sigma(f, Since(Of(t), db.now, 30))
                 /\ view.teamBreakdown[t].sparkline7d =
                      Sparkline(f, Of(t), db.now)
  BY <1>1, <1>6, <1>7, <1>8, <1>10
<1> QED BY <1>11 DEF view, rows, f, Of

(* The spend of the teams, and that of the users without one. *)
Keyed(key, R, t) == {s \in R : key[s] = t}
SumByKey(f, key, R, K) == [t \in K |-> Sigma(f, Keyed(key, R, t))]
LEMMA TeamsAndOthers ==
  ASSUME NEW D, IsFiniteSet(D), NEW f \in [D -> Int], NEW R \in SUBSET D, NEW team, NEW K, None \notin K,
         IsFiniteSet(K), team \in [R -> K \cup {None}]
  PROVE  Sigma(f, R) = Sigma(f, Keyed(team, R, None)) + Sigma(SumByKey(f, team, R, K), K)
<1> DEFINE All == K \cup {None}
           part == SumByKey(f, team, R, K)
           whole == [t \in All |-> Sigma(f, {s \in R : team[s] = t})]
<1>1. IsFiniteSet(All)
  BY FS_AddElement
<1>2. whole \in [All -> Int] /\ Sigma(whole, All) = Sigma(f, R)
  <2>1. team \in [R -> All]
    OBVIOUS
  <2> HIDE DEF All
  <2> QED BY <1>1, <2>1, SigmaByKey
<1>3. part \in [K -> Int] /\ \A t \in K : part[t] = whole[t]
  <2>1. \A t \in K : Sigma(f, {s \in R : team[s] = t}) \in Int
    BY SigmaTakes
  <2> QED BY <2>1 DEF SumByKey, Keyed
<1>4. whole[None] = Sigma(f, Keyed(team, R, None)) /\ None \in All /\ All \ {None} = K
  BY DEF Keyed
<1>5. K \in SUBSET All /\ K \in SUBSET (K \cap All) /\ All \in SUBSET All
  OBVIOUS
<1> HIDE DEF All, whole, part
<1>6. Sigma(whole, All) = whole[None] + Sigma(whole, All \ {None})
  BY <1>1, <1>2, <1>4, <1>5, SigmaTakes
<1>7. Sigma(whole, K) = Sigma(part, K)
  BY <1>1, <1>2, <1>3, <1>5, SigmaSame
<1> QED BY <1>2, <1>4, <1>6, <1>7 DEF part

(* The overview of an organisation: its trend, its teams and the users      *)
(* without one, the windows within each other and the sources add up to the *)
(* spend, and no more are active than there are seats (overview.ts,         *)
(* getOrgOverview).                                                         *)
THEOREM OverviewAlwaysAddsUp ==
  ASSUME NEW db, NEW org, SnapshotFits(db)
  PROVE  OverviewAddsUp(db, org)
<1> DEFINE view == GetOrgOverview(db, org)
           rows == LoadSessionsForOrg(db, org)
           f == SpendOf(db, org, rows)
           R == Since(rows, db.now, 30)
           Of(t) == RowsOfTeam(db, rows, t)
           K == DOMAIN view.teamBreakdown
<1>1. IsFiniteSet(rows) /\ f \in [rows -> Nat] /\ f \in [rows -> Int] /\ db.now \in Int
  BY RowsFit, OverviewAsSums DEF SnapshotFits, StoredFits
<1>2. \A s \in rows : s.startedOn \in Int
  BY RowsFit
<1>3. /\ R \in SUBSET rows /\ Since(rows, db.now, 7) \in SUBSET R
      /\ Since(rows, db.now, 7) \in SUBSET rows /\ rows \in SUBSET rows
  BY <1>1, <1>2 DEF Since
<1>4. /\ view.spend7d = Sigma(f, Since(rows, db.now, 7)) /\ view.spend30d = Sigma(f, R)
      /\ view.spend90d = Sigma(f, rows) /\ view.spendTrend30d = SumByDay(f, R)
      /\ K = TeamsOf(db, rows) \ {None}
      /\ \A t \in K :
           /\ view.teamBreakdown[t].spend30d = Sigma(f, Since(Of(t), db.now, 30))
           /\ view.teamBreakdown[t].sparkline7d =
                Sparkline(f, Of(t), db.now)
  BY OverviewAsSums
<1>5. view.spend30d = SumOver(view.spendTrend30d)
  <2> HIDE DEF rows, f, R, view
  <2> QED BY <1>1, <1>3, <1>4, DaysAddUp
<1>6. view.spend7d <= view.spend30d /\ view.spend30d <= view.spend90d
  <2> HIDE DEF rows, f, R, view
  <2>1. \A s \in rows : f[s] >= 0
    BY <1>1
  <2>2. Sigma(f, Since(rows, db.now, 7)) <= Sigma(f, R)
    BY <1>1, <1>3, <2>1, SigmaGrows
  <2>3. Sigma(f, R) <= Sigma(f, rows)
    BY <1>1, <1>3, <2>1, SigmaGrows
  <2> QED BY <1>4, <2>2, <2>3
<1>7. ASSUME NEW t \in K
      PROVE  SumOver(view.teamBreakdown[t].sparkline7d) <= view.teamBreakdown[t].spend30d
  <2> DEFINE Days == (db.now - 6) .. db.now
             A == {s \in Of(t) : s.startedOn \in Days}
             key == [s \in A |-> s.startedOn]
             part == [d \in Days |-> Sigma(f, {s \in A : key[s] = d})]
             B == Since(Of(t), db.now, 30)
  <2>1. A \in SUBSET rows /\ B \in SUBSET rows /\ key \in [A -> Days] /\ IsFiniteSet(Days)
    BY <1>1, FS_Interval DEF Since, RowsOfTeam
  <2>2. A \in SUBSET B
    BY <1>1 DEF Since
  <2>3. part \in [Days -> Int] /\ Sigma(part, Days) = Sigma(f, A)
    <3> HIDE DEF Days, key, A, f, rows
    <3> QED BY <1>1, <2>1, SigmaByKey
  <2>4. view.teamBreakdown[t].sparkline7d = part
    <3>1. \A d \in Days : {s \in A : key[s] = d} = {s \in Of(t) : s.startedOn = d}
      OBVIOUS
    <3>2. view.teamBreakdown[t].sparkline7d = Sparkline(f, Of(t), db.now)
      BY <1>4
    <3>3. Sparkline(f, Of(t), db.now) = [d \in Days |-> Sigma(f, {s \in Of(t) : s.startedOn = d})]
      BY DEF Sparkline
    <3> HIDE DEF Days, key, A, f, Of, view
    <3> QED BY <3>1, <3>2, <3>3
  <2>5. SumOver(part) = Sigma(part, Days)
    <3>1. part = [d \in Days |-> part[d]]
      OBVIOUS
    <3> HIDE DEF part, Days
    <3> QED BY <3>1, SumOverIsSigma
  <2>6. Sigma(f, A) <= Sigma(f, B)
    <3> HIDE DEF A, B, f, rows
    <3>1. \A s \in B : f[s] >= 0
      BY <1>1, <2>1
    <3> QED BY <1>1, <2>1, <2>2, <3>1, SigmaGrows
  <2>7. view.teamBreakdown[t].spend30d = Sigma(f, B)
    BY <1>4
  <2> HIDE DEF part, B, A, Days, view, f
  <2> QED BY <2>3, <2>4, <2>5, <2>6, <2>7
<1>8. LET teamless == {u.id : u \in {v \in Members(db, org) : v.team = None}}
          without == Spend(db, org, Since(SessionsOf(db, teamless), db.now, 30))
      IN view.spend30d = without + MapThenSumSet(LAMBDA t : view.teamBreakdown[t].spend30d, K)
  <2> DEFINE teamless == {u.id : u \in {v \in Members(db, org) : v.team = None}}
             N == Since(SessionsOf(db, teamless), db.now, 30)
             team == [s \in R |-> TeamOfRow(db, s)]
             part == SumByKey(f, team, R, K)
             Is(g) == g = [s \in SUBSET K |-> IF s = {} THEN 0
                        ELSE view.teamBreakdown[CHOOSE x \in s : TRUE].spend30d + g[s \ {CHOOSE x \in s : TRUE}]]
  <2>1. N = Keyed(team, R, None)
    <3>1. ASSUME NEW s \in N PROVE s \in R /\ team[s] = None
      <4>1. PICK u \in Members(db, org) : u.id = s.user /\ u.team = None
        BY DEF Since, SessionsOf
      <4>2. s \in db.sessions /\ s.user \in MemberIds(Members(db, org)) /\ s.startedOn >= db.now - 30
        BY <4>1 DEF Since, SessionsOf, MemberIds
      <4>3. s.startedOn \in Int /\ s \in R
        BY <1>1, <4>2 DEF SnapshotFits, StoredFits, LoadSessionsForOrg, SessionsOf, Since
      <4>4. PICK v \in Members(db, org) : v.id = s.user /\ v.team = TeamOfRow(db, s)
        BY <4>2, UserOfRow
      <4>5. u = v
        <5>1. u \in db.users /\ v \in db.users /\ u.id = v.id
          BY <4>1, <4>4 DEF Members
        <5> QED BY <5>1 DEF SnapshotFits, StoredFits
      <4> QED BY <4>1, <4>3, <4>4, <4>5
    <3>2. ASSUME NEW s \in R, team[s] = None PROVE s \in N
      <4>1. s \in db.sessions /\ s.user \in MemberIds(Members(db, org)) /\ s.startedOn >= db.now - 30
        BY DEF Since, SessionsOf, LoadSessionsForOrg
      <4>2. PICK v \in Members(db, org) : v.id = s.user /\ v.team = TeamOfRow(db, s)
        BY <4>1, UserOfRow
      <4>3. v.team = None
        BY <3>2, <4>2
      <4> QED BY <4>1, <4>2, <4>3 DEF Since, SessionsOf
    <3> HIDE DEF N, R, team
    <3> QED BY <3>1, <3>2 DEF Keyed
  <2>2. Spend(db, org, N) = Sigma(f, N)
    <3>1. N \in SUBSET rows
      BY <1>3, <2>1 DEF Keyed
    <3> HIDE DEF N, rows
    <3> QED BY <1>1, <3>1, SpendIsSigma
  <2>3. Sigma(f, R) = Sigma(f, Keyed(team, R, None)) + Sigma(part, K)
    <3>1. team \in [R -> K \cup {None}] /\ None \notin K
      BY <1>3, <1>4 DEF TeamsOf
    <3>2. IsFiniteSet(K)
      <4> DEFINE h == [s \in rows |-> TeamOfRow(db, s)]
      <4>1. K \in SUBSET {h[s] : s \in rows}
        BY <1>4 DEF TeamsOf
      <4> HIDE DEF h, rows, K
      <4>2. IsFiniteSet({h[s] : s \in rows})
        BY <1>1, ImageIsFinite
      <4> QED BY <4>1, <4>2, FS_Subset
    <3>3. IsFiniteSet(rows) /\ f \in [rows -> Int] /\ R \in SUBSET rows
      BY <1>1, <1>3
    <3> HIDE DEF team, R, f, K, rows
    <3> QED BY <3>1, <3>2, <3>3, TeamsAndOthers
  <2>4. \A t \in K : view.teamBreakdown[t].spend30d = part[t]
    <3>1. \A t : Keyed(team, R, t) = Since(Of(t), db.now, 30)
      BY DEF Since, Keyed, RowsOfTeam
    <3> HIDE DEF Of, R, f, K, view, team
    <3> QED BY <1>4, <3>1 DEF SumByKey
  <2>5. MapThenSumSet(LAMBDA t : view.teamBreakdown[t].spend30d, K) = Sigma(part, K)
    <3>1. \A s \in SUBSET K : s # {} => Chosen(s) \in K
      BY ChosenIn
    <3>2. DOMAIN part = K
      BY DEF SumByKey
    <3> HIDE DEF view, part, K
    <3>3. \A g : Is(g) <=> IsSum(g, part, K)
      BY <2>4, <3>1 DEF IsSum, Chosen
    <3>4. (CHOOSE g : Is(g)) = CHOOSE g : IsSum(g, part, K)
      <4> HIDE DEF Is
      <4> QED BY <3>3, Zenon
    <3>5. MapThenSumSet(LAMBDA t : view.teamBreakdown[t].spend30d, K) = (CHOOSE g : Is(g))[K]
      BY DEF MapThenSumSet, MapThenFoldSet
    <3> QED BY <3>2, <3>4, <3>5 DEF Sigma
  <2> HIDE DEF N, part, K, view, R, f
  <2> QED BY <1>4, <2>1, <2>2, <2>3, <2>5 DEF N
<1>9. SumOver(view.sourceMix) = Cardinality(rows)
  <2> DEFINE Kinds == {"otel", "calibrated", "list"}
             key == [s \in rows |-> OverviewCost(db, org, s).source]
             ones == [s \in rows |-> 1]
             part == [k \in Kinds |-> Sigma(ones, {s \in rows : key[s] = k})]
  <2>1. ones \in [rows -> Int] /\ IsFiniteSet(Kinds) /\ key \in [rows -> Kinds]
    <3>1. IsFiniteSet(Kinds)
      <4> DEFINE A == {} \cup {"otel"}  B == A \cup {"calibrated"}
      <4>1. IsFiniteSet(A)
        BY FS_EmptySet, FS_AddElement
      <4>2. IsFiniteSet(B)
        <5> HIDE DEF A
        <5> QED BY <4>1, FS_AddElement
      <4>3. IsFiniteSet(B \cup {"list"})
        <5> HIDE DEF B
        <5> QED BY <4>2, FS_AddElement
      <4>4. Kinds = B \cup {"list"}
        OBVIOUS
      <4> QED BY <4>3, <4>4
    <3>2. key \in [rows -> Kinds]
      BY RowsFit
    <3> QED BY <3>1, <3>2
  <2>2. part \in [Kinds -> Int] /\ Sigma(part, Kinds) = Sigma(ones, rows)
    <3> HIDE DEF ones, key, Kinds, rows
    <3> QED BY <1>1, <1>3, <2>1, SigmaByKey
  <2>3. \A S \in SUBSET rows : Sigma(ones, S) = Cardinality(S)
    <3>1. \A s \in rows : ones[s] = 1
      OBVIOUS
    <3> HIDE DEF ones, rows
    <3> QED BY <1>1, <2>1, <3>1, SigmaOfOnes
  <2>4. view.sourceMix = part
    <3>1. view.sourceMix = [k \in Kinds |-> Cardinality({s \in rows : OverviewCost(db, org, s).source = k})]
      BY DEF GetOrgOverview
    <3>2. \A k \in Kinds : {s \in rows : OverviewCost(db, org, s).source = k} = {s \in rows : key[s] = k}
      OBVIOUS
    <3>3. \A k \in Kinds : Cardinality({s \in rows : key[s] = k}) = Sigma(ones, {s \in rows : key[s] = k})
      <4> HIDE DEF ones
      <4> QED BY <2>3
    <3> HIDE DEF view, Kinds, rows, key, ones
    <3> QED BY <3>1, <3>2, <3>3
  <2>5. SumOver(part) = Sigma(part, Kinds)
    <3>1. part = [d \in Kinds |-> part[d]]
      OBVIOUS
    <3> HIDE DEF part, Kinds
    <3> QED BY <3>1, SumOverIsSigma
  <2> HIDE DEF part, Kinds, ones, view, rows
  <2> QED BY <1>3, <2>2, <2>3, <2>4, <2>5
<1>10. view.dau <= view.wau /\ view.wau <= view.mau /\ view.mau <= view.totalSeats
  <2> DEFINE Active(days) == {s.user : s \in Since(rows, db.now, days)}
             M == Members(db, org)
  <2>1. /\ view.dau = Cardinality(Active(1)) /\ view.wau = Cardinality(Active(7))
        /\ view.mau = Cardinality(Active(30)) /\ view.totalSeats = Cardinality(M)
    BY DEF GetOrgOverview
  <2>2. /\ Active(1) \in SUBSET Active(7) /\ Active(7) \in SUBSET Active(30)
    BY <1>1, <1>2 DEF Since
  <2>3. Active(30) \in SUBSET MemberIds(M)
    BY RowsFit DEF Since
  <2>4. IsFiniteSet(M)
    BY FS_Subset DEF Members, SnapshotFits, StoredFits
  <2>5. IsFiniteSet(MemberIds(M)) /\ Cardinality(MemberIds(M)) <= Cardinality(M)
    BY <2>4, IdsAreFinite
  <2> HIDE DEF Active, M, view
  <2>6. IsFiniteSet(Active(30)) /\ Cardinality(Active(30)) <= Cardinality(MemberIds(M))
    BY <2>3, <2>5, FS_Subset
  <2>7. IsFiniteSet(Active(7)) /\ Cardinality(Active(7)) <= Cardinality(Active(30))
    BY <2>2, <2>6, FS_Subset
  <2>8. Cardinality(Active(1)) <= Cardinality(Active(7))
    BY <2>2, <2>7, FS_Subset
  <2>9. Cardinality(Active(30)) \in Nat /\ Cardinality(MemberIds(M)) \in Nat /\ Cardinality(M) \in Nat
    BY <2>4, <2>5, <2>6, FS_CardinalityType
  <2> QED BY <2>1, <2>5, <2>6, <2>7, <2>8, <2>9
<1> HIDE DEF view, rows, K
<1> QED BY <1>5, <1>6, <1>7, <1>8, <1>9, <1>10 DEF OverviewAddsUp, Spend, view, rows, K

-----------------------------------------------------------------------------
(* What a manager is alerted of (manager-v2.ts).                            *)

(* For every manager: no anomaly he dismissed, nobody of another organisation*)
(* and nobody twice is among the check-ins and the drop-offs (manager-v2.ts).*)
THEOREM AlertsAlwaysRespectDismissals ==
  ASSUME NEW db, NEW manager, NEW org, SnapshotFits(db)
  PROVE  AlertsRespectDismissals(db, manager, org)
<1> DEFINE shown == GetCheckInOpportunities(db, manager, org)
           dropped == GetDropOffCandidates(db, manager, org)
           active == LoadActiveDismissals(db, manager, org)
           Of(u) == SessionsOf(db, {u.id})
           Spike(u) == DetectSpike([v \in {x \in InTeams(db, org) : x.team = u.team}
                                      |-> CostIn(Since(Of(v), db.now, 30))], u)
           Wow(u) == DetectWowSpike(CostIn(Since(Of(u), db.now, 7)),
                                    CostIn(Between(Of(u), db.now - 14, db.now - 7)))
           Trigger(u) == IF Spike(u) THEN "spend-spike-30d" ELSE "spend-spike-wow"
           Fires == {u \in InTeams(db, org) : (Spike(u) \/ Wow(u)) /\ <<u.id, Trigger(u)>> \notin active}
<1>1. shown = {[target |-> u.id, trigger |-> Trigger(u)] : u \in Fires}
  BY DEF GetCheckInOpportunities
<1>2. \A u \in Fires : u \in InTeams(db, org) /\ <<u.id, Trigger(u)>> \notin active
  <2> HIDE DEF Spike, Wow, Trigger, active
  <2> QED OBVIOUS
<1>3. \A i \in dropped : <<i, "dropoff-wow">> \notin active /\ \E u \in InTeams(db, org) : u.id = i
  BY DEF GetDropOffCandidates
<1>4. \A u \in InTeams(db, org) : \E t \in LoadManagerTeams(db, org) :
        u.id \in GetTeamMembersForManager(db, org, t)
  BY DEF InTeams, GetTeamMembersForManager, TeamIds
<1> HIDE DEF Fires, Trigger, active, dropped, shown
<1>5. \A c \in shown : /\ <<c.target, c.trigger>> \notin active
                       /\ \E u \in InTeams(db, org) : u.id = c.target
  BY <1>1, <1>2
<1>6. Cardinality({c.target : c \in shown}) = Cardinality(shown)
  <2> DEFINE row == [u \in Fires |-> [target |-> u.id, trigger |-> Trigger(u)]]
             f == [c \in shown |-> c.target]
  <2>1. IsFiniteSet(Fires)
    <3>1. Fires \in SUBSET db.users
      BY <1>2 DEF InTeams, Members
    <3> QED BY <3>1, FS_Subset DEF SnapshotFits, StoredFits
  <2>2. shown = {row[u] : u \in Fires}
    BY <1>1
  <2>3. IsFiniteSet(shown)
    <3> HIDE DEF row
    <3> QED BY <2>1, <2>2, ImageIsFinite
  <2>4. \A c, d \in shown : f[c] = f[d] => c = d
    <3>1. \A u, v \in Fires : u.id = v.id => u = v
      BY <1>2 DEF InTeams, Members, SnapshotFits, StoredFits
    <3> QED BY <1>1, <3>1
  <2>5. {c.target : c \in shown} = {f[c] : c \in shown}
    OBVIOUS
  <2> HIDE DEF f
  <2>6. Cardinality({f[c] : c \in shown}) = Cardinality(shown)
    BY <2>3, <2>4, OneAddendEach
  <2> QED BY <2>5, <2>6
<1> QED BY <1>3, <1>4, <1>5, <1>6 DEF AlertsRespectDismissals, shown, dropped, active

-----------------------------------------------------------------------------
(* What a filter asks of the way a machine was added.                       *)
LEMMA FiltersPick ==
  ASSUME NEW via
  PROVE  /\ PassesFilter(via, "all")
         /\ PassesFilter(via, "token") <=> via = "manual-token"
         /\ PassesFilter(via, "sso-auto") <=> via = "sso-auto"
BY DEF PassesFilter

Shown(db, team, filter) ==
  {u.id : u \in {v \in db.users : v.team = team /\ PassesFilter(ProvisionedVia(db, v.id), filter)}}
(* A team has a page in its own organisation only, with the members that the*)
(* filter picks.                                                            *)
LEMMA PageOfTeam ==
  ASSUME NEW db, NEW team, NEW org, NEW filter
  PROVE  IF \E t \in db.teams : t.id = team /\ t.org = org
         THEN DOMAIN GetTeamDetail(db, team, org, filter).members = Shown(db, team, filter)
         ELSE GetTeamDetail(db, team, org, filter) = None
BY DEF GetTeamDetail, Shown

(* Only managers and administrators export a roster, only of a team of their*)
(* own organisation, and a file that says it is truncated lacks somebody    *)
(* (teams/[id]/export).                                                     *)
THEOREM RostersAlwaysStayInside ==
  ASSUME NEW db, NEW team, NEW org, NEW guard, NEW role1, SnapshotFits(db)
  PROVE  RostersStayInside(db, team, org, guard, role1)
<1> DEFINE detail == GetTeamDetail(db, team, org, "all")
           session == [role |-> role1]
           allowed == session.role # None /\ ManagersMayExport(session.role)
           answer == ExportTeamRoster(db, team, org, "all", guard, session, 1)
           n == Cardinality(DOMAIN detail.members)
<1>1. CASE guard # "ok" \/ ~allowed
  <2>1. answer = [status |-> 403]
    BY <1>1 DEF ExportTeamRoster
  <2> QED BY <2>1 DEF RostersStayInside
<1>2. CASE guard = "ok" /\ allowed /\ detail = None
  <2>1. answer = [status |-> 404]
    BY <1>2 DEF ExportTeamRoster
  <2> QED BY <2>1 DEF RostersStayInside
<1>3. CASE guard = "ok" /\ allowed /\ detail # None
  <2>1. answer = [status |-> 200, rows |-> Min({1, n}), truncated |-> n > 1]
    BY <1>3 DEF ExportTeamRoster
  <2>2. PICK t \in db.teams : t.id = team /\ t.org = org
    BY <1>3, PageOfTeam
  <2>3. DOMAIN detail.members = TeamIds(db, org, team)
    <3>1. DOMAIN detail.members = Shown(db, team, "all")
      BY <2>2, PageOfTeam
    <3>2. \A u \in db.users : u.team = team => u.org = org
      BY <2>2 DEF SnapshotFits, StoredFits
    <3>3. \A u \in db.users : PassesFilter(ProvisionedVia(db, u.id), "all")
      BY FiltersPick
    <3> QED BY <3>1, <3>2, <3>3 DEF Shown, TeamIds, Members
  <2>4. n \in Nat
    <3>1. TeamIds(db, org, team) \in SUBSET MemberIds(db.users)
      BY DEF TeamIds, Members, MemberIds
    <3>2. IsFiniteSet(MemberIds(db.users))
      BY IdsAreFinite DEF SnapshotFits, StoredFits
    <3> QED BY <2>3, <3>1, <3>2, FS_Subset, FS_CardinalityType
  <2>5. n > 1 => Min({1, n}) = 1
    BY <2>4 DEF Min
  <2>6. role1 \in {"manager", "admin"} /\ team \in LoadManagerTeams(db, org)
    BY <1>3, <2>2 DEF ManagersMayExport, LoadManagerTeams
  <2> HIDE DEF n, answer
  <2>7. answer.truncated => answer.rows < n
    BY <2>1, <2>5
  <2> HIDE DEF detail
  <2> QED BY <1>3, <2>3, <2>6, <2>7 DEF RostersStayInside, n, answer
<1> QED BY <1>1, <1>2, <1>3

-----------------------------------------------------------------------------
(* The page of a team and the one of a developer (teams.ts,                 *)
(* manager-drilldown.ts, me-visibility.ts).                                 *)

OwnSpend(db, ids, S) ==
  Total(S, LAMBDA s : EffectiveCost(s, LoadCalibrationsForUsers(db, ids)[s.user]).value)
OwnCosts(db, S) == [s \in S |-> EffectiveCost(s, db.calibrations[s.user]).value]

(* The same for the costs at the calibrations of the users themselves.      *)
LEMMA OwnSpendIsSigma ==
  ASSUME NEW db, NEW ids, NEW S, \A s \in S : s.user \in ids
  PROVE  OwnSpend(db, ids, S) = Sigma(OwnCosts(db, S), S)
<1> DEFINE f == OwnCosts(db, S)
<1>1. \A s \in S : LoadCalibrationsForUsers(db, ids)[s.user] = db.calibrations[s.user]
  BY DEF LoadCalibrationsForUsers
<1>2. OwnSpend(db, ids, S) = SumOver(f)
  BY <1>1 DEF OwnSpend, Total, OwnCosts
<1>3. f = [s \in S |-> f[s]]
  BY DEF OwnCosts
<1> HIDE DEF f
<1> QED BY <1>2, <1>3, SumOverIsSigma DEF f

RowsOf(db, u) == {s \in db.sessions : s.user = u /\ s.startedOn >= db.now - 30 /\ s.cost >= 0}
MemberRow(db, u) ==
  [sessions30d |-> Cardinality(RowsOf(db, u)), spend30d |-> Sigma(OwnCosts(db, RowsOf(db, u)), RowsOf(db, u)),
   via |-> ProvisionedVia(db, u), lastLoginAt |-> LastLoginAt(db, u)]
(* What a member is shown with does not depend on the filter.               *)
LEMMA MembersOfPage ==
  ASSUME NEW db, NEW team, NEW org, NEW filter, \E t \in db.teams : t.id = team /\ t.org = org
  PROVE  GetTeamDetail(db, team, org, filter).members =
           [u \in Shown(db, team, filter) |-> MemberRow(db, u)]
<1> DEFINE ids == Shown(db, team, filter)
           rows == {s \in Since(SessionsOf(db, ids), db.now, 30) : s.cost >= 0}
           Of(u) == {s \in rows : s.user = u}
<1>1. GetTeamDetail(db, team, org, filter).members =
        [u \in ids |-> [sessions30d |-> Cardinality(Of(u)), spend30d |-> OwnSpend(db, ids, Of(u)),
                        via |-> ProvisionedVia(db, u), lastLoginAt |-> LastLoginAt(db, u)]]
  BY DEF GetTeamDetail, OwnSpend, Shown
<1>2. ASSUME NEW u \in ids
      PROVE  [sessions30d |-> Cardinality(Of(u)), spend30d |-> OwnSpend(db, ids, Of(u)),
              via |-> ProvisionedVia(db, u), lastLoginAt |-> LastLoginAt(db, u)] = MemberRow(db, u)
  <2>1. Of(u) = RowsOf(db, u)
    BY DEF Since, SessionsOf, RowsOf
  <2>2. \A s \in Of(u) : s.user \in ids
    OBVIOUS
  <2> HIDE DEF Of, ids
  <2>3. OwnSpend(db, ids, Of(u)) = Sigma(OwnCosts(db, Of(u)), Of(u))
    BY <2>2, OwnSpendIsSigma
  <2> QED BY <2>1, <2>3 DEF MemberRow
<1> HIDE DEF Of, ids, rows
<1> QED BY <1>1, <1>2 DEF ids

(* The filters of the page of a team pick disjoint sets of its members, who *)
(* are shown as without a filter (teams.ts, getTeamDetail).                 *)
THEOREM FiltersAlwaysPartition ==
  ASSUME NEW db, NEW team, NEW org
  PROVE  FiltersPartition(db, team, org)
<1> DEFINE Page(filter) == GetTeamDetail(db, team, org, filter)
<1>1. SUFFICES ASSUME Page("all") # None
      PROVE  /\ DOMAIN Page("token").members \cap DOMAIN Page("sso-auto").members = {}
             /\ \A filter \in {"token", "sso-auto"} : \A u \in DOMAIN Page(filter).members :
                  Page(filter).members[u] = Page("all").members[u]
  BY DEF FiltersPartition
<1>2. PICK t \in db.teams : t.id = team /\ t.org = org
  BY <1>1, PageOfTeam
<1>3. \A filter : Page(filter).members = [u \in Shown(db, team, filter) |-> MemberRow(db, u)]
  BY <1>2, MembersOfPage
<1> HIDE DEF Page
<1>4. \A filter : Shown(db, team, filter) \subseteq Shown(db, team, "all")
  BY FiltersPick DEF Shown
<1>5. Shown(db, team, "token") \cap Shown(db, team, "sso-auto") = {}
  BY FiltersPick DEF Shown
<1>6. DOMAIN Page("token").members \cap DOMAIN Page("sso-auto").members = {}
  <2>1. /\ DOMAIN Page("token").members = Shown(db, team, "token")
        /\ DOMAIN Page("sso-auto").members = Shown(db, team, "sso-auto")
    BY <1>3
  <2> QED BY <1>5, <2>1
<1>7. ASSUME NEW filter, NEW u \in DOMAIN Page(filter).members
      PROVE  Page(filter).members[u] = Page("all").members[u]
  <2>1. u \in Shown(db, team, filter) /\ Page(filter).members[u] = MemberRow(db, u)
    BY <1>3
  <2>2. u \in Shown(db, team, "all")
    BY <1>4, <2>1
  <2>3. Page("all").members[u] = MemberRow(db, u)
    BY <1>3, <2>2
  <2> QED BY <2>1, <2>3
<1> QED BY <1>6, <1>7

ListCosts(S) == [s \in S |-> ListPrice(s)]
(* The same for the list prices.                                            *)
LEMMA ListPricesAreSigma ==
  ASSUME NEW D, IsFiniteSet(D), \A s \in D : s.cost \in Nat, NEW S \in SUBSET D
  PROVE  ListCosts(D) \in [D -> Int] /\ Total(S, ListPrice) = Sigma(ListCosts(D), S)
<1> DEFINE f == ListCosts(S)  h == ListCosts(D)
<1>1. Total(S, ListPrice) = SumOver(f) /\ f = [s \in S |-> h[s]]
  BY DEF Total, ListCosts
<1>2. h \in [D -> Int]
  BY DEF ListCosts, ListPrice
<1> HIDE DEF f, h
<1>3. SumOver(f) = Sigma(h, S)
  BY <1>1, <1>2, SumOfPart
<1> QED BY <1>1, <1>2, <1>3 DEF h

(* A manager who drills into a developer sees the tools and the sessions that*)
(* the developer sees of himself; the trend is the spend, and the week is no*)
(* more than the month (manager-drilldown.ts, me-visibility.ts).            *)
THEOREM DrilldownsAlwaysMatch ==
  ASSUME NEW db, NEW u, NEW org, SnapshotFits(db), NoneIsNoAnswer
  PROVE  DrilldownMatchesSelf(db, u, org)
<1> DEFINE detail == GetDevSpendDetail(db, u, 30)
           rows == Since(SessionsOf(db, {u}), db.now, 30)
           week == Since(SessionsOf(db, {u}), db.now, 7)
           f == ListCosts(rows)
           Cost(s) == EffectiveCost(s, db.calibrations[u]).value
<1>1. /\ rows \in SUBSET db.sessions /\ week \in SUBSET rows
      /\ \A s \in rows : s.cost \in Nat /\ s.otelCost \in Nat \cup {None}
  BY DEF SnapshotFits, StoredFits, Since, SessionsOf
<1>2. IsFiniteSet(rows) /\ rows \in SUBSET rows
  BY <1>1, FS_Subset DEF SnapshotFits, StoredFits
<1>3. f \in [rows -> Int] /\ \A s \in rows : f[s] >= 0
  <2> HIDE DEF rows
  <2> QED BY <1>1 DEF ListCosts, ListPrice
<1>4. \A S \in SUBSET rows : Total(S, ListPrice) = Sigma(f, S)
  <2> HIDE DEF rows
  <2> QED BY <1>1, <1>2, ListPricesAreSigma
<1>5. GetDevToolUsage(db, u, 30) = GetMyKpis(db, u).toolMix
  BY DEF GetDevToolUsage, GetMyKpis
<1>6. rows = {} => detail = None
  BY DEF GetDevSpendDetail
<1>7. ASSUME rows # {}
      PROVE  /\ detail # None
             /\ detail.thirtyDaySpendUsd = Sigma(f, rows)
             /\ detail.sevenDaySpendUsd = Sigma(f, week)
             /\ detail.trend = SumByDay(f, rows)
  <2>1. detail = [thirtyDaySpendUsd |-> Total(rows, ListPrice), sevenDaySpendUsd |-> Total(week, ListPrice),
                  trend |-> ByDay(rows, ListPrice)]
    BY <1>7 DEF GetDevSpendDetail
  <2>2. ByDay(rows, ListPrice) = SumByDay(f, rows)
    <3>1. ByDay(rows, ListPrice) =
            [d \in {s.startedOn : s \in rows} |-> Total({s \in rows : s.startedOn = d}, ListPrice)]
      BY DEF ByDay
    <3>2. \A d : {s \in rows : s.startedOn = d} \in SUBSET rows
      OBVIOUS
    <3> HIDE DEF rows, f
    <3> QED BY <1>4, <3>1, <3>2 DEF SumByDay
  <2> HIDE DEF detail, rows, week, f
  <2> QED BY <1>1, <1>2, <1>4, <2>1, <2>2 DEF NoneIsNoAnswer
<1>8. ASSUME \A s \in rows : s.otelCost = None, db.calibrations[u] = NoCalibration
      PROVE  Total(rows, Cost) = Sigma(f, rows)
  <2>1. ASSUME NEW s \in rows PROVE EffectiveCost(s, db.calibrations[u]).value = f[s]
    <3>1. f[s] = 100 * s.cost /\ s.cost \in Nat /\ s.otelCost = None
      BY <1>1, <1>8 DEF ListCosts, ListPrice
    <3>2. \A x : x \notin DOMAIN db.calibrations[u]
      BY <1>8 DEF NoCalibration
    <3>3. CASE s.cost = 0
      <4>1. EffectiveCost(s, db.calibrations[u]) = [value |-> 0, source |-> "list"]
        BY <3>1, <3>3 DEF EffectiveCost
      <4> QED BY <3>1, <3>3, <4>1
    <3>4. CASE s.cost # 0
      <4>1. EffectiveCost(s, db.calibrations[u]) = [value |-> 100 * s.cost, source |-> "list"]
        BY <3>1, <3>2, <3>4 DEF EffectiveCost
      <4> QED BY <3>1, <4>1
    <3> QED BY <3>3, <3>4
  <2>2. Total(rows, Cost) = SumOver(f)
    <3> HIDE DEF rows
    <3> QED BY <2>1 DEF Total, ListCosts
  <2>3. f = [s \in rows |-> f[s]]
    BY DEF ListCosts
  <2> HIDE DEF f, rows
  <2> QED BY <2>2, <2>3, SumOverIsSigma
<1>9. GetMyOutcomeKpis(db, u).costUsd <= Total(rows, ListPrice)
  <2> DEFINE mine == {o \in db.outcomes : o.user = u /\ o.status = "evaluated"}
             Of(o) == {s \in Since(SessionsOf(db, {u}), db.now, 30) : s.session = o.session}
             counted == {o \in mine : Of(o) # {}}
             with == UNION {Of(o) : o \in counted}
  <2>1. GetMyOutcomeKpis(db, u).costUsd = Total(with, ListPrice)
    BY DEF GetMyOutcomeKpis
  <2>2. with \in SUBSET rows
    OBVIOUS
  <2> HIDE DEF with, rows, f
  <2>3. Sigma(f, with) <= Sigma(f, rows)
    BY <1>2, <1>3, <2>2, SigmaGrows
  <2> QED BY <1>2, <1>4, <2>1, <2>2, <2>3
<1> HIDE DEF f
<1>10. rows # {} => detail.thirtyDaySpendUsd = SumOver(detail.trend)
  <2> HIDE DEF rows, detail
  <2> QED BY <1>2, <1>3, <1>7, DaysAddUp
<1>11. rows # {} => detail.sevenDaySpendUsd <= detail.thirtyDaySpendUsd
  <2> HIDE DEF rows, week, detail
  <2>1. Sigma(f, week) <= Sigma(f, rows)
    BY <1>1, <1>2, <1>3, SigmaGrows
  <2> QED BY <1>7, <2>1
<1> HIDE DEF detail, rows
<1> QED BY <1>5, <1>6, <1>7, <1>8, <1>9, <1>10, <1>11 DEF DrilldownMatchesSelf, detail, rows

-----------------------------------------------------------------------------
(* The page of a team and its row of the overview.                          *)

(* SigmaByKey, with its sums as a function of the keys.                     *)
LEMMA KeysAddUp ==
  ASSUME NEW D, IsFiniteSet(D), NEW f \in [D -> Int], NEW R \in SUBSET D,
         NEW K, IsFiniteSet(K), NEW key \in [R -> K]
  PROVE  SumByKey(f, key, R, K) \in [K -> Int] /\ Sigma(SumByKey(f, key, R, K), K) = Sigma(f, R)
<1> DEFINE part == [d \in K |-> Sigma(f, {x \in R : key[x] = d})]
<1>1. part \in [K -> Int] /\ Sigma(part, K) = Sigma(f, R)
  BY SigmaByKey
<1>2. SumByKey(f, key, R, K) = part
  BY DEF SumByKey, Keyed
<1> QED BY <1>1, <1>2

(* Without calibrations it does not matter whose are asked for.             *)
LEMMA UncalibratedAlike ==
  ASSUME NEW s, NEW c, NEW d, DOMAIN c = {}, DOMAIN d = {}
  PROVE  EffectiveCost(s, c).value = EffectiveCost(s, d).value
<1> DEFINE measured == s.otelCost # None /\ s.otelCost > 0
<1>1. CASE measured
  <2>1. /\ EffectiveCost(s, c) = [value |-> 100 * s.otelCost, source |-> "otel"]
        /\ EffectiveCost(s, d) = [value |-> 100 * s.otelCost, source |-> "otel"]
    BY <1>1 DEF EffectiveCost
  <2> QED BY <2>1
<1>2. CASE ~measured /\ s.cost = 0
  <2>1. /\ EffectiveCost(s, c) = [value |-> 0, source |-> "list"]
        /\ EffectiveCost(s, d) = [value |-> 0, source |-> "list"]
    BY <1>2 DEF EffectiveCost
  <2> QED BY <2>1
<1>3. CASE ~measured /\ s.cost # 0
  <2>1. s.model \notin DOMAIN c /\ "global" \notin DOMAIN c /\ s.model \notin DOMAIN d /\ "global" \notin DOMAIN d
    OBVIOUS
  <2>2. EffectiveCost(s, c) = [value |-> 100 * s.cost, source |-> "list"]
    BY <1>3, <2>1 DEF EffectiveCost
  <2>3. EffectiveCost(s, d) = [value |-> 100 * s.cost, source |-> "list"]
    BY <1>3, <2>1 DEF EffectiveCost
  <2> QED BY <2>2, <2>3
<1> QED BY <1>1, <1>2, <1>3

(* The list of the sessions of a member is complete when the limit is not   *)
(* reached.                                                                 *)
LEMMA SessionListWhole ==
  ASSUME NEW db, NEW u, SnapshotFits(db),
         Cardinality(Since(SessionsOf(db, {u}), db.now, 30)) <= DEFAULT_SESSION_LIST_LIMIT
  PROVE  GetDevSessionList(db, u, 30, DEFAULT_SESSION_LIST_LIMIT) = Since(SessionsOf(db, {u}), db.now, 30)
<1> DEFINE S == Since(SessionsOf(db, {u}), db.now, 30)  n == DEFAULT_SESSION_LIST_LIMIT
           Top(T) == /\ Cardinality(T) = Min({n, Cardinality(S)})
                     /\ \A r \in T, other \in S \ T : r.startedOn >= other.startedOn
<1>1. IsFiniteSet(S)
  <2>1. S \in SUBSET db.sessions
    BY DEF Since, SessionsOf
  <2> QED BY <2>1, FS_Subset DEF SnapshotFits, StoredFits
<1>2. GetDevSessionList(db, u, 30, n) = CHOOSE T \in SUBSET S : Top(T)
  BY DEF GetDevSessionList, FirstRows
<1> HIDE DEF S
<1>3. Min({n, Cardinality(S)}) = Cardinality(S)
  BY <1>1, WholeMin, FS_CardinalityType DEF S, DEFAULT_SESSION_LIST_LIMIT
<1>4. Top(S)
  BY <1>3
<1>5. \A T \in SUBSET S : Top(T) => T = S
  BY <1>1, <1>3, FS_Subset
<1> HIDE DEF Top
<1> QED BY <1>2, <1>4, <1>5 DEF S

PageRows(db, team) ==
  {s \in Since(SessionsOf(db, Shown(db, team, "all")), db.now, 30) : s.cost >= 0}
PageSpend(db, team, S) == OwnSpend(db, Shown(db, team, "all"), S)
SumByProject(f, R) == [p \in {s.project : s \in R} |-> Sigma(f, {s \in R : s.project = p})]

(* The sessions on the page of a team are those of its members.             *)
LEMMA PageRowsFit ==
  ASSUME NEW db, NEW team, NEW org, SnapshotFits(db), \E t \in db.teams : t.id = team /\ t.org = org
  PROVE  LET rows == PageRows(db, team) IN
         /\ IsFiniteSet(rows) /\ IsFiniteSet(Shown(db, team, "all"))
         /\ \A s \in rows : s \in db.sessions /\ s.startedOn \in Int /\ s.user \in Shown(db, team, "all")
         /\ OwnCosts(db, rows) \in [rows -> Nat]
         /\ \A S \in SUBSET rows : PageSpend(db, team, S) = Sigma(OwnCosts(db, rows), S)
<1> DEFINE rows == PageRows(db, team)  ids == Shown(db, team, "all")  f == OwnCosts(db, rows)
<1>1. \A s \in rows : s \in db.sessions /\ s.user \in ids
  BY DEF PageRows, Since, SessionsOf
<1>2. IsFiniteSet(rows)
  <2>1. rows \in SUBSET db.sessions
    BY <1>1
  <2> HIDE DEF rows
  <2> QED BY <2>1, FS_Subset DEF SnapshotFits, StoredFits
<1>3. IsFiniteSet(ids)
  <2>1. ids \in SUBSET MemberIds(db.users)
    BY DEF Shown, MemberIds
  <2>2. IsFiniteSet(MemberIds(db.users))
    BY IdsAreFinite DEF SnapshotFits, StoredFits
  <2> HIDE DEF ids
  <2> QED BY <2>1, <2>2, FS_Subset
<1>4. \A s \in rows : s.startedOn \in Int
  BY <1>1 DEF SnapshotFits, StoredFits
<1>5. f \in [rows -> Nat]
  <2>1. ASSUME NEW s \in rows PROVE EffectiveCost(s, db.calibrations[s.user]).value \in Nat
    <3>1. CostedRow(s) /\ s.user \in MemberIds(db.users)
      BY <1>1 DEF CostedRow, SnapshotFits, StoredFits
    <3>2. RatesFit(db.calibrations[s.user])
      BY <3>1 DEF SnapshotFits
    <3> QED BY <3>1, <3>2, CostsAreCosts
  <2> HIDE DEF rows
  <2> QED BY <2>1 DEF OwnCosts
<1>6. ASSUME NEW S \in SUBSET rows PROVE PageSpend(db, team, S) = Sigma(f, S)
  <2> DEFINE h == OwnCosts(db, S)
  <2>1. PageSpend(db, team, S) = Sigma(h, S)
    BY <1>1, OwnSpendIsSigma DEF PageSpend
  <2>2. \A s \in S : h[s] = f[s]
    BY DEF OwnCosts
  <2>3. h \in [S -> Int] /\ f \in [rows -> Int]
    BY <1>5 DEF OwnCosts
  <2>4. IsFiniteSet(S) /\ S \in SUBSET (S \cap rows)
    BY <1>2, FS_Subset
  <2> HIDE DEF h, f, rows
  <2> QED BY <1>2, <2>1, <2>2, <2>3, <2>4, SigmaSame
<1> HIDE DEF rows, ids, f
<1>7. /\ IsFiniteSet(rows) /\ IsFiniteSet(ids)
      /\ \A s \in rows : s \in db.sessions /\ s.startedOn \in Int /\ s.user \in ids
      /\ f \in [rows -> Nat]
      /\ \A S \in SUBSET rows : PageSpend(db, team, S) = Sigma(f, S)
  BY <1>1, <1>2, <1>3, <1>4, <1>5, <1>6
<1> QED BY <1>7 DEF rows, ids, f

(* The amounts on the page of a team, as sums over those sessions.          *)
LEMMA PageAsSums ==
  ASSUME NEW db, NEW team, NEW org, SnapshotFits(db), \E t \in db.teams : t.id = team /\ t.org = org,
         NothingCutOff(db, team)
  PROVE  LET page == GetTeamDetail(db, team, org, "all")
             rows == PageRows(db, team)
             f == OwnCosts(db, rows)
         IN page.spendTrend30d = SumByDay(f, rows) /\ page.topProjects = SumByProject(f, rows)
<1> DEFINE page == GetTeamDetail(db, team, org, "all")
           rows == PageRows(db, team)
           f == OwnCosts(db, rows)
           all == {s.project : s \in rows}
           Of(p) == {s \in rows : s.project = p}
           top == FirstRows(all, ROW_LIMIT_TOP_PROJECTS, LAMBDA p : PageSpend(db, team, {s \in rows : s.project = p}))
<1>1. page.spendTrend30d = [d \in {s.startedOn : s \in rows} |-> PageSpend(db, team, {s \in rows : s.startedOn = d})]
  BY DEF GetTeamDetail, PageSpend, OwnSpend, PageRows, Shown, ByDay
<1>2. page.topProjects = [p \in top |-> PageSpend(db, team, {s \in rows : s.project = p})]
  BY DEF GetTeamDetail, PageSpend, OwnSpend, PageRows, Shown
<1>3. \A S \in SUBSET rows : PageSpend(db, team, S) = Sigma(f, S)
  BY PageRowsFit
<1>4. top = all
  <2> DEFINE n == ROW_LIMIT_TOP_PROJECTS
             Top(T) == /\ Cardinality(T) = Min({n, Cardinality(all)})
                       /\ \A r \in T, other \in all \ T :
                            PageSpend(db, team, {s \in rows : s.project = r}) >=
                              PageSpend(db, team, {s \in rows : s.project = other})
  <2>1. top = CHOOSE T \in SUBSET all : Top(T)
    BY DEF FirstRows
  <2>2. IsFiniteSet(all) /\ Cardinality(all) <= n
    <3> DEFINE h == [s \in rows |-> s.project]
    <3>1. all = {s.project : s \in {r \in db.sessions : r.startedOn >= db.now - 30 /\
        \E u \in db.users : u.id = r.user /\ u.team = team}}
      <4>1. \A u \in db.users : PassesFilter(ProvisionedVia(db, u.id), "all")
        BY FiltersPick
      <4>2. \A s \in db.sessions : s.cost >= 0
        BY DEF SnapshotFits, StoredFits
      <4>3. rows = {r \in db.sessions : r.startedOn >= db.now - 30 /\
                      \E u \in db.users : u.id = r.user /\ u.team = team}
        BY <4>1, <4>2 DEF PageRows, Since, SessionsOf, Shown
      <4> HIDE DEF rows
      <4> QED BY <4>3
    <3>2. Cardinality(all) <= n
      <4> HIDE DEF all
      <4> QED BY <3>1 DEF NothingCutOff
    <3>3. all = {h[s] : s \in rows}
      OBVIOUS
    <3>4. IsFiniteSet(rows)
      BY PageRowsFit
    <3> HIDE DEF all, h, rows
    <3>5. IsFiniteSet({h[s] : s \in rows})
      BY <3>4, ImageIsFinite
    <3> QED BY <3>2, <3>3, <3>5
  <2> HIDE DEF all
  <2>3. Min({n, Cardinality(all)}) = Cardinality(all)
    BY <2>2, WholeMin, FS_CardinalityType DEF ROW_LIMIT_TOP_PROJECTS
  <2>4. Top(all)
    BY <2>3
  <2>5. \A T \in SUBSET all : Top(T) => T = all
    BY <2>2, <2>3, FS_Subset
  <2> HIDE DEF Top, top
  <2> QED BY <2>1, <2>4, <2>5
<1>5. \A x : {s \in rows : s.startedOn = x} \in SUBSET rows /\ {s \in rows : s.project = x} \in SUBSET rows
  OBVIOUS
<1> HIDE DEF page, rows, f, top
<1>6. page.spendTrend30d = SumByDay(f, rows)
  BY <1>1, <1>3, <1>5 DEF SumByDay
<1>7. page.topProjects = SumByProject(f, rows)
  BY <1>2, <1>3, <1>4, <1>5 DEF SumByProject
<1> QED BY <1>6, <1>7 DEF page, rows, f

(* The projects of a sum add up to it.                                      *)
LEMMA ProjectsAddUp ==
  ASSUME NEW D, IsFiniteSet(D), NEW f \in [D -> Int]
  PROVE  SumOver(SumByProject(f, D)) = Sigma(f, D)
<1> DEFINE key == [s \in D |-> s.project]  K == {key[s] : s \in D}
<1>1. IsFiniteSet(K)
  <2> HIDE DEF key
  <2> QED BY ImageIsFinite
<1>2. key \in [D -> K] /\ D \in SUBSET D
  OBVIOUS
<1>3. SumByProject(f, D) = SumByKey(f, key, D, K)
  <2>1. {s.project : s \in D} = K
    OBVIOUS
  <2>2. \A d : Keyed(key, D, d) = {s \in D : s.project = d}
    BY DEF Keyed
  <2> HIDE DEF key, K
  <2> QED BY <2>1, <2>2 DEF SumByProject, SumByKey
<1> HIDE DEF key, K
<1>4. SumByKey(f, key, D, K) \in [K -> Int] /\ Sigma(SumByKey(f, key, D, K), K) = Sigma(f, D)
  BY <1>1, <1>2, KeysAddUp
<1> DEFINE part == SumByKey(f, key, D, K)
<1>5. part = [d \in K |-> part[d]]
  BY DEF SumByKey
<1> HIDE DEF part
<1>6. SumOver(part) = Sigma(part, K)
  BY <1>5, SumOverIsSigma
<1> QED BY <1>3, <1>4, <1>6 DEF part

(* The page of a team whose limits are not reached: members, trend and      *)
(* projects have one total, which is that of the overview unless calibrations*)
(* are lent, and as many sessions are counted for a member as are listed for*)
(* him (teams.ts, overview.ts).                                             *)
THEOREM TeamPagesAlwaysMatch ==
  ASSUME NEW db, NEW team, NEW org, SnapshotFits(db), NothingCutOff(db, team)
  PROVE  TeamPageMatchesOverview(db, team, org)
<1> DEFINE page == GetTeamDetail(db, team, org, "all")
           view == GetOrgOverview(db, org)
           byUser == LoadCalibrationByUser(db, org)
           lends == DOMAIN BuildOrgGlobalCalibration(byUser) # {}
           own == \A u \in DOMAIN page.members : DOMAIN db.calibrations[u] # {}
           shown == MapThenSumSet(LAMBDA u : page.members[u].spend30d, DOMAIN page.members)
           rows == PageRows(db, team)
           f == OwnCosts(db, rows)
           ids == Shown(db, team, "all")
<1>1. SUFFICES ASSUME page # None
      PROVE  /\ shown = SumOver(page.spendTrend30d)
             /\ shown = SumOver(page.topProjects)
             /\ own \/ ~lends =>
                  shown = (IF team \in DOMAIN view.teamBreakdown
                             THEN view.teamBreakdown[team].spend30d ELSE 0)
             /\ \A u \in DOMAIN page.members :
                  page.members[u].sessions30d =
                    Cardinality(GetDevSessionList(db, u, 30, DEFAULT_SESSION_LIST_LIMIT))
  BY DEF TeamPageMatchesOverview
<1>2. PICK t \in db.teams : t.id = team /\ t.org = org
  BY <1>1, PageOfTeam
<1>3. page.members = [u \in ids |-> MemberRow(db, u)] /\ DOMAIN page.members = ids
  <2>1. page.members = [u \in ids |-> MemberRow(db, u)]
    BY <1>2, MembersOfPage
  <2> HIDE DEF page, ids
  <2> QED BY <2>1
<1>4. /\ IsFiniteSet(rows) /\ IsFiniteSet(ids) /\ f \in [rows -> Int] /\ f \in [rows -> Nat]
      /\ \A s \in rows : s \in db.sessions /\ s.startedOn \in Int /\ s.user \in ids
  <2>1. /\ IsFiniteSet(rows) /\ IsFiniteSet(ids) /\ f \in [rows -> Nat]
        /\ \A s \in rows : s \in db.sessions /\ s.startedOn \in Int /\ s.user \in ids
    BY <1>2, PageRowsFit
  <2> HIDE DEF f
  <2> QED BY <2>1
<1>5. page.spendTrend30d = SumByDay(f, rows) /\ page.topProjects = SumByProject(f, rows)
  BY <1>2, PageAsSums
<1>6. ASSUME NEW u \in ids
      PROVE  /\ RowsOf(db, u) = {s \in rows : s.user = u}
             /\ RowsOf(db, u) = Since(SessionsOf(db, {u}), db.now, 30)
  <2>1. \A s \in db.sessions : s.cost >= 0
    BY DEF SnapshotFits, StoredFits
  <2> HIDE DEF ids
  <2> QED BY <2>1 DEF RowsOf, PageRows, Since, SessionsOf, ids
<1>7. shown = Sigma(f, rows)
  <2> DEFINE key == [s \in rows |-> s.user]
             part == SumByKey(f, key, rows, ids)
             Is(g) == g = [s \in SUBSET ids |-> IF s = {} THEN 0
               ELSE page.members[CHOOSE x \in s : TRUE].spend30d + g[s \ {CHOOSE x \in s : TRUE}]]
  <2>1. key \in [rows -> ids] /\ rows \in SUBSET rows
    BY <1>4
  <2>2. part \in [ids -> Int] /\ Sigma(part, ids) = Sigma(f, rows)
    <3> HIDE DEF key, ids, rows, f
    <3> QED BY <1>4, <2>1, KeysAddUp
  <2>3. ASSUME NEW u \in ids PROVE page.members[u].spend30d = part[u]
    <3> DEFINE S == RowsOf(db, u)  h == OwnCosts(db, S)
    <3>1. S = Keyed(key, rows, u)
      BY <1>6 DEF Keyed
    <3>2. S \in SUBSET rows
      BY <1>6
    <3>3. IsFiniteSet(S) /\ S \in SUBSET (S \cap rows)
      BY <1>4, <3>2, FS_Subset
    <3>4. h \in [S -> Int] /\ \A s \in S : h[s] = f[s]
      <4> HIDE DEF S, rows
      <4>1. \A s \in S : s \in rows
        BY <3>2
      <4> QED BY <1>4, <4>1 DEF OwnCosts
    <3>5. Sigma(h, S) = Sigma(f, S)
      <4> HIDE DEF h, S, rows, f
      <4> QED BY <1>4, <3>3, <3>4, SigmaSame
    <3>6. MemberRow(db, u).spend30d = Sigma(h, S)
      BY DEF MemberRow
    <3>7. part[u] = Sigma(f, Keyed(key, rows, u))
      BY DEF SumByKey
    <3> HIDE DEF part, page, h, S, f, rows, ids, key
    <3> QED BY <1>3, <3>1, <3>5, <3>6, <3>7
  <2>4. \A s \in SUBSET ids : s # {} => Chosen(s) \in ids
    BY ChosenIn
  <2>5. DOMAIN part = ids
    BY DEF SumByKey
  <2> HIDE DEF part, page, ids
  <2>6. \A g : Is(g) <=> IsSum(g, part, ids)
    BY <2>3, <2>4 DEF IsSum, Chosen
  <2>7. (CHOOSE g : Is(g)) = CHOOSE g : IsSum(g, part, ids)
    <3> HIDE DEF Is
    <3> QED BY <2>6, Zenon
  <2>8. shown = (CHOOSE g : Is(g))[ids]
    BY <1>3 DEF MapThenSumSet, MapThenFoldSet
  <2> QED BY <2>2, <2>5, <2>7, <2>8 DEF Sigma
<1>8. SumOver(page.spendTrend30d) = Sigma(f, rows) /\ SumOver(page.topProjects) = Sigma(f, rows)
  <2>1. rows \in SUBSET rows
    OBVIOUS
  <2> HIDE DEF page, rows, f
  <2> QED BY <1>4, <1>5, <2>1, DaysAddUp, ProjectsAddUp
<1>9. ASSUME NEW u \in DOMAIN page.members
      PROVE  page.members[u].sessions30d =
               Cardinality(GetDevSessionList(db, u, 30, DEFAULT_SESSION_LIST_LIMIT))
  <2>1. u \in ids /\ page.members[u].sessions30d = Cardinality(RowsOf(db, u))
    BY <1>3 DEF MemberRow
  <2>2. u \in MemberIds(db.users)
    BY <2>1 DEF Shown, MemberIds
  <2>3. GetDevSessionList(db, u, 30, DEFAULT_SESSION_LIST_LIMIT) = Since(SessionsOf(db, {u}), db.now, 30)
    BY <2>2, SessionListWhole DEF NothingCutOff
  <2> HIDE DEF page, ids
  <2> QED BY <1>6, <2>1, <2>3
<1>10. ASSUME own \/ ~lends
       PROVE  Sigma(f, rows) = (IF team \in DOMAIN view.teamBreakdown
                                  THEN view.teamBreakdown[team].spend30d ELSE 0)
  <2> DEFINE O == LoadSessionsForOrg(db, org)  F == SpendOf(db, org, O)
             T == Since(RowsOfTeam(db, O, team), db.now, 30)
  <2>1. rows \in SUBSET RowsOfTeam(db, O, team) /\ T = rows
    <3>1. ASSUME NEW s \in rows PROVE s \in RowsOfTeam(db, O, team) /\ s.startedOn >= db.now - 30
      <4>1. s \in db.sessions /\ s.startedOn >= db.now - 30 /\ s.startedOn \in Int /\ s.user \in ids
        BY <1>4 DEF PageRows, Since
      <4>2. PICK u \in db.users : u.id = s.user /\ u.team = team
        BY <4>1 DEF Shown
      <4>3. u \in Members(db, org)
        <5>1. team # None
          BY <1>2 DEF SnapshotFits, StoredFits
        <5>2. PICK v \in db.teams : v.id = team /\ v.org = u.org
          BY <4>2, <5>1 DEF SnapshotFits, StoredFits
        <5>3. v = t
          BY <1>2, <5>2 DEF SnapshotFits, StoredFits
        <5> QED BY <1>2, <5>2, <5>3 DEF Members
      <4>4. s.user \in MemberIds(Members(db, org))
        BY <4>2, <4>3 DEF MemberIds
      <4>5. s \in O
        BY <4>1, <4>4 DEF LoadSessionsForOrg, SessionsOf, Since, SnapshotFits, StoredFits
      <4>6. PICK w \in Members(db, org) : w.id = s.user /\ w.team = TeamOfRow(db, s)
        BY <4>4, UserOfRow
      <4>7. w = u
        BY <4>2, <4>6 DEF Members, SnapshotFits, StoredFits
      <4> HIDE DEF O
      <4> QED BY <4>1, <4>2, <4>5, <4>6, <4>7 DEF RowsOfTeam
    <3>2. ASSUME NEW s \in T PROVE s \in rows
      <4>1. /\ s \in db.sessions /\ s.startedOn >= db.now - 30 /\ s.user \in MemberIds(Members(db, org))
            /\ TeamOfRow(db, s) = team
        BY DEF RowsOfTeam, LoadSessionsForOrg, SessionsOf, Since
      <4>2. PICK w \in Members(db, org) : w.id = s.user /\ w.team = TeamOfRow(db, s)
        BY <4>1, UserOfRow
      <4>3. PassesFilter(ProvisionedVia(db, w.id), "all") /\ s.cost >= 0
        BY <4>1, FiltersPick DEF SnapshotFits, StoredFits
      <4>4. s.user \in ids
        BY <4>1, <4>2, <4>3 DEF Shown, Members
      <4> HIDE DEF ids
      <4> QED BY <4>1, <4>3, <4>4 DEF PageRows, Since, SessionsOf, ids
    <3> HIDE DEF rows, O
    <3> QED BY <3>1, <3>2 DEF Since
  <2>2. /\ F \in [O -> Nat] /\ DOMAIN view.teamBreakdown = TeamsOf(db, O) \ {None}
        /\ \A x \in DOMAIN view.teamBreakdown :
             view.teamBreakdown[x].spend30d = Sigma(F, Since(RowsOfTeam(db, O, x), db.now, 30))
    BY OverviewAsSums
  <2>3. IsFiniteSet(O)
    BY RowsFit
  <2>4. rows \in SUBSET O
    BY <2>1 DEF RowsOfTeam
  <2>5. ASSUME NEW s \in rows PROVE F[s] = f[s]
    <3> DEFINE c == IF s.user \in DOMAIN byUser THEN byUser[s.user] ELSE BuildOrgGlobalCalibration(byUser)
               d == db.calibrations[s.user]
    <3>1. F[s] = OverviewCost(db, org, s).value
      BY <2>4 DEF SpendOf
    <3>2. OverviewCost(db, org, s) = EffectiveCost(s, c)
      BY DEF OverviewCost
    <3>3. f[s] = EffectiveCost(s, d).value
      BY DEF OwnCosts
    <3>4. s.user \in MemberIds(Members(db, org)) /\ s.user \in ids
      <4>1. s \in O /\ s.user \in ids
        BY <1>4, <2>4
      <4> HIDE DEF ids
      <4> QED BY <4>1, RowsFit
    <3>5. CASE DOMAIN d # {}
      <4>1. s.user \in DOMAIN byUser /\ byUser[s.user] = d
        BY <3>4, <3>5 DEF LoadCalibrationByUser
      <4>2. c = d
        BY <4>1
      <4> QED BY <3>1, <3>2, <3>3, <4>2
    <3>6. CASE DOMAIN d = {}
      <4>1. ~own
        <5> HIDE DEF page, ids
        <5> QED BY <1>3, <3>4, <3>6
      <4>2. DOMAIN BuildOrgGlobalCalibration(byUser) = {}
        BY <1>10, <4>1
      <4>3. s.user \notin DOMAIN byUser
        BY <3>6 DEF LoadCalibrationByUser
      <4>4. DOMAIN c = {}
        BY <4>2, <4>3
      <4>5. EffectiveCost(s, c).value = EffectiveCost(s, d).value
        <5> HIDE DEF c, d
        <5> QED BY <3>6, <4>4, UncalibratedAlike
      <4> QED BY <3>1, <3>2, <3>3, <4>5
    <3> QED BY <3>5, <3>6
  <2>6. Sigma(f, rows) = Sigma(F, T)
    <3>1. F \in [O -> Int] /\ rows \in SUBSET (rows \cap O)
      BY <2>2, <2>4
    <3> HIDE DEF F, O, f, rows, T
    <3>2. Sigma(f, rows) = Sigma(F, rows)
      BY <1>4, <2>3, <2>5, <3>1, SigmaSame
    <3> QED BY <2>1, <3>2
  <2>7. CASE team \in DOMAIN view.teamBreakdown
    <3> HIDE DEF view, f, rows, F, O
    <3> QED BY <2>2, <2>6, <2>7
  <2>8. CASE team \notin DOMAIN view.teamBreakdown
    <3>1. team # None
      BY <1>2 DEF SnapshotFits, StoredFits
    <3>2. team \notin TeamsOf(db, O)
      <4> HIDE DEF view, O, F
      <4> QED BY <2>2, <2>8, <3>1
    <3>3. RowsOfTeam(db, O, team) = {}
      <4> HIDE DEF O
      <4> QED BY <3>2 DEF RowsOfTeam, TeamsOf
    <3>4. rows = {}
      BY <2>1, <3>3
    <3>5. Sigma(f, rows) = 0
      <4> HIDE DEF rows, f
      <4> QED BY <1>4, <3>4, SigmaTakes
    <3> HIDE DEF view, rows, f
    <3> QED BY <2>8, <3>5
  <2> HIDE DEF view, rows, f
  <2> QED BY <2>7, <2>8
<1> HIDE DEF shown, view, page, own, lends, rows, f
<1> QED BY <1>7, <1>8, <1>9, <1>10

-----------------------------------------------------------------------------
(* The pages of the drill-downs (me-visibility.ts).                         *)

(* So many pages of n rows hold L rows, and no page of them is empty.       *)
LEMMA Pages ==
  ASSUME NEW n \in Nat \ {0}, NEW L \in Nat
  PROVE  LET pages == (L + n - 1) \div n IN
         /\ pages \in Nat /\ pages * n >= L
         /\ \A p \in 1 .. pages : (p - 1) * n < L
<1> DEFINE a == L + n - 1  pages == a \div n
<1>1. a \in Nat /\ n \in Int /\ n > 0 /\ n >= 1
  OBVIOUS
<1>2. pages \in Nat /\ pages * n <= a /\ a < pages * n + n
  <2>1. pages \in Nat
    <3> HIDE DEF a
    <3> QED BY <1>1, Quotients
  <2>2. pages * n <= a /\ a < pages * n + n
    <3> HIDE DEF a
    <3> QED BY <1>1
  <2> QED BY <2>1, <2>2
<1> HIDE DEF pages
<1>3. pages * n >= L
  <2> DEFINE m == pages * n
  <2>1. m \in Int /\ a < m + n
    BY <1>1, <1>2
  <2> HIDE DEF m
  <2> QED BY <1>1, <2>1 DEF m
<1>4. ASSUME NEW p \in 1 .. pages PROVE (p - 1) * n < L
  <2> DEFINE m == pages * n  k == p * n
  <2>1. p \in Int /\ p <= pages
    BY <1>2
  <2>2. k <= m /\ m \in Int /\ k \in Int /\ (p - 1) * n = k - n
    BY <1>1, <1>2, <2>1
  <2>3. m <= a
    BY <1>2
  <2> HIDE DEF m, k
  <2> QED BY <1>1, <2>2, <2>3
<1> QED BY <1>2, <1>3, <1>4 DEF pages

(* What a page of a log of L rows holds. *)
PageLength(n, L, p) == IF p * n <= L THEN n ELSE L - (p - 1) * n
(* The page p holds the rows from its first on, in order.                   *)
LEMMA ItemsOfPage ==
  ASSUME NEW Rows, NEW audit \in Seq(Rows), NEW n \in Nat \ {0}, NEW p \in Nat \ {0}, (p - 1) * n < Len(audit)
  PROVE  LET items == GetMyDrilldownAudit(audit, p, n).items IN
         /\ Len(items) = PageLength(n, Len(audit), p)
         /\ PageLength(n, Len(audit), p) \in Nat
         /\ \A i \in 1 .. Len(items) : items[i] = audit[(p - 1) * n + i]
<1> DEFINE L == Len(audit)  first == (p - 1) * n + 1  last == Min({p * n, L})
           items == GetMyDrilldownAudit(audit, p, n).items
<1>1. items = SubSeq(audit, first, last)
  <2>1. ~(p <= 0 \/ n <= 0)
    OBVIOUS
  <2> QED BY <2>1 DEF GetMyDrilldownAudit
<1> DEFINE k == p * n
<1>2. L \in Nat /\ k \in Int /\ (p - 1) * n = k - n /\ k >= n /\ n >= 1
  <2>1. n \in Int /\ p \in Int /\ n >= 1 /\ p >= 1
    OBVIOUS
  <2>2. k >= n
    BY <2>1
  <2> QED BY <2>1, <2>2
<1>3. last = IF k <= L THEN k ELSE L
  BY <1>2, LeastAmong
<1> HIDE DEF k, last
<1>4. first = k - n + 1 /\ k - n < L
  BY <1>2
<1>5. first \in Int /\ last \in Int /\ first >= 1 /\ last <= L /\ first <= last
  BY <1>2, <1>3, <1>4
<1>6. /\ Len(items) = last - first + 1
      /\ \A i \in 1 .. last - first + 1 : items[i] = audit[first + i - 1]
  <2> HIDE DEF first, items, L
  <2> QED BY <1>1, <1>2, <1>5 DEF L
<1>7. last - first + 1 = PageLength(n, L, p) /\ PageLength(n, L, p) \in Nat
  <2>1. PageLength(n, L, p) = IF k <= L THEN n ELSE L - (k - n)
    BY <1>2 DEF PageLength, k
  <2> HIDE DEF first, L
  <2> QED BY <1>2, <1>3, <1>4, <2>1
<1>8. \A i \in Int : first + i - 1 = (p - 1) * n + i
  <2> DEFINE m == (p - 1) * n
  <2>1. m \in Int
    OBVIOUS
  <2> HIDE DEF m
  <2> QED BY <2>1
<1> HIDE DEF first, items
<1>9. ASSUME NEW i \in 1 .. Len(items) PROVE items[i] = audit[(p - 1) * n + i]
  <2>1. i \in Int /\ i \in 1 .. last - first + 1
    BY <1>5, <1>6
  <2>2. items[i] = audit[first + i - 1] /\ first + i - 1 = (p - 1) * n + i
    BY <1>6, <1>8, <2>1
  <2> QED BY <2>2
<1>10. Len(items) = PageLength(n, Len(audit), p) /\ PageLength(n, Len(audit), p) \in Nat
  BY <1>6, <1>7
<1> QED BY <1>9, <1>10 DEF items

(* For every log and every size of a page: the pages of the drill-downs of a*)
(* user hold every row once and in order, and the one after the last is empty*)
(* (me-visibility.ts, getMyDrilldownAudit).                                 *)
THEOREM PagesAlwaysCoverAudit ==
  ASSUME NEW Rows, NEW audit \in Seq(Rows), NEW pageSize \in Nat \ {0}
  PROVE  PagesCoverAudit(audit, pageSize)
<1> DEFINE n == pageSize  L == Len(audit)  pages == (L + n - 1) \div n
           Items(p) == GetMyDrilldownAudit(audit, p, n).items
           f == [p \in 1 .. pages |-> Len(Items(p))]
<1>1. /\ L \in Nat /\ pages \in Nat /\ pages * n >= L
      /\ \A p \in 1 .. pages : (p - 1) * n < L
  BY Pages
<1> HIDE DEF pages
<1>2. ASSUME NEW p \in 1 .. pages
      PROVE  /\ Len(Items(p)) = PageLength(n, L, p) /\ PageLength(n, L, p) \in Nat
             /\ \A i \in 1 .. Len(Items(p)) : Items(p)[i] = audit[(p - 1) * n + i]
  <2>1. p \in Nat \ {0} /\ (p - 1) * n < Len(audit)
    BY <1>1
  <2> HIDE DEF n
  <2> QED BY <2>1, ItemsOfPage DEF n
<1>3. Items(pages + 1) = <<>>
  <2> DEFINE p == pages + 1  m == pages * n  k == p * n
  <2>1. Items(p) = SubSeq(audit, (p - 1) * n + 1, Min({k, L}))
    <3>1. ~(p <= 0) /\ ~(n <= 0)
      BY <1>1
    <3> HIDE DEF p
    <3> QED BY <3>1 DEF GetMyDrilldownAudit
  <2>2. m \in Int /\ (p - 1) * n = m /\ k \in Int /\ k = m + n /\ m >= L
    BY <1>1
  <2> HIDE DEF p, m, k
  <2>3. Min({k, L}) = L
    BY <1>1, <2>2, LeastAmong
  <2>4. Items(p) = SubSeq(audit, m + 1, L)
    BY <2>1, <2>2, <2>3
  <2> QED BY <1>1, <2>2, <2>4 DEF p
<1> DEFINE T == {x \in Nat : x <= pages /\ Sigma(f, 1 .. x) # (IF x * n <= L THEN x * n ELSE L)}
<1>4. /\ IsFiniteSet(1 .. pages) /\ f \in [1 .. pages -> Int]
      /\ \A p \in 1 .. pages : f[p] = PageLength(n, L, p)
  <2>1. IsFiniteSet(1 .. pages)
    BY <1>1, FS_Interval
  <2> HIDE DEF Items
  <2> QED BY <1>2, <2>1
<1>5. T = {}
  <2>1. SUFFICES ASSUME T # {} PROVE FALSE
    OBVIOUS
  <2>2. PICK x \in T : \A y \in T : x <= y
    <3>1. T \in SUBSET Nat
      OBVIOUS
    <3> HIDE DEF T
    <3> QED BY <2>1, <3>1, LeastNumber
  <2>3. x \in Nat /\ x <= pages
    OBVIOUS
  <2>4. CASE x = 0
    <3>1. 1 .. x = {} /\ x * n = 0
      BY <2>4
    <3>2. Sigma(f, {}) = 0
      <4> HIDE DEF f
      <4> QED BY <1>4, SigmaTakes
    <3> QED BY <1>1, <3>1, <3>2
  <2>5. CASE x # 0
    <3> DEFINE y == x - 1
    <3>1. y \in Nat /\ y <= pages /\ y < x /\ x \in 1 .. pages /\ 1 .. y = (1 .. x) \ {x}
      BY <1>1, <2>3, <2>5
    <3>2. y \notin T
      BY <2>2, <3>1
    <3>3. Sigma(f, 1 .. y) = IF y * n <= L THEN y * n ELSE L
      BY <3>1, <3>2
    <3>4. Sigma(f, 1 .. x) = f[x] + Sigma(f, 1 .. y)
      <4>1. x \in 1 .. x /\ (1 .. x) \in SUBSET (1 .. pages)
        BY <1>1, <2>3, <3>1
      <4> HIDE DEF f, y
      <4> DEFINE D == 1 .. pages
      <4> DEFINE S == 1 .. x
      <4>2. IsFiniteSet(D) /\ f \in [D -> Int] /\ x \in S /\ S \in SUBSET D
        BY <1>4, <4>1
      <4>3. Sigma(f, S) = f[x] + Sigma(f, S \ {x})
        <5> HIDE DEF D, S, T
        <5> QED BY <4>2, SigmaTakes
      <4> QED BY <3>1, <4>3
    <3>5. f[x] = IF x * n <= L THEN n ELSE L - (x - 1) * n
      BY <1>4, <3>1 DEF PageLength
    <3> DEFINE k == x * n
    <3>6. k \in Int /\ y * n = k - n /\ (x - 1) * n = k - n
      BY <2>3
    <3>7. k - n < L
      BY <1>1, <3>1, <3>6
    <3> HIDE DEF k, f, y
    <3>8. Sigma(f, 1 .. x) = IF k <= L THEN k ELSE L
      BY <1>1, <3>3, <3>4, <3>5, <3>6, <3>7 DEF k
    <3> QED BY <3>8 DEF k
  <2> QED BY <2>4, <2>5
<1>6. Sigma(f, 1 .. pages) = L
  <2>1. Sigma(f, 1 .. pages) = IF pages * n <= L THEN pages * n ELSE L
    <3> HIDE DEF f
    <3> QED BY <1>1, <1>5
  <2> DEFINE m == pages * n
  <2>2. m \in Int /\ m >= L
    BY <1>1
  <2> HIDE DEF m, f
  <2> QED BY <1>1, <2>1, <2>2 DEF m
<1>7. MapThenSumSet(LAMBDA p : Len(Items(p)), 1 .. pages) = Sigma(f, 1 .. pages)
  <2> DEFINE S == 1 .. pages
             Is(g) == g = [s \in SUBSET S |-> IF s = {} THEN 0
               ELSE Len(Items(CHOOSE x \in s : TRUE)) + g[s \ {CHOOSE x \in s : TRUE}]]
  <2>1. \A s \in SUBSET S : s # {} => Chosen(s) \in S
    BY ChosenIn
  <2>2. \A g : Is(g) <=> IsSum(g, f, S)
    <3> HIDE DEF S, Items
    <3> QED BY <2>1 DEF IsSum, Chosen, S
  <2>3. (CHOOSE g : Is(g)) = CHOOSE g : IsSum(g, f, S)
    <3> HIDE DEF Is, f, S
    <3> QED BY <2>2, Zenon
  <2>4. MapThenSumSet(LAMBDA p : Len(Items(p)), S) = (CHOOSE g : Is(g))[S]
    BY DEF MapThenSumSet, MapThenFoldSet
  <2>5. DOMAIN f = S
    OBVIOUS
  <2> QED BY <2>3, <2>4, <2>5 DEF Sigma
<1>8. /\ \A p \in 1 .. pages : \A i \in 1 .. Len(Items(p)) : Items(p)[i] = audit[(p - 1) * n + i]
      /\ MapThenSumSet(LAMBDA p : Len(Items(p)), 1 .. pages) = L
      /\ Items(pages + 1) = <<>>
  BY <1>2, <1>3, <1>6, <1>7
<1> QED BY <1>8 DEF PagesCoverAudit, pages

(* An axis keeps the order, from 100 for the greatest of several values. *)
LEMMA AxisKeepsOrder ==
  ASSUME NEW T, IsFiniteSet(T), NEW values \in [T -> Int], NEW t \in T, NEW x \in T, values[t] <= values[x]
  PROVE  /\ NormalizeAxis(values)[t] <= NormalizeAxis(values)[x]
         /\ (\A y \in T : values[y] <= values[x]) /\ values[t] < values[x] =>
              NormalizeAxis(values)[x] = 100 /\ NormalizeAxis(values)[t] < 100
<1> DEFINE all == {values[y] : y \in T}  low == Min(all)  high == Max(all)
<1>1. all \in SUBSET Int /\ IsFiniteSet(all) /\ all # {}
  <2>1. IsFiniteSet(all)
    BY ImageIsFinite
  <2> QED BY <2>1
<1>2. /\ low \in Int /\ high \in Int
      /\ \A y \in T : low <= values[y] /\ values[y] <= high
      /\ \E y \in T : high = values[y]
  <2> HIDE DEF all
  <2>1. low \in all /\ high \in all /\ \A v \in all : low <= v /\ v <= high
    BY <1>1, MinAndMax
  <2>2. all \in SUBSET Int /\ \A y \in T : values[y] \in all
    BY <1>1 DEF all
  <2>3. \E y \in T : high = values[y]
    BY <2>1 DEF all
  <2> HIDE DEF low, high
  <2> QED BY <2>1, <2>2, <2>3
<1>3. \A y \in T : NormalizeAxis(values)[y] =
                     IF low = high THEN 50 ELSE (100 * (values[y] - low)) \div (high - low)
  <2>1. DOMAIN values = T
    OBVIOUS
  <2> QED BY <2>1 DEF NormalizeAxis
<1> HIDE DEF low, high
<1> DEFINE d == high - low  a == 100 * (values[t] - low)  b == 100 * (values[x] - low)
<1>4. a \in Int /\ b \in Int /\ a <= b /\ d \in Int /\ (low # high => d > 0)
  BY <1>2
<1>5. NormalizeAxis(values)[t] <= NormalizeAxis(values)[x]
  <2>1. CASE low = high
    BY <1>3, <2>1
  <2>2. CASE low # high
    <3>1. NormalizeAxis(values)[t] = a \div d /\ NormalizeAxis(values)[x] = b \div d
      BY <1>3, <2>2
    <3>2. a \div d <= b \div d
      <4> HIDE DEF a, b, d
      <4> QED BY <1>4, <2>2, QuotientsGrow
    <3> QED BY <3>1, <3>2
  <2> QED BY <2>1, <2>2
<1>6. ASSUME \A y \in T : values[y] <= values[x], values[t] < values[x]
      PROVE  NormalizeAxis(values)[x] = 100 /\ NormalizeAxis(values)[t] < 100
  <2>1. high = values[x] /\ low # high
    BY <1>2, <1>6
  <2>2. NormalizeAxis(values)[t] = a \div d /\ NormalizeAxis(values)[x] = b \div d
    BY <1>3, <2>1
  <2>3. b = 100 * d /\ a < 100 * d
    BY <1>2, <1>6, <2>1
  <2> HIDE DEF a, b, d
  <2>4. (100 * d) \div d = 100
    BY <1>4, <2>1
  <2>5. a \div d < 100
    <3> DEFINE q == a \div d
    <3>1. q \in Int /\ q * d <= a
      BY <1>4, <2>1
    <3> HIDE DEF q
    <3>2. ASSUME q >= 100 PROVE FALSE
      <4>1. q * d >= 100 * d
        BY <1>4, <2>1, <3>1, <3>2
      <4> DEFINE m == q * d
      <4>2. m \in Int /\ m >= 100 * d /\ m <= a
        BY <1>4, <3>1, <4>1
      <4> HIDE DEF m
      <4> QED BY <1>4, <2>3, <4>2
    <3>3. q < 100
      BY <3>1, <3>2
    <3> QED BY <3>3 DEF q
  <2> QED BY <2>2, <2>3, <2>4, <2>5
<1> QED BY <1>5, <1>6

-----------------------------------------------------------------------------
(* The radar (manager-v2.ts and radar-normalize.ts).                        *)

WeighedGood(rows) == Total({m \in rows : m.goodPct # None}, LAMBDA m : m.goodPct * m.sessions)
SessionsIn(rows) == Total(rows, LAMBDA m : m.sessions)
GoodOf(db, org, t) ==
  LET rows == RollupsIn(db, org, t, 30)
  IN IF SessionsIn(rows) = 0 THEN 0 ELSE WeighedGood(rows) \div SessionsIn(rows)

(* What the rollups of a team add up to is not negative.                    *)
LEMMA SharesOfRollups ==
  ASSUME NEW rows, IsFiniteSet(rows), \A m \in rows : m.goodPct \in Nat /\ m.sessions \in Nat
  PROVE  SessionsIn(rows) \in Nat /\ (None \notin Int => WeighedGood(rows) \in Nat)
<1>1. SessionsIn(rows) \in Nat
  <2> DEFINE f == [m \in rows |-> m.sessions]
  <2>1. /\ f = [m \in rows |-> f[m]] /\ f \in [rows -> Int]
        /\ (\A m \in rows : f[m] >= 0) /\ rows \in SUBSET rows
    OBVIOUS
  <2>2. SessionsIn(rows) = SumOver(f)
    BY DEF SessionsIn, Total
  <2> HIDE DEF f
  <2>3. SumOver(f) = Sigma(f, rows)
    BY <2>1, SumOverIsSigma
  <2>4. Sigma(f, rows) \in Int
    BY <2>1, SigmaTakes
  <2>5. Sigma(f, rows) >= 0
    BY <2>1, SigmaGrows
  <2> QED BY <2>2, <2>3, <2>4, <2>5
<1>2. ASSUME None \notin Int PROVE WeighedGood(rows) \in Nat
  <2> DEFINE f == [m \in rows |-> m.goodPct * m.sessions]
  <2>1. {m \in rows : m.goodPct # None} = rows
    BY <1>2
  <2>2. WeighedGood(rows) = SumOver(f)
    BY <2>1 DEF WeighedGood, Total
  <2>3. /\ f = [m \in rows |-> f[m]] /\ f \in [rows -> Int]
        /\ (\A m \in rows : f[m] >= 0) /\ rows \in SUBSET rows
    <3>1. ASSUME NEW m \in rows PROVE m.goodPct * m.sessions \in Int /\ m.goodPct * m.sessions >= 0
      <4> DEFINE a == m.goodPct  b == m.sessions
      <4>1. a \in Nat /\ b \in Nat
        OBVIOUS
      <4> HIDE DEF a, b
      <4>2. a * b \in Int /\ a * b >= 0
        BY <4>1
      <4> QED BY <4>2 DEF a, b
    <3> QED BY <3>1
  <2> HIDE DEF f
  <2>4. SumOver(f) = Sigma(f, rows)
    BY <2>3, SumOverIsSigma
  <2>5. Sigma(f, rows) \in Int
    BY <2>3, SigmaTakes
  <2>6. Sigma(f, rows) >= 0
    BY <2>3, SigmaGrows
  <2> QED BY <2>2, <2>4, <2>5, <2>6
<1> QED BY <1>1, <1>2

(* Finitely many teams.                                                     *)
LEMMA TeamsAreFinite ==
  ASSUME NEW db, NEW org, SnapshotFits(db)
  PROVE  IsFiniteSet(LoadManagerTeams(db, org))
<1> DEFINE S == {x \in db.teams : x.org = org}  f == [t \in S |-> t.id]
<1>1. IsFiniteSet(S)
  <2>1. IsFiniteSet(db.teams)
    BY DEF SnapshotFits, StoredFits
  <2> QED BY <2>1, FS_Subset
<1>2. LoadManagerTeams(db, org) = {f[t] : t \in S}
  BY DEF LoadManagerTeams
<1> HIDE DEF S, f
<1> QED BY <1>1, <1>2, ImageIsFinite

(* The radar and the page of a team divide the same numbers.                *)
LEMMA GoodAlike ==
  ASSUME NEW db, NEW org, NEW t, SnapshotFits(db), None \notin Int
  PROVE  /\ GoodOf(db, org, t) \in Int
         /\ Percent(GetTeamGoodSessionPct(db, org, t, 30).pct) = GoodOf(db, org, t)
<1> DEFINE rows == RollupsIn(db, org, t, 30)  n == SessionsIn(rows)  w == WeighedGood(rows)
<1>1. \A m \in rows : m \in db.metrics /\ m.goodPct \in Nat /\ m.sessions \in Nat
  BY DEF RollupsIn, SnapshotFits, StoredFits
<1>2. IsFiniteSet(rows)
  <2>1. IsFiniteSet(db.metrics) /\ rows \in SUBSET db.metrics
    BY <1>1 DEF SnapshotFits, StoredFits
  <2> QED BY <2>1, FS_Subset
<1>3. n \in Nat /\ w \in Nat
  <2> HIDE DEF rows
  <2> QED BY <1>1, <1>2, SharesOfRollups
<1>4. GetTeamGoodSessionPct(db, org, t, 30).pct =
        IF n = 0 THEN [num |-> 0, den |-> 1] ELSE [num |-> w, den |-> n]
  <2>1. {m \in rows : m.goodPct # None} = rows
    BY <1>1
  <2> QED BY <2>1 DEF GetTeamGoodSessionPct, SessionsIn, WeighedGood
<1>5. GoodOf(db, org, t) = IF n = 0 THEN 0 ELSE w \div n
  BY DEF GoodOf
<1> HIDE DEF n, w
<1>6. n # 0 => w \div n \in Int
  BY <1>3
<1>7. 0 \div 1 = 0
  OBVIOUS
<1>8. Percent(GetTeamGoodSessionPct(db, org, t, 30).pct) = IF n = 0 THEN 0 ELSE w \div n
  BY <1>4, <1>7 DEF Percent
<1> QED BY <1>5, <1>6, <1>8

AdoptionOf(db, org, t) ==
  LET share == ShareOf(TeamSessions(db, org, t, 30), UsesSubagents) IN share.num \div share.den
(* The axes of the radar are the normalised shares.                         *)
LEMMA RadarAxes ==
  ASSUME NEW db, NEW org, NEW teams, Cardinality(teams) >= 2, Cardinality(teams) \in Nat
  PROVE  LET radar == GetRadarComparison(db, org, teams) IN
         /\ NoneIsNoAnswer => radar # None
         /\ radar.goodSessionPct = NormalizeAxis([t \in teams |-> GoodOf(db, org, t)])
         /\ radar.subagentAdoptionPct = NormalizeAxis([t \in teams |-> AdoptionOf(db, org, t)])
<1>1. ~(Cardinality(teams) < 2)
  OBVIOUS
<1> QED BY <1>1 DEF GetRadarComparison, NormalizeRadarMetrics, GoodOf, AdoptionOf, SessionsIn, WeighedGood, NoneIsNoAnswer

(* A team whose page shows no fewer good sessions than that of another is not*)
(* behind it on the radar: both divide the same numbers, and an axis keeps  *)
(* the order (manager-v2.ts, radar-normalize.ts).                           *)
THEOREM RadarsAlwaysRankAsPages ==
  ASSUME NEW db, NEW org, SnapshotFits(db), NoneIsNoAnswer
  PROVE  RadarRanksAsPages(db, org)
<1> DEFINE teams == LoadManagerTeams(db, org)
           radar == GetRadarComparison(db, org, teams)
           values == [t \in teams |-> GoodOf(db, org, t)]
<1>1. ManagerEffectivenessPage(db, org).radar = radar
  BY DEF ManagerEffectivenessPage
<1>2. None \notin Int
  BY DEF NoneIsNoAnswer
<1>3. IsFiniteSet(teams) /\ Cardinality(teams) \in Nat
  BY TeamsAreFinite, FS_CardinalityType
<1>4. values \in [teams -> Int]
  BY <1>2, GoodAlike
<1>5. \A t \in teams : TeamEffectivenessPage(db, t, org).goodSession = values[t]
  <2>1. \A t \in teams : TeamEffectivenessPage(db, t, org).goodSession =
                           Percent(GetTeamGoodSessionPct(db, org, t, 30).pct)
    BY DEF TeamEffectivenessPage
  <2> QED BY <1>2, <2>1, GoodAlike
<1>6. SUFFICES ASSUME radar # None,
                      NEW t \in DOMAIN radar.goodSessionPct, NEW x \in DOMAIN radar.goodSessionPct,
                      TeamEffectivenessPage(db, t, org).goodSession <=
                        TeamEffectivenessPage(db, x, org).goodSession
      PROVE  radar.goodSessionPct[t] <= radar.goodSessionPct[x]
  BY <1>1 DEF RadarRanksAsPages
<1>7. Cardinality(teams) >= 2
  <2>1. Cardinality(teams) < 2 => radar = None
    BY DEF GetRadarComparison, NormalizeRadarMetrics
  <2> QED BY <1>3, <1>6, <2>1
<1>8. radar.goodSessionPct = NormalizeAxis(values)
  BY <1>3, <1>7, RadarAxes
<1>9. DOMAIN radar.goodSessionPct = teams
  <2>1. DOMAIN NormalizeAxis(values) = DOMAIN values /\ DOMAIN values = teams
    BY DEF NormalizeAxis
  <2> QED BY <1>8, <2>1
<1> HIDE DEF teams, radar, values
<1>10. t \in teams /\ x \in teams /\ values[t] <= values[x]
  BY <1>5, <1>6, <1>9
<1> QED BY <1>3, <1>4, <1>8, <1>10, AxisKeepsOrder

-----------------------------------------------------------------------------
(* One of the least amount, and the first among those. *)
LEMMA FirstLeast ==
  ASSUME NEW P, IsFiniteSet(P), P # {}, NEW f \in [P -> Int], NEW order, \A t \in P : order[t] \in Int
  PROVE  \E i \in P : \A j \in P : f[i] < f[j] \/ (f[j] = f[i] /\ order[i] <= order[j])
<1> DEFINE all == {f[t] : t \in P}
<1>1. PICK low \in all : \A v \in all : low <= v
  <2>1. all \in SUBSET Int /\ IsFiniteSet(all) /\ all # {}
    <3>1. IsFiniteSet(all)
      BY ImageIsFinite
    <3> QED BY <3>1
  <2> HIDE DEF all
  <2> QED BY <2>1, LeastAndGreatest
<1>2. low \in Int /\ \A t \in P : f[t] \in Int /\ low <= f[t]
  BY <1>1
<1> DEFINE best == {t \in P : f[t] = low}
           rank == [t \in best |-> order[t]]
           ranks == {rank[t] : t \in best}
<1>3. best \in SUBSET P /\ best # {}
  BY <1>1
<1>4. ranks \in SUBSET Int /\ IsFiniteSet(ranks) /\ ranks # {}
  <2>1. IsFiniteSet(best)
    BY <1>3, FS_Subset
  <2>2. IsFiniteSet(ranks)
    <3> HIDE DEF best, rank
    <3> QED BY <2>1, ImageIsFinite
  <2>3. ranks # {} /\ ranks \in SUBSET Int
    BY <1>3
  <2> QED BY <2>2, <2>3
<1>5. PICK r \in ranks : \A q \in ranks : r <= q
  <2> HIDE DEF ranks
  <2> QED BY <1>4, LeastAndGreatest
<1>6. PICK i \in best : order[i] = r
  OBVIOUS
<1>7. ASSUME NEW j \in best PROVE order[i] <= order[j]
  <2>1. order[j] \in ranks
    OBVIOUS
  <2> HIDE DEF ranks
  <2> QED BY <1>5, <1>6, <2>1
<1>8. ASSUME NEW j \in P PROVE f[i] < f[j] \/ (f[j] = f[i] /\ order[i] <= order[j])
  <2>1. CASE f[j] = low
    BY <1>7, <2>1
  <2>2. CASE f[j] # low
    BY <1>2, <2>2
  <2> QED BY <2>1, <2>2
<1> QED BY <1>8

(* The team at the top is one of those compared, and no other is above it.  *)
LEMMA SomeTop ==
  ASSUME NEW T, IsFiniteSet(T), NEW sample \in [T -> Int], T # {},
         NEW order, \A t \in T : order[t] \in Int
  PROVE  /\ TopOf(sample, order) \in T
         /\ \A j \in T : sample[j] <= sample[TopOf(sample, order)]
<1> DEFINE f == [t \in T |-> 0 - sample[t]]
           Top(i) == \A j \in T : sample[j] < sample[i] \/ (sample[j] = sample[i] /\ order[i] <= order[j])
<1>1. f \in [T -> Int] /\ \A t \in T : sample[t] \in Int /\ f[t] = 0 - sample[t]
  OBVIOUS
<1>2. PICK i \in T : \A j \in T : f[i] < f[j] \/ (f[j] = f[i] /\ order[i] <= order[j])
  <2> HIDE DEF f
  <2> QED BY <1>1, FirstLeast
<1> HIDE DEF f
<1>3. Top(i)
  BY <1>1, <1>2
<1>4. TopOf(sample, order) = CHOOSE k \in T : Top(k)
  <2>1. DOMAIN sample = T
    OBVIOUS
  <2> QED BY <2>1 DEF TopOf
<1>5. TopOf(sample, order) \in T /\ Top(TopOf(sample, order))
  <2> HIDE DEF Top
  <2> QED BY <1>3, <1>4
<1> QED BY <1>1, <1>5

(* The one at the bottom is one of those that use it at all.                *)
LEMMA SomeBottom ==
  ASSUME NEW T, IsFiniteSet(T), NEW sample \in [T -> Nat],
         NEW order, \A t \in T : order[t] \in Int, \E t \in T : sample[t] > 0
  PROVE  BottomOf(sample, order) \in T /\ sample[BottomOf(sample, order)] > 0
<1> DEFINE P == {t \in T : sample[t] > 0}
           f == [t \in P |-> sample[t]]
           Bottom(i) == sample[i] > 0 /\ \A j \in T :
             sample[j] = 0 \/ sample[j] > sample[i] \/ (sample[j] = sample[i] /\ order[i] <= order[j])
<1>1. IsFiniteSet(P) /\ P # {} /\ f \in [P -> Int] /\ \A t \in P : order[t] \in Int
  <2>1. IsFiniteSet(P)
    BY FS_Subset
  <2> QED BY <2>1
<1>2. PICK i \in P : \A j \in P : f[i] < f[j] \/ (f[j] = f[i] /\ order[i] <= order[j])
  <2> HIDE DEF f, P
  <2> QED BY <1>1, FirstLeast
<1>3. i \in T /\ Bottom(i)
  <2>1. i \in T /\ sample[i] > 0 /\ f[i] = sample[i]
    OBVIOUS
  <2>2. SUFFICES ASSUME NEW j \in T, sample[j] # 0
        PROVE sample[j] > sample[i] \/ (sample[j] = sample[i] /\ order[i] <= order[j])
    BY <2>1
  <2>3. j \in P /\ f[j] = sample[j]
    BY <2>2
  <2> HIDE DEF f, P
  <2> QED BY <1>2, <2>1, <2>3
<1>4. BottomOf(sample, order) = CHOOSE k \in T : Bottom(k)
  <2>1. DOMAIN sample = T
    OBVIOUS
  <2> QED BY <2>1 DEF BottomOf
<1>5. BottomOf(sample, order) \in T /\ Bottom(BottomOf(sample, order))
  <2> HIDE DEF Bottom
  <2> QED BY <1>3, <1>4
<1> QED BY <1>5

-----------------------------------------------------------------------------
(* Knowledge sharing (manager-v2.ts, detectKnowledgeSharing): the shares that*)
(* are compared.                                                            *)

Counts(D) == [r \in D |-> r.count]
InBucket(rows, b) == {r \in rows : BucketOf(r.tool) = b}
(* The tool counts of a bucket, as a sum over the rows of the table.        *)
LEMMA MixIsSigma ==
  ASSUME NEW D, IsFiniteSet(D), \A r \in D : r.count \in Nat, NEW rows \in SUBSET D, NEW b \in ToolBuckets
  PROVE  /\ BucketizeToolMix(rows)[b] = Sigma(Counts(D), InBucket(rows, b))
         /\ BucketizeToolMix(rows)[b] \in Nat
<1> DEFINE S == InBucket(rows, b)  f == Counts(S)  h == Counts(D)
           Is(g) == g = [s \in SUBSET S |-> IF s = {} THEN 0
               ELSE (CHOOSE x \in s : TRUE).count + g[s \ {CHOOSE x \in s : TRUE}]]
<1>1. \A s \in SUBSET S : s # {} => Chosen(s) \in S
  BY ChosenIn
<1>2. \A g : Is(g) <=> IsSum(g, f, S)
  <2> HIDE DEF S
  <2> QED BY <1>1 DEF IsSum, Chosen, Counts
<1>3. (CHOOSE g : Is(g)) = CHOOSE g : IsSum(g, f, S)
  <2> HIDE DEF Is, f
  <2> QED BY <1>2, Zenon
<1>4. BucketizeToolMix(rows)[b] = MapThenSumSet(LAMBDA r : r.count, {r \in rows : BucketOf(r.tool) = b})
  BY DEF BucketizeToolMix
<1>5. BucketizeToolMix(rows)[b] = (CHOOSE g : Is(g))[S]
  BY <1>4 DEF InBucket, MapThenSumSet, MapThenFoldSet
<1>6. DOMAIN f = S
  BY DEF Counts
<1>7. BucketizeToolMix(rows)[b] = Sigma(f, S)
  BY <1>3, <1>5, <1>6 DEF Sigma
<1>8. S \in SUBSET D /\ S \in SUBSET (S \cap D) /\ S \in SUBSET S
  BY DEF InBucket
<1> HIDE DEF S
<1>9. f \in [S -> Int] /\ h \in [D -> Int] /\ \A r \in S : f[r] = h[r] /\ f[r] >= 0
  BY <1>8 DEF Counts
<1>10. IsFiniteSet(S)
  BY <1>8, FS_Subset
<1> HIDE DEF f, h, Is
<1>11. Sigma(f, S) = Sigma(h, S) /\ Sigma(f, S) \in Int
  BY <1>8, <1>9, <1>10, SigmaSame, SigmaTakes
<1>12. Sigma(f, S) >= 0
  BY <1>8, <1>9, <1>10, SigmaGrows
<1> QED BY <1>7, <1>11, <1>12 DEF h, S

(* There are five buckets.                                                  *)
LEMMA BucketsAreFinite == IsFiniteSet(ToolBuckets)
<1> DEFINE A == {} \cup {"Edit"}  B == A \cup {"Read"}  C == B \cup {"Bash"}  D == C \cup {"Agent"}
<1>1. IsFiniteSet(A)
  BY FS_EmptySet, FS_AddElement
<1>2. IsFiniteSet(B)
  <2> HIDE DEF A
  <2> QED BY <1>1, FS_AddElement
<1>3. IsFiniteSet(C)
  <2> HIDE DEF B
  <2> QED BY <1>2, FS_AddElement
<1>4. IsFiniteSet(D)
  <2> HIDE DEF C
  <2> QED BY <1>3, FS_AddElement
<1>5. IsFiniteSet(D \cup {"Other"})
  <2> HIDE DEF D
  <2> QED BY <1>4, FS_AddElement
<1>6. ToolBuckets = D \cup {"Other"}
  BY DEF ToolBuckets
<1> QED BY <1>5, <1>6

(* How much of its tools a team uses of one kind, in hundredths. *)
UsageIn(mix, b) == LET all == SumOver(mix) IN IF all = 0 THEN 0 ELSE (100 * mix[b]) \div all
(* Such a share is a natural number.                                        *)
LEMMA UsageIsShare ==
  ASSUME NEW D, IsFiniteSet(D), \A r \in D : r.count \in Nat, NEW rows \in SUBSET D, NEW b \in ToolBuckets
  PROVE  UsageIn(BucketizeToolMix(rows), b) \in Nat
<1> DEFINE mix == BucketizeToolMix(rows)  all == SumOver(mix)
<1>1. mix = [c \in ToolBuckets |-> mix[c]]
  BY DEF BucketizeToolMix
<1>2. \A c \in ToolBuckets : mix[c] \in Nat
  BY MixIsSigma
<1> HIDE DEF mix
<1>3. mix \in [ToolBuckets -> Int] /\ (\A c \in ToolBuckets : mix[c] >= 0) /\ ToolBuckets \in SUBSET ToolBuckets
  BY <1>1, <1>2
<1>4. all = Sigma(mix, ToolBuckets)
  BY <1>1, SumOverIsSigma
<1>5. Sigma(mix, ToolBuckets) \in Int
  BY <1>3, BucketsAreFinite, SigmaTakes
<1>6. Sigma(mix, ToolBuckets) >= 0
  BY <1>3, BucketsAreFinite, SigmaGrows
<1> HIDE DEF all
<1>7. all \in Nat /\ 100 * mix[b] \in Nat
  BY <1>2, <1>4, <1>5, <1>6
<1>8. all # 0 => (100 * mix[b]) \div all \in Nat
  <2> DEFINE a == 100 * mix[b]
  <2> HIDE DEF a
  <2>1. all # 0 => a \div all \in Nat
    BY <1>7, Quotients DEF a
  <2> QED BY <2>1 DEF a
<1> QED BY <1>8 DEF UsageIn, all, mix

(* The sessions of a team are among those of the table.                     *)
LEMMA TeamSessionsAreFinite ==
  ASSUME NEW db, NEW org, NEW t, NEW n, SnapshotFits(db)
  PROVE  IsFiniteSet(TeamSessions(db, org, t, n)) /\ TeamSessions(db, org, t, n) \in SUBSET db.sessions
<1>1. IsFiniteSet(db.sessions)
  BY DEF SnapshotFits, StoredFits
<1>2. TeamSessions(db, org, t, n) \in SUBSET db.sessions
  BY DEF TeamSessions, SessionsOf, Since
<1> QED BY <1>1, <1>2, FS_Subset

(* So is the share of the sessions with subagents, and it is 0 without      *)
(* sessions.                                                                *)
LEMMA AdoptionIsShare ==
  ASSUME NEW db, NEW org, NEW t, SnapshotFits(db)
  PROVE  AdoptionOf(db, org, t) \in Nat /\ (TeamSessions(db, org, t, 30) = {} => AdoptionOf(db, org, t) = 0)
<1> DEFINE rows == TeamSessions(db, org, t, 30)  use == {s \in rows : UsesSubagents(s)}
<1>1. IsFiniteSet(rows) /\ IsFiniteSet(use) /\ Cardinality(rows) \in Nat /\ Cardinality(use) \in Nat
  <2>1. IsFiniteSet(rows)
    BY TeamSessionsAreFinite
  <2>2. use \in SUBSET rows
    OBVIOUS
  <2> HIDE DEF rows, use
  <2> QED BY <2>1, <2>2, FS_Subset, FS_CardinalityType
<1>2. CASE rows = {}
  <2>1. ShareOf(rows, UsesSubagents) = [num |-> 0, den |-> 1]
    BY <1>2 DEF ShareOf
  <2>2. 0 \div 1 = 0
    OBVIOUS
  <2>3. AdoptionOf(db, org, t) = 0
    BY <2>1, <2>2 DEF AdoptionOf
  <2> QED BY <2>3
<1>3. CASE rows # {}
  <2>1. ShareOf(rows, UsesSubagents) = [num |-> 100 * Cardinality(use), den |-> Cardinality(rows)]
    BY <1>3 DEF ShareOf
  <2>2. AdoptionOf(db, org, t) = (100 * Cardinality(use)) \div Cardinality(rows)
    BY <2>1 DEF AdoptionOf
  <2> HIDE DEF rows, use
  <2> DEFINE a == 100 * Cardinality(use)  b == Cardinality(rows)
  <2>3. a \in Nat /\ b \in Nat /\ b > 0
    <3>1. b # 0
      BY <1>1, <1>3, FS_EmptySet
    <3> QED BY <1>1, <3>1
  <2>4. AdoptionOf(db, org, t) = a \div b
    BY <2>2
  <2> HIDE DEF a, b
  <2>5. a \div b \in Nat
    BY <2>3, Quotients
  <2> QED BY <1>3, <2>4, <2>5 DEF rows
<1> QED BY <1>2, <1>3

MixOf(db, org, t) == BucketizeToolMix(ToolsOf(db, TeamSessions(db, org, t, 30)))
ActiveTeams(db, org) == {t \in LoadManagerTeams(db, org) : TeamSessions(db, org, t, 30) # {}}
SampleOfFeature(db, org, feature) ==
  IF feature = "subagents" THEN [t \in ActiveTeams(db, org) |-> AdoptionOf(db, org, t)]
  ELSE [t \in LoadManagerTeams(db, org) |-> UsageIn(MixOf(db, org, t), feature)]
Features == (ToolBuckets \ {"Other"}) \cup {"subagents"}

(* What an opportunity consists of.                                         *)
LEMMA OpportunitiesNamed ==
  ASSUME NEW db, NEW org, NEW order, NEW row \in GetKnowledgeSharingOpportunities(db, org, order)
  PROVE  /\ ~(Cardinality(LoadManagerTeams(db, org)) < 2)
         /\ row.feature \in Features
         /\ DetectKnowledgeSharing(SampleOfFeature(db, org, row.feature), order)
         /\ row.top = TopOf(SampleOfFeature(db, org, row.feature), order)
         /\ row.bottom = BottomOf(SampleOfFeature(db, org, row.feature), order)
<1> DEFINE S(f) == SampleOfFeature(db, org, f)
           Row(f) == [feature |-> f, top |-> TopOf(S(f), order), bottom |-> BottomOf(S(f), order)]
<1>1. GetKnowledgeSharingOpportunities(db, org, order) =
        IF Cardinality(LoadManagerTeams(db, org)) < 2 THEN {}
        ELSE {Row(f) : f \in {g \in Features :
                Cardinality(DOMAIN S(g)) >= 2 /\ DetectKnowledgeSharing(S(g), order)}}
  BY DEF GetKnowledgeSharingOpportunities, SampleOfFeature, AdoptionOf, UsageIn, MixOf, ActiveTeams, Features
<1> HIDE DEF S
<1>2. PICK f \in Features : row = Row(f) /\ DetectKnowledgeSharing(S(f), order)
  BY <1>1
<1> QED BY <1>1, <1>2 DEF S

(* What is compared between the teams are natural numbers.                  *)
LEMMA SamplesFit ==
  ASSUME NEW db, NEW org, SnapshotFits(db), NEW feature \in Features
  PROVE  LET sample == SampleOfFeature(db, org, feature)
             T == IF feature = "subagents" THEN ActiveTeams(db, org) ELSE LoadManagerTeams(db, org)
         IN sample \in [T -> Nat] /\ IsFiniteSet(T) /\ T \subseteq LoadManagerTeams(db, org)
<1>1. IsFiniteSet(LoadManagerTeams(db, org))
  BY TeamsAreFinite
<1>2. CASE feature = "subagents"
  <2>1. IsFiniteSet(ActiveTeams(db, org)) /\ ActiveTeams(db, org) \subseteq LoadManagerTeams(db, org)
    BY <1>1, FS_Subset DEF ActiveTeams
  <2>2. \A t : AdoptionOf(db, org, t) \in Nat
    BY AdoptionIsShare
  <2> QED BY <1>2, <2>1, <2>2 DEF SampleOfFeature
<1>3. CASE feature # "subagents"
  <2>1. feature \in ToolBuckets
    BY <1>3 DEF Features
  <2>2. ASSUME NEW t PROVE UsageIn(MixOf(db, org, t), feature) \in Nat
    <3> DEFINE rows == ToolsOf(db, TeamSessions(db, org, t, 30))  D == db.tools
    <3>1. rows \in SUBSET D
      BY DEF ToolsOf
    <3>2. IsFiniteSet(D) /\ \A r \in D : r.count \in Nat
      BY DEF SnapshotFits, StoredFits
    <3> HIDE DEF rows, D
    <3>3. UsageIn(BucketizeToolMix(rows), feature) \in Nat
      BY <2>1, <3>1, <3>2, UsageIsShare
    <3> QED BY <3>3 DEF MixOf, rows
  <2> QED BY <1>1, <1>3, <2>2 DEF SampleOfFeature
<1> QED BY <1>2, <1>3

(* The team that is said to lead in subagents is at the rim of the radar, the*)
(* one that trails is not, and they are two teams of the organisation       *)
(* (manager-v2.ts, getKnowledgeSharingOpportunities).                       *)
THEOREM SharingAlwaysMatchesRadar ==
  ASSUME NEW db, NEW org, NEW order, SnapshotFits(db), \A t \in db.teams : order[t.id] \in Int
  PROVE  SharingMatchesRadar(db, org, order)
<1> DEFINE teams == LoadManagerTeams(db, org)
           radar == GetRadarComparison(db, org, teams)
<1>1. SUFFICES ASSUME NEW row \in GetKnowledgeSharingOpportunities(db, org, order)
      PROVE  /\ row.top # row.bottom /\ {row.top, row.bottom} \subseteq teams
             /\ row.feature = "subagents" =>
                  radar.subagentAdoptionPct[row.top] = 100 /\ radar.subagentAdoptionPct[row.bottom] < 100
  BY DEF SharingMatchesRadar
<1> DEFINE sample == SampleOfFeature(db, org, row.feature)
           T == IF row.feature = "subagents" THEN ActiveTeams(db, org) ELSE teams
<1>2. /\ ~(Cardinality(teams) < 2) /\ row.feature \in Features
      /\ DetectKnowledgeSharing(sample, order)
      /\ row.top = TopOf(sample, order) /\ row.bottom = BottomOf(sample, order)
  BY OpportunitiesNamed
<1>3. sample \in [T -> Nat] /\ IsFiniteSet(T) /\ T \subseteq teams
  BY <1>2, SamplesFit
<1>4. DOMAIN sample = T /\ sample \in [T -> Int]
  <2> HIDE DEF sample, T
  <2> QED BY <1>3
<1>5. \A t \in teams : order[t] \in Int
  BY DEF LoadManagerTeams
<1> HIDE DEF sample, T, radar, teams
<1>6. /\ row.top # row.bottom /\ \E t \in T : sample[t] > 0
      /\ sample[row.top] >= 4 * sample[row.bottom]
  BY <1>2, <1>4 DEF DetectKnowledgeSharing
<1>7. row.top \in T /\ \A t \in T : sample[t] <= sample[row.top]
  <2>1. T # {} /\ \A t \in T : order[t] \in Int
    BY <1>3, <1>5, <1>6
  <2> QED BY <1>2, <1>3, <1>4, <2>1, SomeTop
<1>8. row.bottom \in T /\ sample[row.bottom] > 0
  <2>1. \A t \in T : order[t] \in Int
    BY <1>3, <1>5
  <2> QED BY <1>2, <1>3, <1>6, <2>1, SomeBottom
<1>9. sample[row.bottom] < sample[row.top]
  <2>1. sample[row.bottom] \in Nat /\ sample[row.top] \in Nat
    BY <1>3, <1>7, <1>8
  <2> QED BY <1>6, <1>8, <2>1
<1>10. ASSUME row.feature = "subagents"
       PROVE  radar.subagentAdoptionPct[row.top] = 100 /\ radar.subagentAdoptionPct[row.bottom] < 100
  <2> DEFINE values == [t \in teams |-> AdoptionOf(db, org, t)]
  <2>1. IsFiniteSet(teams) /\ Cardinality(teams) \in Nat
    BY TeamsAreFinite, FS_CardinalityType DEF teams
  <2>2. radar.subagentAdoptionPct = NormalizeAxis(values)
    <3>1. Cardinality(teams) >= 2 /\ Cardinality(teams) \in Nat
      BY <1>2, <2>1
    <3> QED BY <3>1, RadarAxes DEF radar, teams
  <2>3. values \in [teams -> Int] /\ \A t \in teams : values[t] = AdoptionOf(db, org, t)
    BY AdoptionIsShare
  <2>4. T = {t \in teams : TeamSessions(db, org, t, 30) # {}} /\ \A t \in T : sample[t] = values[t]
    BY <1>10 DEF T, sample, SampleOfFeature, ActiveTeams, teams
  <2>5. \A t \in teams \ T : values[t] = 0
    BY <2>4, AdoptionIsShare
  <2> HIDE DEF values
  <2>6. row.top \in teams /\ row.bottom \in teams
    BY <1>3, <1>7, <1>8
  <2>7. values[row.bottom] < values[row.top] /\ values[row.bottom] > 0
    BY <1>7, <1>8, <1>9, <2>4
  <2>8. \A t \in teams : values[t] <= values[row.top]
    <3>1. values[row.bottom] \in Int /\ values[row.top] \in Int
      BY <2>3, <2>6
    <3>2. 0 <= values[row.top]
      BY <2>7, <3>1
    <3> QED BY <1>7, <2>4, <2>5, <3>2
  <2>9. values[row.bottom] <= values[row.top]
    BY <2>3, <2>6, <2>7
  <2> QED BY <2>1, <2>2, <2>3, <2>6, <2>7, <2>8, <2>9, AxisKeepsOrder
<1> QED BY <1>3, <1>6, <1>7, <1>8, <1>10

-----------------------------------------------------------------------------
(* Outcomes (team-outcomes.ts).                                             *)

OutcomeFields == {"commits", "added", "reverts", "tokens", "cost", "sessions"}
FieldTotal(rows, f) == Total(rows, LAMBDA r : r[f])
FieldsOf(D, f) == [r \in D |-> r[f]]

(* A total of a field of the rows, as a sum.                                *)
LEMMA FieldIsSigma ==
  ASSUME NEW D, IsFiniteSet(D), NEW f, \A r \in D : r[f] \in Nat, NEW S \in SUBSET D
  PROVE  /\ FieldsOf(D, f) \in [D -> Int] /\ \A r \in D : FieldsOf(D, f)[r] >= 0
         /\ FieldTotal(S, f) = Sigma(FieldsOf(D, f), S)
<1> DEFINE a == FieldsOf(S, f)  b == FieldsOf(D, f)
<1>1. FieldTotal(S, f) = SumOver(a)
  BY DEF FieldTotal, Total, FieldsOf
<1>2. b \in [D -> Int] /\ (\A r \in D : b[r] >= 0) /\ a = [r \in S |-> b[r]]
  BY DEF FieldsOf
<1> HIDE DEF a, b
<1>3. SumOver(a) = Sigma(b, S)
  BY <1>2, SumOfPart
<1> QED BY <1>1, <1>2, <1>3 DEF b

(* The rollup of some rows has the totals of its fields.                    *)
LEMMA RollupFields ==
  ASSUME NEW rows, NEW f \in OutcomeFields
  PROVE  AggregateOrgRollup(rows)[f] = FieldTotal(rows, f)
<1>1. CASE f = "commits"
  BY <1>1 DEF AggregateOrgRollup, FieldTotal, Total
<1>2. CASE f = "added"
  BY <1>2 DEF AggregateOrgRollup, FieldTotal, Total
<1>3. CASE f = "reverts"
  BY <1>3 DEF AggregateOrgRollup, FieldTotal, Total
<1>4. CASE f = "tokens"
  BY <1>4 DEF AggregateOrgRollup, FieldTotal, Total
<1>5. CASE f = "cost"
  BY <1>5 DEF AggregateOrgRollup, FieldTotal, Total
<1>6. CASE f = "sessions"
  BY <1>6 DEF AggregateOrgRollup, FieldTotal, Total
<1> QED BY <1>1, <1>2, <1>3, <1>4, <1>5, <1>6 DEF OutcomeFields

ByTeam(D) == [t \in {r.team : r \in D} |-> AggregateOrgRollup({r \in D : r.team = t})]

OfTeams(teams, f) == MapThenSumSet(LAMBDA t : teams[t][f], DOMAIN teams)

(* Team by team the totals add up to that of all.                           *)
LEMMA OutcomesOfTeams ==
  ASSUME NEW D, IsFiniteSet(D), NEW f \in OutcomeFields, \A r \in D : r[f] \in Nat,
         NEW teams, teams = ByTeam(D)
  PROVE  FieldTotal(D, f) = OfTeams(teams, f)
<1> DEFINE key == [r \in D |-> r.team]  K == {key[r] : r \in D}
           h == FieldsOf(D, f)
           part == SumByKey(h, key, D, K)
           Is(g) == g = [s \in SUBSET K |-> IF s = {} THEN 0
               ELSE teams[CHOOSE x \in s : TRUE][f] + g[s \ {CHOOSE x \in s : TRUE}]]
<1>1. h \in [D -> Int] /\ \A S \in SUBSET D : FieldTotal(S, f) = Sigma(h, S)
  <2>1. h \in [D -> Int]
    <3>1. D \in SUBSET D
      OBVIOUS
    <3> QED BY <3>1, FieldIsSigma
  <2> HIDE DEF h
  <2> QED BY <2>1, FieldIsSigma DEF h
<1>2. IsFiniteSet(K) /\ key \in [D -> K] /\ D \in SUBSET D /\ {r.team : r \in D} = K
  <2>1. IsFiniteSet(K)
    <3> HIDE DEF key
    <3> QED BY ImageIsFinite
  <2> QED BY <2>1
<1>3. part \in [K -> Int] /\ Sigma(part, K) = Sigma(h, D)
  <2>1. h \in [D -> Int] /\ D \in SUBSET D /\ key \in [D -> K]
    BY <1>1, <1>2
  <2>2. IsFiniteSet(K)
    BY <1>2
  <2> HIDE DEF h, key, K
  <2> QED BY <2>1, <2>2, KeysAddUp
<1>4. DOMAIN teams = K /\ \A t \in K : teams[t] = AggregateOrgRollup({r \in D : r.team = t})
  <2> HIDE DEF K
  <2> QED BY <1>2 DEF ByTeam
<1>5. ASSUME NEW t \in K PROVE teams[t][f] = part[t]
  <2> DEFINE S == {r \in D : r.team = t}
  <2>1. S = Keyed(key, D, t) /\ S \in SUBSET D
    BY DEF Keyed
  <2>2. teams[t] = AggregateOrgRollup(S)
    BY <1>4
  <2> HIDE DEF S, h, key, K
  <2>3. part[t] = Sigma(h, Keyed(key, D, t))
    BY DEF SumByKey
  <2> HIDE DEF part
  <2> QED BY <1>1, <2>1, <2>2, <2>3, RollupFields
<1>6. \A s \in SUBSET K : s # {} => Chosen(s) \in K
  BY ChosenIn
<1>7. DOMAIN part = K
  BY DEF SumByKey
<1> HIDE DEF part, K, h
<1>8. \A g : Is(g) <=> IsSum(g, part, K)
  BY <1>5, <1>6 DEF IsSum, Chosen
<1>9. (CHOOSE g : Is(g)) = CHOOSE g : IsSum(g, part, K)
  <2> HIDE DEF Is
  <2> QED BY <1>8, Zenon
<1>10. MapThenSumSet(LAMBDA t : teams[t][f], K) = (CHOOSE g : Is(g))[K]
  BY DEF MapThenSumSet, MapThenFoldSet
<1>11. MapThenSumSet(LAMBDA t : teams[t][f], K) = Sigma(part, K)
  BY <1>7, <1>9, <1>10 DEF Sigma
<1>12. FieldTotal(D, f) = Sigma(h, D)
  BY <1>1, <1>2
<1>13. MapThenSumSet(LAMBDA t : teams[t][f], DOMAIN teams) = MapThenSumSet(LAMBDA t : teams[t][f], K)
  BY <1>4 DEF MapThenSumSet, MapThenFoldSet
<1> QED BY <1>3, <1>11, <1>12, <1>13 DEF OfTeams

(* The outcomes of an organisation are those of its teams, and a quotient is*)
(* missing exactly when there is nothing to divide by (team-outcomes.ts).   *)
THEOREM OutcomesAlwaysAddUp ==
  ASSUME NEW db, NEW org, SnapshotFits(db), NoneIsNoAnswer
  PROVE  OutcomesAddUp(db, org)
<1> DEFINE rows == GetTeamOutcomesForOrg(db, org, db.now - 29, db.now)
           page == ManagerOutcomesPage(db, org)
           all == AggregateOrgRollup(rows)
           On(d) == {r \in rows : r.day = d}
           Of(t) == AggregateOrgRollup({r \in rows : r.team = t})
           shown == {r.team : r \in rows}
           priced == {d \in {r.day : r \in rows} : FieldTotal(On(d), "added") > 0 /\ CostIn(On(d)) > 0}
<1>1. /\ IsFiniteSet(rows) /\ rows \in SUBSET rows
      /\ \A r \in rows : \A f \in OutcomeFields : r[f] \in Nat
  <2>1. rows \in SUBSET db.teamOutcomes /\ IsFiniteSet(db.teamOutcomes)
    BY DEF GetTeamOutcomesForOrg, SnapshotFits, StoredFits
  <2>2. \A r \in rows : \A f \in OutcomeFields : r[f] \in Nat
    BY <2>1 DEF SnapshotFits, StoredFits, OutcomeFields
  <2> QED BY <2>1, <2>2, FS_Subset
<1>2. SUFFICES ASSUME page # None PROVE
       /\ DOMAIN page.teams # {} => \A f \in OutcomeFields :
            page.org[f] = MapThenSumSet(LAMBDA t : page.teams[t][f], DOMAIN page.teams)
       /\ (page.org.added = 0) <=> (CostPerMergedLoc(page.org) = None)
       /\ (TokensPerMergedLoc(page.org) = None) <=> (CostPerMergedLoc(page.org) = None)
       /\ (RevertRate(page.org) = None) <=> (page.org.commits = 0)
       /\ AvgMergedPrsPerSessionWithOutcome(page.org) # None => page.org.merged # None
       /\ page.org.added = 0 => DOMAIN page.trend = {}
  BY DEF OutcomesAddUp, OutcomeFields
<1>3. /\ page.org = all /\ DOMAIN page.trend = priced
      /\ page.teams = IF Cardinality(shown) >= 2 THEN [t \in shown |-> Of(t)] ELSE [t \in {} |-> t]
  <2>1. rows # {}
    BY <1>2 DEF ManagerOutcomesPage
  <2> QED BY <2>1 DEF ManagerOutcomesPage, FieldTotal
<1>4. ASSUME DOMAIN page.teams # {}, NEW f \in OutcomeFields
      PROVE  page.org[f] = MapThenSumSet(LAMBDA t : page.teams[t][f], DOMAIN page.teams)
  <2>1. page.teams = [t \in shown |-> Of(t)]
    BY <1>3, <1>4
  <2> DEFINE teams == page.teams
  <2> HIDE DEF page, teams, rows
  <2>2. teams = ByTeam(rows)
    BY <2>1 DEF teams, ByTeam
  <2>3. IsFiniteSet(rows) /\ \A r \in rows : r[f] \in Nat
    BY <1>1
  <2>4. FieldTotal(rows, f) = OfTeams(teams, f)
    BY <2>2, <2>3, OutcomesOfTeams
  <2> QED BY <1>3, <2>4, RollupFields DEF teams, OfTeams
<1>5. \A num, den : (RatioOrNone(num, den) = None) <=> (den = 0)
  BY DEF RatioOrNone, NoneIsNoAnswer
<1>6. /\ (page.org.added = 0) <=> (CostPerMergedLoc(page.org) = None)
      /\ (TokensPerMergedLoc(page.org) = None) <=> (CostPerMergedLoc(page.org) = None)
      /\ (RevertRate(page.org) = None) <=> (page.org.commits = 0)
  <2> HIDE DEF page
  <2> QED BY <1>5 DEF CostPerMergedLoc, TokensPerMergedLoc, RevertRate
<1>7. AvgMergedPrsPerSessionWithOutcome(page.org) # None => page.org.merged # None
  BY DEF AvgMergedPrsPerSessionWithOutcome
<1>8. ASSUME page.org.added = 0, NEW d \in priced PROVE FALSE
  <2> DEFINE h == FieldsOf(rows, "added")  S == On(d)
  <2>1. \A r \in rows : r["added"] \in Nat
    BY <1>1 DEF OutcomeFields
  <2>2. S \in SUBSET rows /\ FieldTotal(S, "added") > 0
    BY <1>8
  <2>3. FieldTotal(rows, "added") = 0
    <3>1. all["added"] = FieldTotal(rows, "added")
      BY RollupFields DEF OutcomeFields
    <3> QED BY <1>3, <1>8, <3>1
  <2> HIDE DEF rows, S, h
  <2>4. /\ h \in [rows -> Int] /\ \A r \in rows : h[r] >= 0
        /\ FieldTotal(S, "added") = Sigma(h, S) /\ FieldTotal(rows, "added") = Sigma(h, rows)
    BY <1>1, <2>1, <2>2, FieldIsSigma DEF h
  <2>5. Sigma(h, S) <= Sigma(h, rows)
    BY <1>1, <2>2, <2>4, SigmaGrows
  <2>6. Sigma(h, S) \in Int
    BY <1>1, <2>2, <2>4, SigmaTakes
  <2> QED BY <2>2, <2>3, <2>4, <2>5, <2>6
<1> HIDE DEF page, priced
<1> QED BY <1>3, <1>4, <1>6, <1>7, <1>8

-----------------------------------------------------------------------------
(* The tools of the teams, day by day and developer by developer            *)
(* (manager-v2.ts, manager-drilldown.ts).                                   *)

(* Three sums of counts, over what they are shown by. *)
TeamCounts(mixes, d, b, K) == [t \in K |-> mixes[t][d][b]]
DayCounts(mix, b, K) == [d \in K |-> mix[d][b]]
UserCounts(db, b, K) == [u \in K |-> GetDevToolUsage(db, u.id, 30)[b]]
SumOfTeams(mixes, d, b, K) == MapThenSumSet(LAMBDA t : mixes[t][d][b], K)
SumOfDays(mix, b, K) == MapThenSumSet(LAMBDA d : mix[d][b], K)
SumOfUsers(db, b, K) == MapThenSumSet(LAMBDA u : GetDevToolUsage(db, u.id, 30)[b], K)

(* Over the teams of a day.                                                 *)
LEMMA SumOfTeamsIsSigma ==
  ASSUME NEW mixes, NEW d, NEW b, NEW K
  PROVE  SumOfTeams(mixes, d, b, K) = Sigma(TeamCounts(mixes, d, b, K), K)
<1> DEFINE a == TeamCounts(mixes, d, b, K)
           Is(g) == g = [s \in SUBSET K |-> IF s = {} THEN 0
               ELSE mixes[CHOOSE x \in s : TRUE][d][b] + g[s \ {CHOOSE x \in s : TRUE}]]
<1>1. \A s \in SUBSET K : s # {} => Chosen(s) \in K
  BY ChosenIn
<1>2. \A g : Is(g) <=> IsSum(g, a, K)
  BY <1>1 DEF IsSum, Chosen, TeamCounts
<1>3. (CHOOSE g : Is(g)) = CHOOSE g : IsSum(g, a, K)
  <2> HIDE DEF Is, a
  <2> QED BY <1>2, Zenon
<1>4. SumOfTeams(mixes, d, b, K) = (CHOOSE g : Is(g))[K]
  BY DEF SumOfTeams, MapThenSumSet, MapThenFoldSet
<1>5. DOMAIN a = K
  BY DEF TeamCounts
<1> QED BY <1>3, <1>4, <1>5 DEF Sigma

(* Over the days of a page.                                                 *)
LEMMA SumOfDaysIsSigma ==
  ASSUME NEW mix, NEW b, NEW K
  PROVE  SumOfDays(mix, b, K) = Sigma(DayCounts(mix, b, K), K)
<1> DEFINE a == DayCounts(mix, b, K)
           Is(g) == g = [s \in SUBSET K |-> IF s = {} THEN 0
               ELSE mix[CHOOSE x \in s : TRUE][b] + g[s \ {CHOOSE x \in s : TRUE}]]
<1>1. \A s \in SUBSET K : s # {} => Chosen(s) \in K
  BY ChosenIn
<1>2. \A g : Is(g) <=> IsSum(g, a, K)
  BY <1>1 DEF IsSum, Chosen, DayCounts
<1>3. (CHOOSE g : Is(g)) = CHOOSE g : IsSum(g, a, K)
  <2> HIDE DEF Is, a
  <2> QED BY <1>2, Zenon
<1>4. SumOfDays(mix, b, K) = (CHOOSE g : Is(g))[K]
  BY DEF SumOfDays, MapThenSumSet, MapThenFoldSet
<1>5. DOMAIN a = K
  BY DEF DayCounts
<1> QED BY <1>3, <1>4, <1>5 DEF Sigma

(* Over the developers.                                                     *)
LEMMA SumOfUsersIsSigma ==
  ASSUME NEW db, NEW b, NEW K
  PROVE  SumOfUsers(db, b, K) = Sigma(UserCounts(db, b, K), K)
<1> DEFINE a == UserCounts(db, b, K)
           Is(g) == g = [s \in SUBSET K |-> IF s = {} THEN 0
               ELSE GetDevToolUsage(db, (CHOOSE x \in s : TRUE).id, 30)[b] + g[s \ {CHOOSE x \in s : TRUE}]]
<1>1. \A s \in SUBSET K : s # {} => Chosen(s) \in K
  BY ChosenIn
<1>2. \A g : Is(g) <=> IsSum(g, a, K)
  BY <1>1 DEF IsSum, Chosen, UserCounts
<1>3. (CHOOSE g : Is(g)) = CHOOSE g : IsSum(g, a, K)
  <2> HIDE DEF Is, a
  <2> QED BY <1>2, Zenon
<1>4. SumOfUsers(db, b, K) = (CHOOSE g : Is(g))[K]
  BY DEF SumOfUsers, MapThenSumSet, MapThenFoldSet
<1>5. DOMAIN a = K
  BY DEF UserCounts
<1> QED BY <1>3, <1>4, <1>5 DEF Sigma

(* The tool counts of the members of the teams: of whom, and of which day. *)
TeamTools(db, org, b) ==
  {r \in db.tools : BucketOf(r.tool) = b /\ \E s \in db.sessions :
     /\ s.user = r.user /\ s.session = r.session /\ s.startedOn >= db.now - 30
     /\ \E u \in InTeams(db, org) : u.id = s.user}
UserOfTool(db, r) == CHOOSE u \in db.users : u.id = r.user
DayOfTool(db, r) == (CHOOSE s \in db.sessions : s.user = r.user /\ s.session = r.session).startedOn

(* A tool count has one user and one session.                               *)
LEMMA ToolIsOf ==
  ASSUME NEW db, NEW org, NEW b, SnapshotFits(db), NEW r \in TeamTools(db, org, b)
  PROVE  /\ UserOfTool(db, r) \in InTeams(db, org) /\ UserOfTool(db, r).id = r.user
         /\ \A u \in db.users : u.id = r.user => u = UserOfTool(db, r)
         /\ \E s \in db.sessions :
              /\ s.user = r.user /\ s.session = r.session /\ s.startedOn = DayOfTool(db, r)
              /\ s.startedOn >= db.now - 30
              /\ \A q \in db.sessions : q.user = r.user /\ q.session = r.session => q = s
<1>1. PICK s \in db.sessions : /\ s.user = r.user /\ s.session = r.session /\ s.startedOn >= db.now - 30
                               /\ \E u \in InTeams(db, org) : u.id = s.user
  BY DEF TeamTools
<1>2. PICK u \in InTeams(db, org) : u.id = r.user
  BY <1>1
<1>3. u \in db.users
  BY DEF InTeams, Members
<1>4. \A v \in db.users : v.id = r.user => v = u
  BY <1>2, <1>3 DEF SnapshotFits, StoredFits
<1>5. UserOfTool(db, r) = u
  BY <1>2, <1>3, <1>4 DEF UserOfTool
<1>6. \A q \in db.sessions : q.user = r.user /\ q.session = r.session => q = s
  BY <1>1 DEF SnapshotFits, StoredFits
<1>7. DayOfTool(db, r) = s.startedOn
  <2>1. (CHOOSE q \in db.sessions : q.user = r.user /\ q.session = r.session) = s
    BY <1>1, <1>6
  <2> QED BY <2>1 DEF DayOfTool
<1> QED BY <1>1, <1>2, <1>4, <1>5, <1>6, <1>7

(* Those a developer is shown are those of whom he is the user.             *)
LEMMA ToolsOfUser ==
  ASSUME NEW db, NEW org, NEW b, SnapshotFits(db), NEW u \in InTeams(db, org)
  PROVE  InBucket(ToolsOf(db, Since(SessionsOf(db, {u.id}), db.now, 30)), b)
           = {r \in TeamTools(db, org, b) : UserOfTool(db, r) = u}
<1> DEFINE A == TeamTools(db, org, b)
           mine == Since(SessionsOf(db, {u.id}), db.now, 30)
<1>1. ASSUME NEW r \in InBucket(ToolsOf(db, mine), b) PROVE r \in A /\ UserOfTool(db, r) = u
  <2>1. r \in db.tools /\ BucketOf(r.tool) = b
    BY DEF InBucket, ToolsOf
  <2>2. PICK s \in mine : s.user = r.user /\ s.session = r.session
    BY DEF InBucket, ToolsOf
  <2>3. s \in db.sessions /\ s.user = u.id /\ s.startedOn >= db.now - 30
    BY DEF Since, SessionsOf
  <2>4. r \in A
    BY <2>1, <2>2, <2>3 DEF TeamTools
  <2>5. u \in db.users /\ u.id = r.user
    BY <2>2, <2>3 DEF InTeams, Members
  <2> QED BY <2>4, <2>5, ToolIsOf
<1>2. ASSUME NEW r \in A, UserOfTool(db, r) = u PROVE r \in InBucket(ToolsOf(db, mine), b)
  <2>1. u.id = r.user
    BY <1>2, ToolIsOf
  <2>2. PICK s \in db.sessions : s.user = r.user /\ s.session = r.session /\ s.startedOn >= db.now - 30
    BY <1>2, ToolIsOf
  <2>3. s \in mine
    BY <2>1, <2>2 DEF Since, SessionsOf
  <2>4. r \in db.tools /\ BucketOf(r.tool) = b
    BY <1>2 DEF TeamTools
  <2> QED BY <2>2, <2>3, <2>4 DEF InBucket, ToolsOf
<1> QED BY <1>1, <1>2

DayTools(db, org, t, d) == ToolsOf(db, {s \in TeamSessions(db, org, t, 30) : s.startedOn = d})
(* Those a team is shown for a day are those of its members and of that day.*)
LEMMA ToolsOfTeamAndDay ==
  ASSUME NEW db, NEW org, NEW b, SnapshotFits(db), NEW t \in LoadManagerTeams(db, org), NEW d
  PROVE  InBucket(DayTools(db, org, t, d), b)
           = {r \in TeamTools(db, org, b) : DayOfTool(db, r) = d /\ UserOfTool(db, r).team = t}
<1> DEFINE A == TeamTools(db, org, b)  rows == {s \in TeamSessions(db, org, t, 30) : s.startedOn = d}
<1>1. ASSUME NEW r \in InBucket(ToolsOf(db, rows), b)
      PROVE  r \in A /\ DayOfTool(db, r) = d /\ UserOfTool(db, r).team = t
  <2>1. r \in db.tools /\ BucketOf(r.tool) = b
    BY DEF InBucket, ToolsOf
  <2>2. PICK s \in rows : s.user = r.user /\ s.session = r.session
    BY DEF InBucket, ToolsOf
  <2>3. s \in db.sessions /\ s.user \in TeamIds(db, org, t) /\ s.startedOn >= db.now - 30 /\ s.startedOn = d
    BY DEF TeamSessions, Since, SessionsOf
  <2>4. PICK u \in Members(db, org) : u.team = t /\ u.id = s.user
    BY <2>3 DEF TeamIds
  <2>5. u \in InTeams(db, org) /\ u \in db.users
    BY <2>4 DEF InTeams, Members
  <2>6. r \in A
    BY <2>1, <2>2, <2>3, <2>4, <2>5 DEF TeamTools
  <2>7. UserOfTool(db, r) = u
    BY <2>2, <2>4, <2>5, <2>6, ToolIsOf
  <2>8. DayOfTool(db, r) = s.startedOn
    BY <2>2, <2>3, <2>6, ToolIsOf
  <2> QED BY <2>3, <2>4, <2>6, <2>7, <2>8
<1>2. ASSUME NEW r \in A, DayOfTool(db, r) = d, UserOfTool(db, r).team = t
      PROVE  r \in InBucket(ToolsOf(db, rows), b)
  <2>1. UserOfTool(db, r) \in Members(db, org) /\ UserOfTool(db, r).id = r.user
    BY <1>2, ToolIsOf DEF InTeams
  <2>2. PICK s \in db.sessions : /\ s.user = r.user /\ s.session = r.session
                                 /\ s.startedOn = DayOfTool(db, r) /\ s.startedOn >= db.now - 30
    BY <1>2, ToolIsOf
  <2>3. s.user \in TeamIds(db, org, t)
    BY <1>2, <2>1, <2>2 DEF TeamIds
  <2>4. s \in rows
    BY <1>2, <2>2, <2>3 DEF TeamSessions, Since, SessionsOf
  <2>5. r \in db.tools /\ BucketOf(r.tool) = b
    BY <1>2 DEF TeamTools
  <2> QED BY <2>2, <2>4, <2>5 DEF InBucket, ToolsOf
<1> QED BY <1>1, <1>2 DEF DayTools

(* All the tools of a snapshot have a count. *)
LEMMA ToolCounts ==
  ASSUME NEW db, SnapshotFits(db), NEW org, NEW b
  PROVE  /\ IsFiniteSet(db.tools) /\ (\A r \in db.tools : r.count \in Nat)
         /\ Counts(db.tools) \in [db.tools -> Int] /\ TeamTools(db, org, b) \in SUBSET db.tools
         /\ IsFiniteSet(InTeams(db, org))
<1>1. IsFiniteSet(db.tools) /\ \A r \in db.tools : r.count \in Nat
  BY DEF SnapshotFits, StoredFits
<1>2. Counts(db.tools) \in [db.tools -> Int]
  BY <1>1 DEF Counts
<1>3. InTeams(db, org) \in SUBSET db.users /\ IsFiniteSet(db.users)
  BY DEF InTeams, Members, SnapshotFits, StoredFits
<1>4. TeamTools(db, org, b) \in SUBSET db.tools
  BY DEF TeamTools
<1> QED BY <1>1, <1>2, <1>3, <1>4, FS_Subset

(* Counted developer by developer.                                          *)
LEMMA UsersAddUp ==
  ASSUME NEW db, NEW org, SnapshotFits(db), NEW b \in ToolBuckets
  PROVE  SumOfUsers(db, b, InTeams(db, org)) = Sigma(Counts(db.tools), TeamTools(db, org, b))
<1> DEFINE D == db.tools  f == Counts(db.tools)  R == TeamTools(db, org, b)  K == InTeams(db, org)
           key == [r \in R |-> UserOfTool(db, r)]
           part == SumByKey(f, key, R, K)  own == UserCounts(db, b, K)
<1>1. IsFiniteSet(D) /\ f \in [D -> Int] /\ R \in SUBSET D /\ IsFiniteSet(K)
  BY ToolCounts
<1>2. key \in [R -> K]
  BY ToolIsOf
<1>3. part \in [K -> Int] /\ Sigma(part, K) = Sigma(f, R)
  <2> HIDE DEF D, f, R, K, key
  <2> QED BY <1>1, <1>2, KeysAddUp
<1>4. ASSUME NEW u \in K PROVE own[u] = part[u]
  <2> DEFINE rows == ToolsOf(db, Since(SessionsOf(db, {u.id}), db.now, 30))
  <2>1. own[u] = BucketizeToolMix(rows)[b]
    BY DEF UserCounts, GetDevToolUsage
  <2>2. rows \in SUBSET db.tools
    BY DEF ToolsOf
  <2>3. BucketizeToolMix(rows)[b] = Sigma(f, InBucket(rows, b))
    <3> HIDE DEF rows
    <3> QED BY <2>2, ToolCounts, MixIsSigma
  <2>4. InBucket(rows, b) = {r \in R : UserOfTool(db, r) = u}
    BY ToolsOfUser
  <2>5. {r \in R : UserOfTool(db, r) = u} = Keyed(key, R, u)
    <3> HIDE DEF R
    <3> QED BY DEF Keyed
  <2>6. part[u] = Sigma(f, Keyed(key, R, u))
    <3> HIDE DEF f, key, R, K
    <3> QED BY DEF SumByKey
  <2> HIDE DEF rows, own, part, f, R, key
  <2> QED BY <2>1, <2>3, <2>4, <2>5, <2>6
<1>5. own \in [K -> Int]
  <2>1. own = [u \in K |-> own[u]]
    BY DEF UserCounts
  <2>2. \A u \in K : part[u] \in Int
    <3> HIDE DEF part, K
    <3> QED BY <1>3
  <2> HIDE DEF own, part, K
  <2> QED BY <1>4, <2>1, <2>2
<1>6. Sigma(own, K) = Sigma(part, K)
  <2>1. K \in SUBSET (K \cap K)
    OBVIOUS
  <2> HIDE DEF own, part, K, f, R
  <2> QED BY <1>1, <1>3, <1>4, <1>5, <2>1, SigmaSame
<1>7. SumOfUsers(db, b, K) = Sigma(own, K)
  BY SumOfUsersIsSigma
<1> QED BY <1>3, <1>6, <1>7

(* The teams that have tools on a day; what they used on it. *)
TeamsMix(db, org) == AggregateToolMix([t \in LoadManagerTeams(db, org) |-> GetTeamToolMix30d(db, org, t)])
TeamsOn(db, org, d) ==
  {t \in LoadManagerTeams(db, org) : d \in DOMAIN GetTeamToolMix30d(db, org, t)}
ToolsOfDay(db, org, b, d) == {r \in TeamTools(db, org, b) : DayOfTool(db, r) = d}

(* A day on which a team has tools is shown, with all of them.              *)
LEMMA MixesOfDay ==
  ASSUME NEW db, NEW org, NEW t, NEW d
  PROVE  /\ d \in DOMAIN GetTeamToolMix30d(db, org, t) =>
              GetTeamToolMix30d(db, org, t)[d] = BucketizeToolMix(DayTools(db, org, t, d))
         /\ DayTools(db, org, t, d) # {} => d \in DOMAIN GetTeamToolMix30d(db, org, t)
<1>1. DayTools(db, org, t, d) # {} => d \in {s.startedOn : s \in TeamSessions(db, org, t, 30)}
  BY DEF DayTools, ToolsOf
<1> QED BY <1>1 DEF GetTeamToolMix30d, DayTools

(* Counted on one day, team by team.                                        *)
LEMMA TeamsOfDayAddUp ==
  ASSUME NEW db, NEW org, SnapshotFits(db), NEW b \in ToolBuckets, NEW d \in DOMAIN TeamsMix(db, org)
  PROVE  TeamsMix(db, org)[d][b] = Sigma(Counts(db.tools), ToolsOfDay(db, org, b, d))
<1> DEFINE D == db.tools  f == Counts(db.tools)  R == ToolsOfDay(db, org, b, d)  K == TeamsOn(db, org, d)
           mixes == [t \in LoadManagerTeams(db, org) |-> GetTeamToolMix30d(db, org, t)]
           key == [r \in R |-> UserOfTool(db, r).team]
           part == SumByKey(f, key, R, K)  own == TeamCounts(mixes, d, b, K)
<1>1. IsFiniteSet(D) /\ f \in [D -> Int] /\ R \in SUBSET D /\ IsFiniteSet(K)
  <2>1. R \in SUBSET TeamTools(db, org, b) /\ K \in SUBSET LoadManagerTeams(db, org)
    BY DEF ToolsOfDay, TeamsOn
  <2>2. IsFiniteSet(LoadManagerTeams(db, org)) 
    BY TeamsAreFinite
  <2> HIDE DEF f, R, K
  <2> QED BY <2>1, <2>2, ToolCounts, FS_Subset DEF f
<1>2. key \in [R -> K]
  <2>1. ASSUME NEW r \in R PROVE UserOfTool(db, r).team \in K
    <3>1. r \in TeamTools(db, org, b) /\ DayOfTool(db, r) = d
      BY DEF ToolsOfDay
    <3> DEFINE t == UserOfTool(db, r).team
    <3>2. t \in LoadManagerTeams(db, org)
      BY <3>1, ToolIsOf DEF InTeams
    <3>3. r \in InBucket(DayTools(db, org, t, d), b)
      BY <3>1, <3>2, ToolsOfTeamAndDay
    <3>4. DayTools(db, org, t, d) # {}
      BY <3>3 DEF InBucket
    <3>5. d \in DOMAIN GetTeamToolMix30d(db, org, t)
      BY <3>4, MixesOfDay
    <3> QED BY <3>2, <3>5 DEF TeamsOn
  <2> HIDE DEF R, K
  <2> QED BY <2>1
<1>3. part \in [K -> Int] /\ Sigma(part, K) = Sigma(f, R)
  <2> HIDE DEF D, f, R, K, key
  <2> QED BY <1>1, <1>2, KeysAddUp
<1>4. ASSUME NEW t \in K PROVE own[t] = part[t]
  <2> DEFINE rows == DayTools(db, org, t, d)
  <2>1. t \in LoadManagerTeams(db, org) /\ d \in DOMAIN GetTeamToolMix30d(db, org, t)
    BY DEF TeamsOn
  <2>2. own[t] = BucketizeToolMix(rows)[b]
    BY <2>1, MixesOfDay DEF TeamCounts
  <2>3. rows \in SUBSET db.tools
    BY DEF DayTools, ToolsOf
  <2>4. BucketizeToolMix(rows)[b] = Sigma(f, InBucket(rows, b))
    <3> HIDE DEF rows
    <3> QED BY <2>3, ToolCounts, MixIsSigma
  <2>5. InBucket(rows, b) = {r \in R : UserOfTool(db, r).team = t}
    BY <2>1, ToolsOfTeamAndDay DEF ToolsOfDay
  <2>6. {r \in R : UserOfTool(db, r).team = t} = Keyed(key, R, t)
    <3> HIDE DEF R
    <3> QED BY DEF Keyed
  <2>7. part[t] = Sigma(f, Keyed(key, R, t))
    <3> HIDE DEF f, key, R, K
    <3> QED BY DEF SumByKey
  <2> HIDE DEF rows, own, part, f, R, key
  <2> QED BY <2>2, <2>4, <2>5, <2>6, <2>7
<1>5. own \in [K -> Int]
  <2>1. own = [t \in K |-> own[t]]
    BY DEF TeamCounts
  <2>2. \A t \in K : part[t] \in Int
    <3> HIDE DEF part, K
    <3> QED BY <1>3
  <2> HIDE DEF own, part, K
  <2> QED BY <1>4, <2>1, <2>2
<1>6. Sigma(own, K) = Sigma(part, K)
  <2>1. K \in SUBSET (K \cap K)
    OBVIOUS
  <2> HIDE DEF own, part, K, f, R
  <2> QED BY <1>1, <1>3, <1>4, <1>5, <2>1, SigmaSame
<1>7. TeamsMix(db, org)[d][b] = SumOfTeams(mixes, d, b, K)
  <2>1. {t \in DOMAIN mixes : d \in DOMAIN mixes[t]} = K
    BY DEF TeamsOn
  <2>2. TeamsMix(db, org)[d][b] = MapThenSumSet(LAMBDA t : mixes[t][d][b], {t \in DOMAIN mixes : d \in DOMAIN mixes[t]})
    BY DEF TeamsMix, AggregateToolMix
  <2> HIDE DEF mixes, K
  <2> QED BY <2>1, <2>2 DEF SumOfTeams
<1>8. SumOfTeams(mixes, d, b, K) = Sigma(own, K)
  BY SumOfTeamsIsSigma
<1> QED BY <1>3, <1>6, <1>7, <1>8

(* Counted day by day.                                                      *)
LEMMA DaysOfMixAddUp ==
  ASSUME NEW db, NEW org, SnapshotFits(db), NEW b \in ToolBuckets
  PROVE  SumOfDays(TeamsMix(db, org), b, DOMAIN TeamsMix(db, org)) = Sigma(Counts(db.tools), TeamTools(db, org, b))
<1> DEFINE D == db.tools  f == Counts(db.tools)  R == TeamTools(db, org, b)
           mix == TeamsMix(db, org)  K == DOMAIN mix
           key == [r \in R |-> DayOfTool(db, r)]
           part == SumByKey(f, key, R, K)  own == DayCounts(mix, b, K)
<1>1. IsFiniteSet(D) /\ f \in [D -> Int] /\ R \in SUBSET D
  BY ToolCounts
<1>2. K = UNION {DOMAIN GetTeamToolMix30d(db, org, t) : t \in LoadManagerTeams(db, org)}
  BY DEF TeamsMix, AggregateToolMix
<1>3. IsFiniteSet(K)
  <2> DEFINE day == [s \in db.sessions |-> s.startedOn]
             days == {day[s] : s \in db.sessions}
  <2>1. IsFiniteSet(days)
    <3>1. IsFiniteSet(db.sessions)
      BY DEF SnapshotFits, StoredFits
    <3> HIDE DEF day
    <3> QED BY <3>1, ImageIsFinite
  <2>2. ASSUME NEW t PROVE DOMAIN GetTeamToolMix30d(db, org, t) \subseteq days
    BY DEF GetTeamToolMix30d, TeamSessions, SessionsOf, Since
  <2>3. K \in SUBSET days
    <3> HIDE DEF days, K
    <3> QED BY <1>2, <2>2
  <2> HIDE DEF days, K
  <2> QED BY <2>1, <2>3, FS_Subset
<1>4. key \in [R -> K]
  <2>1. ASSUME NEW r \in R PROVE DayOfTool(db, r) \in K
    <3> DEFINE t == UserOfTool(db, r).team  d == DayOfTool(db, r)
    <3>2. t \in LoadManagerTeams(db, org)
      BY ToolIsOf DEF InTeams
    <3>3. r \in InBucket(DayTools(db, org, t, d), b)
      BY <3>2, ToolsOfTeamAndDay
    <3>4. DayTools(db, org, t, d) # {}
      BY <3>3 DEF InBucket
    <3>5. d \in DOMAIN GetTeamToolMix30d(db, org, t)
      BY <3>4, MixesOfDay
    <3> HIDE DEF t, d, K
    <3> QED BY <1>2, <3>2, <3>5 DEF d
  <2> HIDE DEF R, K
  <2> QED BY <2>1
<1>5. part \in [K -> Int] /\ Sigma(part, K) = Sigma(f, R)
  <2> HIDE DEF D, f, R, K, key
  <2> QED BY <1>1, <1>3, <1>4, KeysAddUp
<1>6. ASSUME NEW d \in K PROVE own[d] = part[d]
  <2>1. own[d] = mix[d][b]
    BY DEF DayCounts
  <2>2. mix[d][b] = Sigma(f, ToolsOfDay(db, org, b, d))
    BY TeamsOfDayAddUp
  <2>3. ToolsOfDay(db, org, b, d) = Keyed(key, R, d)
    <3>1. ToolsOfDay(db, org, b, d) = {r \in R : DayOfTool(db, r) = d}
      BY DEF ToolsOfDay
    <3> HIDE DEF R
    <3> QED BY <3>1 DEF Keyed
  <2>4. part[d] = Sigma(f, Keyed(key, R, d))
    <3> HIDE DEF f, key, R, K
    <3> QED BY DEF SumByKey
  <2> HIDE DEF own, part, f, R, key, mix
  <2> QED BY <2>1, <2>2, <2>3, <2>4
<1>7. own \in [K -> Int]
  <2>1. own = [d \in K |-> own[d]]
    BY DEF DayCounts
  <2>2. \A d \in K : part[d] \in Int
    <3> HIDE DEF part, K
    <3> QED BY <1>5
  <2> HIDE DEF own, part, K
  <2> QED BY <1>6, <2>1, <2>2
<1>8. Sigma(own, K) = Sigma(part, K)
  <2>1. K \in SUBSET (K \cap K)
    OBVIOUS
  <2> HIDE DEF own, part, K, f, R
  <2> QED BY <1>3, <1>5, <1>6, <1>7, <2>1, SigmaSame
<1>9. SumOfDays(mix, b, K) = Sigma(own, K)
  BY SumOfDaysIsSigma
<1> QED BY <1>5, <1>8, <1>9

(* Who delegates is counted on the day of his session. *)
TrendNums(trend) == [d \in DOMAIN trend |-> trend[d].num]
LEMMA AdoptionAddsUp ==
  ASSUME NEW db, NEW org, NEW t, SnapshotFits(db)
  PROVE  LET raw == GetTeamSubagentAdoption(db, org, t, 30)
         IN raw.pct.num = SumOver(TrendNums(raw.trend))
<1> DEFINE raw == GetTeamSubagentAdoption(db, org, t, 30)
           rows == TeamSessions(db, org, t, 30)  use == {s \in rows : UsesSubagents(s)}
           K == {s.startedOn : s \in rows}
           one == [s \in use |-> 1]  key == [s \in use |-> s.startedOn]
           part == SumByKey(one, key, use, K)  nums == TrendNums(raw.trend)
           ofDay == [d \in K |-> 100 * part[d]]
<1>1. IsFiniteSet(rows) /\ IsFiniteSet(use) /\ IsFiniteSet(K)
  <2>1. IsFiniteSet(rows)
    BY TeamSessionsAreFinite
  <2>2. use \in SUBSET rows
    OBVIOUS
  <2> DEFINE day == [s \in rows |-> s.startedOn]
  <2>3. K = {day[s] : s \in rows}
    OBVIOUS
  <2> HIDE DEF rows, use, K, day
  <2> QED BY <2>1, <2>2, <2>3, FS_Subset, ImageIsFinite
<1>2. one \in [use -> Int] /\ use \in SUBSET use /\ key \in [use -> K] /\ \A s \in use : one[s] = 1
  <2> HIDE DEF rows
  <2> QED OBVIOUS
<1>3. part \in [K -> Int] /\ Sigma(part, K) = Sigma(one, use)
  <2> HIDE DEF one, use, K, key
  <2> QED BY <1>1, <1>2, KeysAddUp
<1>4. Sigma(one, use) = Cardinality(use)
  <2> HIDE DEF one, use
  <2> QED BY <1>1, <1>2, SigmaOfOnes
<1>5. raw.pct.num = 100 * Cardinality(use)
  <2>1. CASE rows = {}
    <3>1. Cardinality(use) = 0
      BY <2>1, FS_EmptySet
    <3>2. raw.pct.num = 0
      BY <2>1 DEF GetTeamSubagentAdoption, ShareOf
    <3> HIDE DEF raw, use
    <3> QED BY <3>1, <3>2
  <2>2. CASE rows # {}
    BY <2>2 DEF GetTeamSubagentAdoption, ShareOf
  <2> QED BY <2>1, <2>2
<1>6. DOMAIN nums = K /\ nums = [d \in K |-> nums[d]]
  BY DEF GetTeamSubagentAdoption, TrendNums
<1>7. ASSUME NEW d \in K PROVE nums[d] = ofDay[d]
  <2> DEFINE on == {s \in rows : s.startedOn = d}  S == {s \in on : UsesSubagents(s)}
  <2>1. on # {}
    OBVIOUS
  <2>2. nums[d] = 100 * Cardinality(S)
    BY <2>1 DEF GetTeamSubagentAdoption, TrendNums, ShareOf
  <2>3. S = Keyed(key, use, d) /\ S \in SUBSET use
    BY DEF Keyed
  <2>4. part[d] = Sigma(one, Keyed(key, use, d))
    <3> HIDE DEF one, key, use, K
    <3> QED BY DEF SumByKey
  <2>5. Sigma(one, S) = Cardinality(S)
    <3>1. \A s \in S : one[s] = 1
      BY <1>2, <2>3
    <3> HIDE DEF one, use, S
    <3> QED BY <1>1, <1>2, <2>3, <3>1, SigmaOfOnes
  <2>6. ofDay[d] = 100 * part[d]
    <3> HIDE DEF part, K
    <3> QED OBVIOUS
  <2> HIDE DEF nums, S, part, ofDay, one, key, use
  <2> QED BY <2>2, <2>3, <2>4, <2>5, <2>6
<1>8. ofDay \in [K -> Int] /\ ofDay = [d \in K |-> ofDay[d]]
  <2> HIDE DEF part, K
  <2> QED BY <1>3
<1>9. nums = ofDay
  <2> HIDE DEF nums, ofDay, K
  <2> QED BY <1>6, <1>7, <1>8
<1>10. SumOver(nums) = Sigma(ofDay, K)
  <2> HIDE DEF nums, ofDay, K
  <2> QED BY <1>8, <1>9, SumOverIsSigma
<1>11. Sigma(ofDay, K) = 100 * Sigma(part, K)
  <2>1. K \in SUBSET K /\ 100 \in Int
    OBVIOUS
  <2> HIDE DEF part, K
  <2> QED BY <1>1, <1>3, <2>1, SigmaTimes
<1> HIDE DEF raw, nums, ofDay, part, K, one, use
<1> QED BY <1>3, <1>4, <1>5, <1>10, <1>11 DEF raw, nums

(* A mean of values that are all nothing, and one of zeros. *)
LEMMA MeanOfNothing ==
  ASSUME NEW values, \A i \in DOMAIN values : values[i] = None
  PROVE  Mean(values) = 0
BY DEF Mean

LEMMA MeanOfZeros ==
  ASSUME NEW K, IsFiniteSet(K), NoneIsNoAnswer, NEW values, values = [k \in K |-> 0]
  PROVE  Mean(values) = 0
<1>1. {i \in DOMAIN values : values[i] # None} = K
  BY DEF NoneIsNoAnswer
<1>2. CASE K = {}
  BY <1>2 DEF Mean
<1>3. CASE K # {}
  <2>1. Mean(values) = MapThenSumSet(LAMBDA i : values[i], K) \div Cardinality(K)
    BY <1>1, <1>3 DEF Mean
  <2>2. MapThenSumSet(LAMBDA i : values[i], K) = SumOver(values)
    BY DEF SumOver
  <2>3. SumOver(values) = Sigma(values, K)
    BY SumOverIsSigma
  <2>4. Sigma(values, K) = 0
    <3> DEFINE zero == [k \in K |-> 0 * values[k]]
    <3>1. values \in [K -> Int] /\ K \in SUBSET K /\ 0 \in Int
      OBVIOUS
    <3>2. zero = values
      OBVIOUS
    <3>3. Sigma(values, K) \in Int
      BY <3>1, SigmaTakes
    <3>4. Sigma(zero, K) = 0 * Sigma(values, K)
      BY <3>1, SigmaTimes
    <3> QED BY <3>2, <3>3, <3>4
  <2>5. Cardinality(K) \in Nat /\ Cardinality(K) # 0
    BY <1>3, FS_CardinalityType, FS_EmptySet
  <2>6. \A n \in Nat : n # 0 => 0 \div n = 0
    OBVIOUS
  <2> QED BY <2>1, <2>2, <2>3, <2>4, <2>5, <2>6
<1> QED BY <1>2, <1>3

(* Without a day that some team has a value for, the cache hit of all is 0. *)
LEMMA NoTrendNoHit ==
  ASSUME NEW db, NEW org, SnapshotFits(db), NoneIsNoAnswer,
         DOMAIN ManagerEffectivenessPage(db, org).cacheHitTrend = {}
  PROVE  ManagerEffectivenessPage(db, org).cacheHit = 0
<1> DEFINE teams == LoadManagerTeams(db, org)
           hits == [t \in teams |-> GetTeamCacheHitTrend(db, org, t, 30)]
           HitMean(t) == Mean([d \in {p.day : p \in hits[t]} |-> DayOf(hits[t], d)])
           means == [t \in teams |-> HitMean(t)]
<1>1. \A t \in teams : \A p \in hits[t] : p.pct = None
  BY DEF ManagerEffectivenessPage, AggregateDailyTrend
<1>2. ASSUME NEW t \in teams PROVE HitMean(t) = 0
  <2> DEFINE values == [d \in {p.day : p \in hits[t]} |-> DayOf(hits[t], d)]
  <2>1. ASSUME NEW d \in {p.day : p \in hits[t]} PROVE DayOf(hits[t], d) = None
    <3> DEFINE on == {p \in hits[t] : p.day = d}
    <3>1. on # {}
      OBVIOUS
    <3>2. \A p \in on : p.pct = None
      BY <1>1
    <3>3. DayOf(hits[t], d) = (CHOOSE p \in on : TRUE).pct
      <4> HIDE DEF hits
      <4> QED BY <3>1 DEF DayOf
    <3> HIDE DEF on, hits
    <3> QED BY <3>1, <3>2, <3>3
  <2>2. \A d \in DOMAIN values : values[d] = None
    <3> HIDE DEF hits
    <3> QED BY <2>1
  <2> HIDE DEF values
  <2>3. Mean(values) = 0
    BY <2>2, MeanOfNothing
  <2> QED BY <2>3 DEF values
<1>3. means = [t \in teams |-> 0]
  <2> HIDE DEF teams, HitMean
  <2> QED BY <1>2
<1>4. ManagerEffectivenessPage(db, org).cacheHit = Mean(means)
  BY DEF ManagerEffectivenessPage
<1>5. IsFiniteSet(teams)
  BY TeamsAreFinite
<1> HIDE DEF means, teams
<1> QED BY <1>3, <1>4, <1>5, MeanOfZeros

(* The tools of the teams, counted by day and team on the page of           *)
(* effectiveness, are those of their members, counted by developer on the   *)
(* pages of the drill-downs; subagents are counted on the day of their      *)
(* session; the radar takes two teams, and a cache hit takes a day that has *)
(* one (manager-v2.ts, manager/effectiveness).                              *)
THEOREM TeamsAlwaysAddUp ==
  ASSUME NEW db, NEW org, SnapshotFits(db), NoneIsNoAnswer
  PROVE  TeamsAddUp(db, org)
<1> DEFINE teams == LoadManagerTeams(db, org)
           page == ManagerEffectivenessPage(db, org)
<1>1. page.toolMix = TeamsMix(db, org)
  BY DEF ManagerEffectivenessPage, TeamsMix
<1>2. ASSUME NEW b \in ToolBuckets
      PROVE  MapThenSumSet(LAMBDA d : page.toolMix[d][b], DOMAIN page.toolMix)
               = MapThenSumSet(LAMBDA u : GetDevToolUsage(db, u.id, 30)[b], InTeams(db, org))
  <2>1. SumOfDays(TeamsMix(db, org), b, DOMAIN TeamsMix(db, org)) = SumOfUsers(db, b, InTeams(db, org))
    BY DaysOfMixAddUp, UsersAddUp
  <2> HIDE DEF page
  <2> QED BY <1>1, <2>1 DEF SumOfDays, SumOfUsers
<1>3. ASSUME NEW t \in teams
      PROVE  LET raw == GetTeamSubagentAdoption(db, org, t, 30)
             IN /\ raw.pct.num = SumOver([d \in DOMAIN raw.trend |-> raw.trend[d].num])
                /\ TeamEffectivenessPage(db, t, org).subagents = Percent(raw.pct)
  <2>1. TeamEffectivenessPage(db, t, org).subagents = Percent(GetTeamSubagentAdoption(db, org, t, 30).pct)
    BY DEF TeamEffectivenessPage
  <2>2. GetTeamSubagentAdoption(db, org, t, 30).pct.num
          = SumOver(TrendNums(GetTeamSubagentAdoption(db, org, t, 30).trend))
    BY AdoptionAddsUp
  <2> QED BY <2>1, <2>2 DEF TrendNums
<1>4. (page.radar = None) <=> (Cardinality(teams) < 2)
  <2>1. page.radar = GetRadarComparison(db, org, teams)
    BY DEF ManagerEffectivenessPage
  <2>2. Cardinality(teams) \in Nat
    BY TeamsAreFinite, FS_CardinalityType
  <2>3. CASE Cardinality(teams) < 2
    <3>1. page.radar = None
      BY <2>1, <2>3 DEF GetRadarComparison, NormalizeRadarMetrics
    <3> QED BY <2>3, <3>1
  <2>4. CASE Cardinality(teams) >= 2
    <3>1. ~(Cardinality(teams) < 2)
      BY <2>2, <2>4
    <3>2. page.radar # None
      BY <2>1, <3>1 DEF GetRadarComparison, NormalizeRadarMetrics, NoneIsNoAnswer
    <3> HIDE DEF page, teams
    <3> QED BY <3>1, <3>2
  <2> HIDE DEF teams
  <2> QED BY <2>2, <2>3, <2>4
<1>5. page.cacheHit = 0 \/ DOMAIN page.cacheHitTrend # {}
  BY NoTrendNoHit
<1> HIDE DEF page, teams
<1> QED BY <1>2, <1>3, <1>4, <1>5 DEF TeamsAddUp, page, teams

-----------------------------------------------------------------------------
(* The audit log and its export (audit-log.ts, audit-log/export). The rows  *)
(* kept are a fold; as with the sums it exists, and what holds of its steps *)
(* holds of it.                                                             *)

Passing(hashes, matching) == {e \in matching : e.email \in hashes}
KeepOne(rows, e, hashes, matching) ==
  IF e.email \in hashes /\ e \in matching THEN Append(rows, e) ELSE rows
Topmost(s) == CHOOSE x \in s : \A y \in s : x >= y
IsKept(g, log, hashes, matching, S) ==
  g = [s \in SUBSET S |-> IF s = {} THEN <<>>
                          ELSE KeepOne(g[s \ {Topmost(s)}], log[Topmost(s)], hashes, matching)]

(* The row that the fold takes last is one of the rows.                     *)
LEMMA TopmostIn ==
  ASSUME NEW n \in Nat, NEW s \in SUBSET (1 .. n), s # {}
  PROVE  Topmost(s) \in s
<1> DEFINE T == {n - x : x \in s}
<1>1. T \in SUBSET Nat /\ T # {}
  <2>1. \A x \in s : n - x \in Nat
    OBVIOUS
  <2> QED BY <2>1
<1>2. PICK m \in T : \A k \in T : m <= k
  <2> HIDE DEF T
  <2> QED BY <1>1, LeastNumber
<1>3. PICK x \in s : m = n - x
  BY <1>2
<1>4. \A y \in s : n - y \in T
  OBVIOUS
<1>5. ASSUME NEW y \in s PROVE x >= y
  <2>1. m <= n - y
    <3> HIDE DEF T
    <3> QED BY <1>2, <1>4
  <2>2. x \in Int /\ y \in Int
    OBVIOUS
  <2> HIDE DEF T
  <2> QED BY <1>3, <2>1, <2>2
<1> QED BY <1>5 DEF Topmost

(* A step of it keeps rows that pass, if those before do.                   *)
LEMMA KeptOne ==
  ASSUME NEW hashes, NEW matching, NEW rows \in Seq(Passing(hashes, matching)), NEW e
  PROVE  KeepOne(rows, e, hashes, matching) \in Seq(Passing(hashes, matching))
<1> DEFINE P == Passing(hashes, matching)
<1>1. CASE e \in P
  <2>1. rows \in Seq(P)
    OBVIOUS
  <2>2. Append(rows, e) \in Seq(P)
    <3> HIDE DEF P
    <3> QED BY <1>1, <2>1
  <2> QED BY <2>2 DEF KeepOne
<1>2. CASE e \notin P
  BY <1>2 DEF KeepOne, Passing
<1> QED BY <1>1, <1>2

(* The fold is defined on every part of the rows.                           *)
LEMMA KeptExists ==
  ASSUME NEW n \in Nat, NEW log, NEW hashes, NEW matching
  PROVE  \E g \in [SUBSET (1 .. n) -> Seq(Passing(hashes, matching))] :
           IsKept(g, log, hashes, matching, 1 .. n)
<1> DEFINE S == 1 .. n  P == Seq(Passing(hashes, matching))
           One(rows, i) == KeepOne(rows, log[i], hashes, matching)
           Sub(k) == {s \in SUBSET S : Cardinality(s) <= k}
           Good(g, k) == \A s \in Sub(k) :
                           g[s] = IF s = {} THEN <<>> ELSE One(g[s \ {Topmost(s)}], Topmost(s))
           Bad == {k \in Nat : ~\E g \in [Sub(k) -> P] : Good(g, k)}
<1>0. <<>> \in P /\ \A rows \in P : \A i \in S : One(rows, i) \in P
  BY DEF KeepOne, Passing
<1>1. IsFiniteSet(S) /\ \A s \in SUBSET S : IsFiniteSet(s) /\ Cardinality(s) \in Nat
  <2>1. 1 \in Int /\ n \in Int
    OBVIOUS
  <2>2. IsFiniteSet(S)
    BY <2>1, FS_Interval
  <2> HIDE DEF S
  <2> QED BY <2>2, FS_Subset, FS_CardinalityType
<1>2. \A s \in SUBSET S : s # {} => /\ Topmost(s) \in s /\ s \ {Topmost(s)} \in SUBSET S
                                    /\ Cardinality(s \ {Topmost(s)}) = Cardinality(s) - 1
  BY <1>1, TopmostIn, FS_RemoveElement
<1> HIDE DEF S, P, One
<1>3. 0 \notin Bad
  <2>1. Sub(0) = {{}}
    BY <1>1, FS_EmptySet
  <2>2. [s \in Sub(0) |-> <<>>] \in [Sub(0) -> P]
    BY <1>0
  <2>3. Good([s \in Sub(0) |-> <<>>], 0)
    BY <2>1
  <2> HIDE DEF Sub, Good
  <2> QED BY <2>2, <2>3
<1>4. ASSUME NEW k \in Nat, k \notin Bad PROVE k + 1 \notin Bad
  <2>1. PICK g \in [Sub(k) -> P] : Good(g, k)
    BY <1>4
  <2> DEFINE h == [s \in Sub(k + 1) |-> IF s = {} THEN <<>> ELSE One(g[s \ {Topmost(s)}], Topmost(s))]
  <2>2. ASSUME NEW s \in Sub(k + 1), s # {} PROVE s \ {Topmost(s)} \in Sub(k)
    <3>1. s \in SUBSET S /\ Cardinality(s) \in Nat /\ Cardinality(s) <= k + 1
      BY <1>1
    <3>2. s \ {Topmost(s)} \in SUBSET S /\ Cardinality(s \ {Topmost(s)}) = Cardinality(s) - 1
      BY <1>2, <2>2, <3>1
    <3>3. Cardinality(s \ {Topmost(s)}) <= k
      BY <3>1, <3>2
    <3> QED BY <3>2, <3>3
  <2>3. h \in [Sub(k + 1) -> P]
    BY <1>0, <1>2, <2>2
  <2>4. \A s \in Sub(k) : s \in Sub(k + 1) /\ h[s] = g[s]
    <3>1. \A s \in Sub(k) : s \in Sub(k + 1)
      BY <1>1
    <3> QED BY <2>1, <3>1
  <2>5. Good(h, k + 1)
    BY <2>2, <2>4
  <2> HIDE DEF h, Good, Sub
  <2> QED BY <2>3, <2>5
<1>5. Bad = {}
  <2>1. SUFFICES ASSUME Bad # {} PROVE FALSE
    OBVIOUS
  <2>2. PICK k \in Bad : \A m \in Bad : k <= m
    <3>1. Bad \in SUBSET Nat
      OBVIOUS
    <3> HIDE DEF Bad
    <3> QED BY <2>1, <3>1, LeastNumber
  <2> DEFINE m == k - 1
  <2>3. m \in Nat /\ m \notin Bad /\ m + 1 = k
    <3>1. k \in Nat /\ k # 0
      BY <1>3, <2>2
    <3>2. m \in Nat /\ ~(k <= m) /\ m + 1 = k
      BY <3>1
    <3> HIDE DEF Bad, m
    <3> QED BY <2>2, <3>2
  <2> HIDE DEF Bad, m
  <2> QED BY <1>4, <2>2, <2>3
<1>6. PICK g \in [Sub(Cardinality(S)) -> P] : Good(g, Cardinality(S))
  BY <1>1, <1>5
<1>7. Sub(Cardinality(S)) = SUBSET S
  <2>1. \A s \in SUBSET S : Cardinality(s) <= Cardinality(S)
    BY <1>1, FS_Subset
  <2> QED BY <2>1
<1> QED BY <1>6, <1>7 DEF IsKept, S, P, One

(* The rows of a log that are kept pass the filters. *)
LEMMA KeptPasses ==
  ASSUME NEW Rows, NEW log \in Seq(Rows), NEW hashes, NEW matching
  PROVE  Kept(log, hashes, matching) \in Seq(Passing(hashes, matching))
<1> DEFINE n == Len(log)  S == 1 .. n
           Is(g) == g = [s \in SUBSET S |-> IF s = {} THEN <<>>
              ELSE IF log[Topmost(s)].email \in hashes /\ log[Topmost(s)] \in matching
                   THEN Append(g[s \ {Topmost(s)}], log[Topmost(s)]) ELSE g[s \ {Topmost(s)}]]
<1>1. n \in Nat /\ DOMAIN log = S
  OBVIOUS
<1>2. \A g : Is(g) <=> IsKept(g, log, hashes, matching, S)
  BY DEF IsKept, KeepOne
<1>3. Kept(log, hashes, matching) = (CHOOSE g : Is(g))[S]
  BY <1>1 DEF Kept, FoldLeft, MapThenFoldSet, Max, Topmost
<1>4. \E g \in [SUBSET S -> Seq(Passing(hashes, matching))] : Is(g)
  <2> HIDE DEF Is
  <2> QED BY <1>1, <1>2, KeptExists
<1> DEFINE g == CHOOSE g : Is(g)
<1>5. IsKept(g, log, hashes, matching, S)
  <2>1. Is(g)
    <3> HIDE DEF Is
    <3> QED BY <1>4
  <2> HIDE DEF g
  <2> QED BY <1>2, <2>1
<1> DEFINE G == {s \in SUBSET S : g[s] \in Seq(Passing(hashes, matching))}
<1>6. \A s \in SUBSET S : g[s] = IF s = {} THEN <<>>
           ELSE KeepOne(g[s \ {Topmost(s)}], log[Topmost(s)], hashes, matching)
  <2> HIDE DEF g
  <2> QED BY <1>5 DEF IsKept
<1> HIDE DEF g, Is
<1>7. {} \in G
  <2>1. \A P : <<>> \in Seq(P)
    OBVIOUS
  <2>2. g[{}] = <<>>
    BY <1>6
  <2> QED BY <2>1, <2>2
<1>8. ASSUME NEW s \in SUBSET S, s # {}, \A x \in s : s \ {x} \in G PROVE s \in G
  <2>1. Topmost(s) \in s
    BY <1>1, <1>8, TopmostIn
  <2>2. g[s \ {Topmost(s)}] \in Seq(Passing(hashes, matching))
    BY <1>8, <2>1
  <2>3. KeepOne(g[s \ {Topmost(s)}], log[Topmost(s)], hashes, matching)
          \in Seq(Passing(hashes, matching))
    BY <2>2, KeptOne
  <2> QED BY <1>6, <1>8, <2>3
<1>9. IsFiniteSet(S)
  <2>1. 1 \in Int /\ n \in Int
    BY <1>1
  <2> QED BY <2>1, FS_Interval
<1>10. S \in G
  <2> HIDE DEF G, S
  <2>1. SUBSET S \subseteq G
    BY <1>7, <1>8, <1>9, SetsByElements
  <2> QED BY <2>1
<1> QED BY <1>3, <1>10 DEF g

(* A page of the audit log as the rows from its first on. *)
PageOf(kept, p, n) == SubSeq(kept, p * n + 1, Min({(p + 1) * n, Len(kept)}))
(* A part of a sequence that does not reach past its end.                   *)
LEMMA PartOfSeq ==
  ASSUME NEW P, NEW s \in Seq(P), NEW first \in Nat \ {0}, NEW last \in Nat, last <= Len(s)
  PROVE  /\ Len(SubSeq(s, first, last)) = IF first <= last THEN last - first + 1 ELSE 0
         /\ \A j \in 1 .. last - first + 1 : SubSeq(s, first, last)[j] = s[first + j - 1]
<1>1. CASE first <= last
  BY <1>1
<1>2. CASE first > last
  BY <1>2
<1> QED BY <1>1, <1>2

(* What a page of the rows kept holds.                                      *)
LEMMA LogPages ==
  ASSUME NEW P, NEW kept \in Seq(P), NEW p \in Nat, NEW n \in Nat \ {0}
  PROVE  /\ \A j \in 1 .. n : p * n + j <= Len(kept) =>
              j \in 1 .. Len(PageOf(kept, p, n)) /\ PageOf(kept, p, n)[j] = kept[p * n + j]
         /\ p * n < Len(kept) => PageOf(kept, p, n) # <<>>
         /\ p = 0 => Len(PageOf(kept, p, n)) = (IF n <= Len(kept) THEN n ELSE Len(kept))
<1> DEFINE L == Len(kept)  a == p * n  last == Min({(p + 1) * n, L})  page == SubSeq(kept, a + 1, last)
<1>1. L \in Nat /\ a \in Nat /\ (p + 1) * n = a + n /\ a + n \in Int /\ L \in Int
  OBVIOUS
<1>2. last = IF a + n <= L THEN a + n ELSE L
  BY <1>1, LeastAmong
<1> HIDE DEF a, last
<1>3. last \in Nat /\ last <= L /\ a + 1 \in Nat \ {0}
  BY <1>1, <1>2
<1>4. /\ Len(page) = IF a + 1 <= last THEN last - a ELSE 0
      /\ \A j \in 1 .. (last - a) : page[j] = kept[a + j]
  <2> DEFINE first == a + 1
  <2>1. first \in Nat \ {0} /\ first = a + 1
    BY <1>3
  <2> HIDE DEF first
  <2>2. /\ Len(SubSeq(kept, first, last)) = IF first <= last THEN last - first + 1 ELSE 0
        /\ \A j \in 1 .. last - first + 1 : SubSeq(kept, first, last)[j] = kept[first + j - 1]
    BY <1>3, <2>1, PartOfSeq
  <2>3. page = SubSeq(kept, first, last)
    BY <2>1
  <2> HIDE DEF page
  <2>4. last - first + 1 = last - a /\ \A j \in Int : first + j - 1 = a + j
    BY <1>1, <1>3, <2>1
  <2>5. ASSUME NEW j \in 1 .. (last - a) PROVE page[j] = kept[a + j]
    <3>1. j \in Int /\ j \in 1 .. last - first + 1
      BY <1>1, <1>3, <2>4
    <3> QED BY <2>2, <2>3, <2>4, <3>1
  <2>6. Len(page) = IF a + 1 <= last THEN last - a ELSE 0
    BY <2>1, <2>2, <2>3, <2>4
  <2> QED BY <2>5, <2>6
<1>8. page \in Seq(P)
  <2>1. \A i \in (a + 1) .. last : kept[i] \in P
    BY <1>1, <1>3
  <2> QED BY <1>3, <2>1, SubSeqProperties
<1> HIDE DEF page
<1>5. ASSUME NEW j \in 1 .. n, a + j <= L PROVE j \in 1 .. Len(page) /\ page[j] = kept[a + j]
  <2>1. j <= last - a /\ a + 1 <= last
    BY <1>1, <1>2, <1>5
  <2> QED BY <1>1, <1>3, <1>4, <2>1
<1>6. ASSUME a < L PROVE page # <<>>
  <2>1. a + 1 <= L
    BY <1>1, <1>6
  <2>2. 1 \in 1 .. n
    OBVIOUS
  <2>3. 1 \in 1 .. Len(page)
    BY <1>5, <2>1, <2>2
  <2> QED BY <2>3
<1>7. ASSUME p = 0 PROVE Len(page) = IF n <= L THEN n ELSE L
  <2>1. a = 0
    BY <1>7 DEF a
  <2> QED BY <1>1, <1>2, <1>3, <1>4, <2>1
<1> QED BY <1>5, <1>6, <1>7 DEF PageOf, a, last, page

(* A page that is not asked for, or past the greatest, is the first.        *)
LEMMA PageParams ==
  /\ MAX_PAGE \in Nat /\ (NoneIsNoAnswer => PageParam(None) = 0)
  /\ \A p \in Nat : PageParam(p) = IF p <= MAX_PAGE THEN p ELSE 0
<1>1. MAX_PAGE \in Nat
  BY DEF MAX_PAGE
<1>2. NoneIsNoAnswer => None \notin 0 .. MAX_PAGE
  <2> SUFFICES ASSUME None \notin Int PROVE None \notin 0 .. MAX_PAGE
    BY DEF NoneIsNoAnswer
  <2>1. \A x : x \in 0 .. MAX_PAGE => x \in Int
    BY <1>1
  <2> QED BY <2>1
<1>3. NoneIsNoAnswer => PageParam(None) = 0
  BY <1>2 DEF PageParam
<1>4. \A p \in Nat : PageParam(p) = IF p <= MAX_PAGE THEN p ELSE 0
  BY <1>1 DEF PageParam
<1> QED BY <1>1, <1>3, <1>4

(* For every log, every size of a page and every cap that the pages can     *)
(* reach: following the links of the audit log shows the rows of the export *)
(* in the same order, the export says it is truncated exactly when it is, no*)
(* row is of another organisation, and a link leads to a page that has rows *)
(* (audit-log.ts). None is no page.                                         *)
THEOREM ExportsAlwaysMatchPages ==
  ASSUME NEW Rows, NEW log \in Seq(Rows), NEW hashes, NEW matching,
         NEW pageSize \in Nat \ {0}, NEW cap \in Nat \ {0}, cap <= (MAX_PAGE + 1) * pageSize,
         NoneIsNoAnswer
  PROVE  ExportsMatchPages(log, hashes, matching, pageSize, cap)
<1> DEFINE kept == Kept(log, hashes, matching)  L == Len(kept)
           total == IF hashes = {} THEN 0 ELSE L
           file == ExportAuditLog(log, hashes, matching, "ok", [role |-> "manager"], cap)
           View(p) == AuditLogPage(log, hashes, matching, p, pageSize)
           pages == (total + pageSize - 1) \div pageSize
<1>1. kept \in Seq(Passing(hashes, matching)) /\ L \in Nat
  <2>1. kept \in Seq(Passing(hashes, matching))
    BY KeptPasses
  <2> HIDE DEF kept
  <2> QED BY <2>1
<1>2. total = L
  <2>1. CASE hashes = {}
    <3>1. Passing(hashes, matching) = {}
      BY <2>1 DEF Passing
    <3>2. L = 0
      <4>1. kept \in Seq({})
        BY <1>1, <3>1
      <4> HIDE DEF kept
      <4>2. L # 0 => kept[1] \in {}
        BY <1>1, <4>1
      <4> QED BY <4>2
    <3> QED BY <2>1, <3>2
  <2> HIDE DEF L
  <2> QED BY <2>1
<1>3. file.rows = PageOf(kept, 0, cap) /\ (file.truncated <=> total > cap)
  <2> DEFINE page == LoadAuditLogPage(log, hashes, matching, 0, cap)
  <2>1. None # "manager"
    BY DEF NoneIsNoAnswer
  <2>2. ManagersMayExport("manager")
    BY DEF ManagersMayExport
  <2>3. file = [status |-> 200, rows |-> page.rows, truncated |-> page.totalCount > cap]
    BY <2>1, <2>2, Zenon DEF ExportAuditLog
  <2>4. ~(0 < 0)
    OBVIOUS
  <2>5. page.rows = PageOf(kept, 0, cap) /\ page.totalCount = total
    BY <2>4 DEF LoadAuditLogPage, PageOf
  <2> HIDE DEF file, page, kept, total
  <2>6. file.rows = page.rows
    BY <2>3
  <2>7. file.truncated = (page.totalCount > cap)
    BY <2>3
  <2> QED BY <2>5, <2>6, <2>7
<1>4. ASSUME NEW p \in Nat, p <= MAX_PAGE
      PROVE  View(p).rows = PageOf(kept, p, pageSize) /\ (View(p).hasNext <=> p + 1 < Max({1, pages}))
  <2> DEFINE page == LoadAuditLogPage(log, hashes, matching, p, pageSize)
  <2>1. PageParam(p) = p
    BY <1>4 DEF PageParam, MAX_PAGE
  <2>2. ~(p < 0)
    OBVIOUS
  <2>3. page.rows = PageOf(kept, p, pageSize) /\ page.totalCount = total /\ page.page = p
    BY <2>2 DEF LoadAuditLogPage, PageOf
  <2>4. /\ View(p).rows = page.rows
        /\ View(p).hasNext = (page.page + 1 < Max({1, (page.totalCount + pageSize - 1) \div pageSize}))
    BY <2>1 DEF AuditLogPage
  <2> HIDE DEF page, kept, total
  <2> QED BY <2>3, <2>4
<1>5. /\ pages \in Nat /\ \A p \in 1 .. pages : (p - 1) * pageSize < L
      /\ Max({1, pages}) = IF 1 >= pages THEN 1 ELSE pages
  <2>1. pages = (L + pageSize - 1) \div pageSize
    <3> HIDE DEF L, total
    <3> QED BY <1>2
  <2> HIDE DEF L, pages
  <2>2. pages \in Nat /\ \A p \in 1 .. pages : (p - 1) * pageSize < L
    BY <1>1, <2>1, Pages
  <2> QED BY <2>2, GreatestOf
<1> HIDE DEF file, View, total, pages, kept
<1>6. /\ Len(file.rows) = Min({cap, total}) /\ (file.truncated <=> Len(file.rows) < total)
      /\ Len(file.rows) \in Nat /\ Len(file.rows) <= L /\ Len(file.rows) <= cap
  <2>1. Len(PageOf(kept, 0, cap)) = IF cap <= Len(kept) THEN cap ELSE Len(kept)
    BY <1>1, LogPages
  <2>2. Min({cap, total}) = IF cap <= total THEN cap ELSE total
    BY <1>1, <1>2, LeastAmong
  <2> HIDE DEF L
  <2>3. Len(file.rows) = IF cap <= L THEN cap ELSE L
    BY <1>3, <2>1 DEF L
  <2> QED BY <1>1, <1>2, <1>3, <2>2, <2>3
<1>7. ASSUME NEW i \in 1 .. Len(file.rows)
      PROVE  /\ file.rows[i] = View((i - 1) \div pageSize).rows[((i - 1) % pageSize) + 1]
             /\ file.rows[i].email \in hashes
  <2> DEFINE a == i - 1  q == a \div pageSize  j == (a % pageSize) + 1
  <2>1. a \in Nat /\ i \in 1 .. cap /\ i <= L /\ i \in Int /\ i = a + 1 /\ a < cap
    BY <1>1, <1>6
  <2>2. file.rows[i] = kept[i]
    <3>1. 0 * cap + i = i
      BY <2>1
    <3> QED BY <1>1, <1>3, <2>1, <3>1, LogPages
  <2> HIDE DEF a
  <2>3. /\ q \in Nat /\ a % pageSize \in 0 .. (pageSize - 1) /\ a = q * pageSize + (a % pageSize)
        /\ \A m \in Nat : a < m * pageSize => q < m
    BY <2>1, Remainders
  <2>4. q <= MAX_PAGE
    <3> DEFINE m == MAX_PAGE + 1  top == m * pageSize
    <3>1. m \in Nat /\ MAX_PAGE \in Nat
      BY DEF MAX_PAGE
    <3>2. top \in Nat /\ cap <= top
      BY <3>1
    <3>3. a < top
      <4> HIDE DEF top
      <4> QED BY <2>1, <3>2
    <3>4. q < m
      <4> HIDE DEF m, q
      <4> QED BY <2>3, <3>1, <3>3 DEF top
    <3> HIDE DEF q
    <3> QED BY <2>3, <3>1, <3>4
  <2>5. j \in 1 .. pageSize /\ q * pageSize + j = i
    <3> DEFINE b == a % pageSize  c == q * pageSize
    <3>1. b \in 0 .. (pageSize - 1) /\ c \in Int /\ a = c + b
      BY <2>3
    <3> HIDE DEF b, c, q
    <3>2. b + 1 \in 1 .. pageSize /\ c + (b + 1) = i
      BY <2>1, <3>1
    <3> QED BY <3>2 DEF b, c
  <2> HIDE DEF q, j
  <2>6. View(q).rows[j] = kept[i]
    <3>1. PageOf(kept, q, pageSize)[j] = kept[q * pageSize + j]
      BY <1>1, <2>1, <2>3, <2>5, LogPages
    <3> QED BY <1>4, <2>3, <2>4, <2>5, <3>1
  <2>7. file.rows[i].email \in hashes
    <3>1. kept[i] \in Passing(hashes, matching)
      BY <1>1, <2>1
    <3> QED BY <2>2, <3>1 DEF Passing
  <2> QED BY <2>2, <2>6, <2>7 DEF a, q, j
<1>8. ASSUME NEW p \in Nat, View(p).hasNext PROVE View(p + 1).rows # <<>>
  <2> DEFINE from == PageParam(p)
  <2>1. /\ from = (IF p <= MAX_PAGE THEN p ELSE 0) /\ PageParam(p + 1) = (IF p + 1 <= MAX_PAGE THEN p + 1 ELSE 0)
        /\ MAX_PAGE \in Nat
    BY PageParams
  <2>2. \A a : \A b : PageParam(a) = PageParam(b) => View(a) = View(b)
    BY DEF View, AuditLogPage
  <2>3. from \in Nat /\ from <= MAX_PAGE /\ PageParam(from) = from
    BY <2>1 DEF PageParam
  <2> HIDE DEF from
  <2>4. from + 1 < pages
    <3>1. PageParam(from) = PageParam(p)
      BY <2>3 DEF from
    <3>2. View(from) = View(p)
      BY <2>2, <3>1
    <3>3. from + 1 < Max({1, pages})
      BY <1>4, <1>8, <2>3, <3>2
    <3> QED BY <1>5, <2>3, <3>3
  <2> DEFINE to == IF p + 1 <= MAX_PAGE THEN p + 1 ELSE 0
  <2>5. to \in Nat /\ to <= MAX_PAGE /\ to + 1 \in 1 .. pages /\ (to + 1) - 1 = to
    BY <1>5, <2>1, <2>3, <2>4
  <2>6. View(p + 1) = View(to)
    <3>1. PageParam(to) = PageParam(p + 1)
      BY <2>1, <2>5 DEF PageParam
    <3> QED BY <2>2, <3>1
  <2> HIDE DEF to
  <2>7. to * pageSize < Len(kept)
    BY <1>5, <2>5
  <2>8. PageOf(kept, to, pageSize) # <<>>
    BY <1>1, <2>5, <2>7, LogPages
  <2> QED BY <1>4, <2>5, <2>6, <2>8
<1>9. View(None) = View(0)
  <2>1. PageParam(None) = 0
    BY PageParams
  <2>2. PageParam(0) = 0
    BY DEF PageParam
  <2> QED BY <2>1, <2>2 DEF View, AuditLogPage
<1>10. LoadAuditLogPage(log, hashes, matching, 0, pageSize).totalCount = total
  <2>1. ~(0 < 0)
    OBVIOUS
  <2> QED BY <2>1 DEF LoadAuditLogPage, total, kept
<1>11. 0 .. Len(log) \subseteq Nat
  OBVIOUS
<1> QED BY <1>6, <1>7, <1>8, <1>9, <1>10, <1>11 DEF ExportsMatchPages, file, View

-----------------------------------------------------------------------------
(* All of them together.                                                    *)

(* All that the views of spend show of a snapshot fits together.            *)
THEOREM SpendAlwaysAgrees ==
  ASSUME NEW db, SnapshotFits(db), \A t \in db.teams : NothingCutOff(db, t.id),
         NEW Rows, NEW audit \in Seq(Rows), NoneIsNoAnswer
  PROVE  SpendAgrees(db, audit)
<1>1. ASSUME NEW o \in {t.org : t \in db.teams} PROVE OverviewAddsUp(db, o) /\ LentRatesUsable(db, o)
  BY OverviewAlwaysAddsUp, LentRatesAlwaysUsable
<1>2. ASSUME NEW t \in db.teams, NEW o \in {x.org : x \in db.teams}
      PROVE  TeamPageMatchesOverview(db, t.id, o) /\ FiltersPartition(db, t.id, o)
  BY TeamPagesAlwaysMatch, FiltersAlwaysPartition
<1>3. ASSUME NEW u \in db.users PROVE DrilldownMatchesSelf(db, u.id, u.org)
  BY DrilldownsAlwaysMatch
<1>4. ASSUME NEW n \in 1 .. 2 PROVE PagesCoverAudit(audit, n)
  <2>1. n \in Nat \ {0}
    OBVIOUS
  <2> QED BY <2>1, PagesAlwaysCoverAudit
<1> QED BY <1>1, <1>2, <1>3, <1>4 DEF SpendAgrees

(* All that managers are shown of their teams fits together.                *)
THEOREM TeamsAlwaysAgree ==
  ASSUME NEW db, SnapshotFits(db), NEW order, \A t \in db.teams : order[t.id] \in Int, NoneIsNoAnswer
  PROVE  TeamsAgree(db, order)
<1>1. ASSUME NEW o
      PROVE  /\ TeamsAddUp(db, o) /\ RadarRanksAsPages(db, o)
             /\ OutcomesAddUp(db, o) /\ SharingMatchesRadar(db, o, order)
             /\ \A manager : AlertsRespectDismissals(db, manager, o)
             /\ \A team, guard, role1 : RostersStayInside(db, team, o, guard, role1)
  <2>1. SharingMatchesRadar(db, o, order)
    BY SharingAlwaysMatchesRadar
  <2>2. \A manager : AlertsRespectDismissals(db, manager, o)
    BY AlertsAlwaysRespectDismissals
  <2>3. \A team, guard, role1 : RostersStayInside(db, team, o, guard, role1)
    BY RostersAlwaysStayInside
  <2> QED BY <2>1, <2>2, <2>3, TeamsAlwaysAddUp, RadarsAlwaysRankAsPages, OutcomesAlwaysAddUp
<1> QED BY <1>1 DEF TeamsAgree
=============================================================================
