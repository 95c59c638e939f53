--------------------------- MODULE CostCalibration ---------------------------
(***************************************************************************)
(* What a session costs (packages/shared/src/analytics/cost-calibration.ts) *)
(* and the calibration a set of sessions gives: of a user on the central    *)
(* server (apps/server/lib/queries/calibration.ts), of everything in the    *)
(* local database (lib/queries/calibration.ts).  With it, what queries over *)
(* rows with a day startedOn have in common.                               *)
(*                                                                         *)
(* Costs of rows are whole cents; a view adds hundredths of a cent, to       *)
(* which a calibrated cost is truncated.                                    *)
(***************************************************************************)
EXTENDS Optional, Integers, FiniteSets, FiniteSetsExt

Since(rows, now, days) == {s \in rows : s.startedOn >= now - days}
SumOver(f) == MapThenSumSet(LAMBDA x : f[x], DOMAIN f)
Total(rows, Amount(_)) == SumOver([s \in rows |-> Amount(s)])
ByDay(rows, Amount(_)) ==
  [d \in {s.startedOn : s \in rows} |-> Total({s \in rows : s.startedOn = d}, Amount)]
(* n rows of the greatest rank; those of equal rank come in any order. *)
FirstRows(rows, n, Rank(_)) ==
  CHOOSE T \in SUBSET rows :
    /\ Cardinality(T) = Min({n, Cardinality(rows)})
    /\ \A r \in T, other \in rows \ T : Rank(r) >= Rank(other)

-----------------------------------------------------------------------------
(* cost-calibration.ts.  A calibration maps some of the families to what      *)
(* OTEL and the list prices say of the same sessions; its rate is the         *)
(* quotient, and counts between a hundredth and two.                         *)

CalibrationFamilies == {"opus", "sonnet", "haiku"}
FAMILY_KEYS == CalibrationFamilies \cup {"global"}
NoCalibration == [f \in {} |-> f]
IsRateInBounds(entry) ==
  entry.local > 0 /\ entry.local <= 100 * entry.otel /\ entry.otel <= 2 * entry.local

EffectiveCost(s, calibration) ==
  LET Rated(f) == f \in DOMAIN calibration /\ IsRateInBounds(calibration[f])
      At(f) == [value |-> (100 * s.cost * calibration[f].otel) \div calibration[f].local,
                source |-> "calibrated"]
      measured == s.otelCost # None /\ s.otelCost > 0
  IN CASE measured -> [value |-> 100 * s.otelCost, source |-> "otel"]
       [] ~measured /\ s.cost = 0 -> [value |-> 0, source |-> "list"]
       [] ~measured /\ s.cost # 0 /\ Rated(s.model) -> At(s.model)
       [] ~measured /\ s.cost # 0 /\ ~Rated(s.model) /\ Rated("global") -> At("global")
       [] OTHER -> [value |-> 100 * s.cost, source |-> "list"]

(* What an ingest leaves in cost_calibration_per_user for the user: a family  *)
(* without samples, or whose rate is out of bounds, has no row.              *)
SampleOf(sessions, f) ==
  {s \in sessions : s.otelCost # None /\ s.cost > 0 /\ f \in {"global", s.model}}
SampleEntry(sample) ==
  [otel |-> Total(sample, LAMBDA s : s.otelCost), local |-> Total(sample, LAMBDA s : s.cost)]

(* Mutant of RecomputePerUserCalibration: the rates' bounds are not tested. *)
RecomputeUnbounded(sessions) ==
  [f \in {g \in FAMILY_KEYS : SampleOf(sessions, g) # {}} |-> SampleEntry(SampleOf(sessions, f))]

RecomputePerUserCalibration(sessions) ==
  LET Kept(f) == SampleOf(sessions, f) # {} /\ IsRateInBounds(SampleEntry(SampleOf(sessions, f)))
  IN [f \in {g \in FAMILY_KEYS : Kept(g)} |-> SampleEntry(SampleOf(sessions, f))]

(* What the tables hold: costs of a row, and what an ingest leaves of the rates. *)
CostedRow(s) == s.cost \in Nat /\ s.otelCost \in Nat \cup {None}
RateEntries == [otel : Nat, local : Nat]
RatesFit(calibration) ==
  \A f \in DOMAIN calibration : calibration[f] \in RateEntries /\ IsRateInBounds(calibration[f])

ListPrice(s) == 100 * s.cost

(* A mean is [num, den]; rows without a value do not count. *)
MeanOf(rows, Value(_)) ==
  LET known == {s \in rows : Value(s) # None}
  IN IF known = {} THEN None
     ELSE [num |-> Total(known, Value), den |-> Cardinality(known)]
=============================================================================
