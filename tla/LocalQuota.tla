------------------------------ MODULE LocalQuota ------------------------------
(***************************************************************************)
(* The quota of the plan (lib/queries/quota.ts, lib/quota/actions.core.ts, *)
(* app/quota/page.tsx and its components), the search of the transcripts   *)
(* (lib/search/*.ts, app/search/page.tsx) and the text of a session that is *)
(* shared (lib/share/session-markdown.ts).                                 *)
(*                                                                         *)
(* The database of the quota is [now, turns, settings]: a turn has its n,  *)
(* at, in hours, and its tokens; a setting that is not given is None.      *)
(***************************************************************************)
EXTENDS CostCalibration, SequencesExt

WINDOW_5H == 5
WINDOW_7D == 7 * 24
WINDOW_28D == 28 * 24
DayOf(t) == t \div 24

-----------------------------------------------------------------------------
(* Settings: an action keeps what it is not about, as the row has it at the    *)
(* time; a card posts both limits, the other one as its page was rendered.  The *)
(* limits of sessions are always erased and left out here.                   *)

NoSettings == [limit5h |-> None, limit7d |-> None, reset5h |-> None, reset7d |-> None]
TokenField(x) == x = None \/ x \in 1 .. 1000000000
ExecuteQuotaSettingsUpdate(settings, limit5h, limit7d) ==
  IF TokenField(limit5h) /\ TokenField(limit7d)
    THEN [settings EXCEPT !.limit5h = limit5h, !.limit7d = limit7d] ELSE settings
ExecuteQuota5hResetCalibrationUpdate(settings, at) == [settings EXCEPT !.reset5h = at]
ExecuteQuota7dResetCalibrationUpdate(settings, at) == [settings EXCEPT !.reset7d = at]
SaveThreshold(settings, rendered, window, value) ==
  IF window = "5h" THEN ExecuteQuotaSettingsUpdate(settings, value, rendered.limit7d)
                   ELSE ExecuteQuotaSettingsUpdate(settings, rendered.limit5h, value)
SaveCalibration(settings, window, at) ==
  IF window = "5h" THEN ExecuteQuota5hResetCalibrationUpdate(settings, at)
                   ELSE ExecuteQuota7dResetCalibrationUpdate(settings, at)

-----------------------------------------------------------------------------
(* Resets.  A calibrated one is moved on by its window until it is ahead.      *)

TurnsSince(db, t) == {x \in db.turns : x.at >= t}
Times7d(db) == {x.at : x \in TurnsSince(db, db.now - WINDOW_7D)}
NextReset(at, window, now) == IF at > now THEN at ELSE at + window * ((now - at) \div window + 1)
SessionAnchor(times) ==
  Max({t \in times : ~\E u \in times : u < t /\ t - u <= WINDOW_5H})
NextBoundary(anchor, now) ==
  LET candidate == anchor + WINDOW_5H * (Max({0, (now - anchor) \div WINDOW_5H}) + 1)
  IN IF candidate > now THEN candidate ELSE None
EstimateFrom(times, now) ==
  IF times = {} \/ now - Max(times \cup {0}) > WINDOW_5H THEN None
  ELSE NextBoundary(SessionAnchor(times), now)
Estimate5h(db) == EstimateFrom(Times7d(db), db.now)
Estimate7d(db) == IF Times7d(db) = {} THEN None ELSE Min(Times7d(db)) + WINDOW_7D
GetQuotaResetEstimates(db, reset5h, reset7d) ==
  [reset5h |-> IF reset5h # None THEN NextReset(reset5h, WINDOW_5H, db.now) ELSE Estimate5h(db),
   reset7d |-> IF reset7d # None THEN NextReset(reset7d, WINDOW_7D, db.now) ELSE Estimate7d(db)]

GetQuotaUsage(db, start5h, start7d) ==
  LET Tokens(start, window) ==
        Total(TurnsSince(db, IF start = None THEN db.now - window ELSE start), LAMBDA x : x.tokens)
  IN [tokens5h |-> Tokens(start5h, WINDOW_5H), tokens7d |-> Tokens(start7d, WINDOW_7D)]
GetQuotaHeatmap(db) ==
  LET rows == TurnsSince(db, db.now - WINDOW_28D)
      In(dow, hour) == Total({x \in rows : DayOf(x.at) % 7 = dow /\ x.at % 24 = hour},
                             LAMBDA x : x.tokens)
  IN {c \in {[dow |-> DayOf(x.at) % 7, hour |-> x.at % 24,
              tokens |-> In(DayOf(x.at) % 7, x.at % 24)] : x \in rows} : c.tokens > 0}
GetDailyTokenSums(db, days) ==
  LET rows == TurnsSince(db, db.now - 24 * days)
      On(d) == Total({x \in rows : DayOf(x.at) = d}, LAMBDA x : x.tokens)
  IN [d \in {e \in {DayOf(x.at) : x \in rows} : On(e) > 0} |-> On(d)]

(* The card of a window and the bar of the layout. *)
CycleUntil(db, r) ==
  LET Start(reset, window) == IF reset = None THEN None ELSE reset - window
  IN [resets |-> r,
      usage |-> GetQuotaUsage(db, Start(r.reset5h, WINDOW_5H), Start(r.reset7d, WINDOW_7D))]
CurrentCycle(db) ==
  CycleUntil(db, GetQuotaResetEstimates(db, db.settings.reset5h, db.settings.reset7d))
ResetLine(reset, limit) ==
  CASE reset # None -> "reset" [] reset = None /\ limit # None -> "idle" [] OTHER -> None
CardsOf(c, settings) ==
  LET Card(used, limit, reset) == [used |-> used, limit |-> limit, reset |-> reset,
                                   line |-> ResetLine(reset, limit)]
  IN [card5h |-> Card(c.usage.tokens5h, settings.limit5h, c.resets.reset5h),
      card7d |-> Card(c.usage.tokens7d, settings.limit7d, c.resets.reset7d)]
QuotaPage(db) == CardsOf(CurrentCycle(db), db.settings)
BarsOf(c, settings) ==
  LET Bar(window, used, limit) ==
        IF limit = None THEN {} ELSE {[window |-> window, used |-> used, limit |-> limit]}
  IN Bar("5h", c.usage.tokens5h, settings.limit5h) \cup Bar("7d", c.usage.tokens7d, settings.limit7d)
QuotaNavWidget(db) == BarsOf(CurrentCycle(db), db.settings)
(* Thousandths. *)
QuotaPct(used, limit) == IF limit > 0 THEN (1000 * used) \div limit ELSE 0
QuotaBand(pct) == CASE pct < 700 -> "green" [] pct \in 700 .. 899 -> "amber" [] OTHER -> "red"
ComputeFillPct(pct) == Min({1000, Max({0, pct})})

(* The statistics and the bars of four weeks, of the days before today. *)
DaysAgo(day, now) == DayOf(now) - day
DeriveStats(heatmap, daily, now) ==
  LET days == {d \in DOMAIN daily : DaysAgo(d, now) \in 0 .. 27}
      OfWeek(dow) == Total({c \in heatmap : c.dow = dow}, LAMBDA c : c.tokens)
  IN [total28d |-> Total(days, LAMBDA d : daily[d]), activeDays |-> Cardinality(days),
      topDays |-> FirstRows({[dow |-> c.dow, tokens |-> OfWeek(c.dow)] : c \in heatmap}, 3,
                            LAMBDA r : r.tokens),
      topPeaks |-> FirstRows(heatmap, 3, LAMBDA c : c.tokens)]
BucketDailyIntoWeeks(daily, now) ==
  [b \in 0 .. 3 |->
     Total({d \in DOMAIN daily : DaysAgo(d, now) >= 0 /\ 3 - (DaysAgo(d, now) \div 7) = b},
           LAMBDA d : daily[d])]
(* The colour of a cell of the heatmap, by the quartiles of those that have any. *)
CellLevel(cells, cell) ==
  LET n == Cardinality(cells)
      Rank(v) == Cardinality({c \in cells : c.tokens <= v})
      Quartile(k) == Min({c.tokens : c \in {x \in cells : Rank(x.tokens) > (n * k) \div 4}})
  IN IF cell.tokens = 0 THEN 0
     ELSE 1 + Cardinality({k \in 1 .. 3 : cell.tokens >= Quartile(k)})

-----------------------------------------------------------------------------
(* Search.  A raw query has a length and its terms; a turn has words and the    *)
(* start of its session, in days.                                           *)

SanitizeFtsQuery(raw) == IF raw.length \in 2 .. 200 /\ raw.terms # {} THEN raw.terms ELSE None
NormalizeLimit(limit) == IF limit = None THEN 25 ELSE Max({1, Min({100, limit})})
NormalizeOffset(offset) == IF offset = None THEN 0 ELSE Max({0, offset})
(* trg_turns_ai, trg_turns_ad, trg_turns_au: the index is a set of rows. *)
IndexAfter(index, old, new) == (index \ old) \cup new
SearchTurns(index, today, raw, days, limit, offset) ==
  LET terms == SanitizeFtsQuery(raw)
      hits == {t \in index : terms \subseteq t.words
                               /\ (days \notin {None, 0} => t.startedOn >= today - days)}
      Better(t) == {u \in hits : u.rank < t.rank \/ (u.rank = t.rank /\ u.n < t.n)}
      from == NormalizeOffset(offset)
  IN IF terms = None THEN [items |-> {}, total |-> 0]
     ELSE [items |-> {t \in hits : Cardinality(Better(t)) \in from .. (from + NormalizeLimit(limit) - 1)},
           total |-> Cardinality(hits)]
(* Parameters are taken together or not at all. *)
SearchPage(index, today, raw, days, offset, pageSize) ==
  LET Within(x, lo, hi) == x = None \/ x \in lo .. hi
      parsed == raw.length \in 1 .. 200 /\ Within(days, 0, 3650) /\ (offset = None \/ offset >= 0)
  IN [results |-> IF parsed THEN SearchTurns(index, today, raw, days, pageSize, offset)
                            ELSE [items |-> {}, total |-> 0],
      overflow |-> ~parsed /\ raw.length > 200]

-----------------------------------------------------------------------------
(* session-markdown.ts: a document is a sequence of what its parts say.  A text *)
(* is a model value, "" none at all and "redacted" what stands for one.      *)

Shown(text, redact) == IF redact THEN "redacted" ELSE text
RenderToolCall(c, redact) ==
  [part |-> "tool", name |-> c.name, error |-> c.error, input |-> Shown(c.input, redact),
   result |-> IF c.result = None THEN None ELSE Shown(c.result, redact)]
RenderRating(r, redact) ==
  [part |-> "rating", value |-> r.value,
   note |-> IF r.note \in {None, ""} THEN None ELSE Shown(r.note, redact)]
RenderTurn(t, redact) ==
  LET Text(part, text) ==
        IF text \in {None, ""} THEN <<>> ELSE <<[part |-> part, text |-> Shown(text, redact)]>>
      blocks == Text("prompt", t.prompt) \o Text("answer", t.answer)
                  \o [i \in DOMAIN t.calls |-> RenderToolCall(t.calls[i], redact)]
                  \o (IF t.rating = None THEN <<>> ELSE <<RenderRating(t.rating, redact)>>)
  IN <<[part |-> "turn", model |-> t.model]>>
       \o (IF blocks = <<>> THEN <<[part |-> "empty"]>> ELSE blocks)
RenderOtel(otel) ==
  IF ~otel.hasData THEN <<>>
  ELSE <<[part |-> "otel", accepts |-> otel.acceptRate, active |-> otel.activeSeconds > 0]>>
RenderSubagents(breakdown) ==
  LET Before(r, s) == r.cost > s.cost \/ (r.cost = s.cost /\ r.n < s.n)
      Place(r) == Cardinality({s \in breakdown : Before(s, r)}) + 1
  IN [i \in 1 .. Cardinality(breakdown) |->
        LET row == CHOOSE r \in breakdown : Place(r) = i
        IN [part |-> "agent", type |-> row.type, cost |-> row.cost]]
RenderSessionMarkdown(input, redact) ==
  <<[part |-> "session", project |-> input.project, source |-> input.source]>>
    \o RenderOtel(input.otel) \o RenderSubagents(input.breakdown)
    \o FlattenSeq([i \in DOMAIN input.turns |-> RenderTurn(input.turns[i], redact)])

-----------------------------------------------------------------------------
(* What they are given: turns that have been, limits and resets that may be set.  *)
QuotaDb == [now : Nat, turns : SUBSET [n : Nat, at : Nat, tokens : Nat],
            settings : [limit5h : {None} \cup (Nat \ {0}), limit7d : {None} \cup (Nat \ {0}),
                        reset5h : {None} \cup Nat, reset7d : {None} \cup Nat]]
QuotaFits(db) ==
  db \in QuotaDb /\ IsFiniteSet(db.turns) /\ \A x \in db.turns : x.at <= db.now
(* Turns have an n of their own, before and after the write; the days of the     *)
(* window are what the page takes.                                          *)
SearchFits(index, raw, days, old, new) ==
  /\ IsFiniteSet(index) /\ IsFiniteSet(new) /\ old \subseteq index
  /\ \A t \in index \cup new : t.n \in Int /\ t.rank \in Int /\ t.startedOn \in Int
  /\ \A t, u \in index : t.n = u.n => t = u
  /\ \A t, u \in IndexAfter(index, old, new) : t.n = u.n => t = u
  /\ raw.length \in Nat /\ raw.terms # None /\ days \in 0 .. 3650
(* The turns of a session and their calls are lists, and a call has an input.     *)
ShareFits(doc) ==
  /\ IsFiniteSet(doc.breakdown) /\ Len(doc.turns) \in Nat /\ DOMAIN doc.turns = 1 .. Len(doc.turns)
  /\ \A i \in DOMAIN doc.turns :
       /\ Len(doc.turns[i].calls) \in Nat
       /\ DOMAIN doc.turns[i].calls = 1 .. Len(doc.turns[i].calls)
       /\ \A j \in DOMAIN doc.turns[i].calls : doc.turns[i].calls[j].input # None

-----------------------------------------------------------------------------
(* How they fit together.                                                   *)

(* The blocks the comment of quota.ts:286 describes: one begins with the first   *)
(* turn after the one before it is over.                                     *)
BlockStarts(times) ==
  CHOOSE B \in SUBSET times :
    B = {t \in times : ~\E b \in B : b < t /\ t < b + WINDOW_5H}

(* A reset is ahead, unless the oldest turn of the week is leaving it now.  While *)
(* a block runs there is an estimate, less than a block away from its end, and    *)
(* right when a pause came before it; one that is not calibrated is at most a    *)
(* window ahead.                                                             *)
ResetsAreAhead(db) ==
  LET cal == db.settings
      Ahead(r, times) ==
        /\ r.card5h.reset # None => r.card5h.reset > db.now
        /\ r.card7d.reset # None =>
             r.card7d.reset > db.now - (IF cal.reset7d = None THEN 1 ELSE 0)
        /\ cal.reset5h = None =>
             /\ r.card5h.reset # None => r.card5h.reset <= db.now + WINDOW_5H
             /\ \A b \in {b \in BlockStarts(times) : b <= db.now /\ db.now < b + WINDOW_5H} :
                  /\ r.card5h.reset # None
                  /\ r.card5h.reset - (b + WINDOW_5H) \in 1 - WINDOW_5H .. WINDOW_5H - 1
                  /\ (~\E t \in times : t < b /\ b - t <= WINDOW_5H)
                       => r.card5h.reset = b + WINDOW_5H
        /\ cal.reset7d = None /\ r.card7d.reset # None => r.card7d.reset <= db.now + WINDOW_7D
  IN Ahead(QuotaPage(db), Times7d(db))

(* What a card says is used is what its cycle holds: nothing, when the reset that *)
(* was entered is more than a window ahead of the turns there are.            *)
UsageIsOfCycle(db) ==
  LET late == db.settings.reset5h # None /\ db.settings.reset5h - WINDOW_5H > db.now
      Within(reset, window) == Total({x \in db.turns : reset - x.at <= window}, LAMBDA x : x.tokens)
      BarMatches(bar, card) ==
        /\ bar.used = card.used /\ bar.limit = card.limit
        /\ (QuotaBand(QuotaPct(bar.used, bar.limit)) = "red") = (10 * bar.used >= 9 * bar.limit)
        /\ ComputeFillPct(QuotaPct(bar.used, bar.limit)) \in 0 .. 1000
      OfCycle(r) ==
        /\ late => r.card5h.used = 0
        /\ r.card5h.reset # None => r.card5h.used = Within(r.card5h.reset, WINDOW_5H)
        /\ r.card7d.reset # None => r.card7d.used = Within(r.card7d.reset, WINDOW_7D)
        /\ r.card5h.reset = None /\ db.settings.limit5h # None => r.card5h.line = "idle"
        /\ \A bar \in QuotaNavWidget(db) :
             BarMatches(bar, IF bar.window = "5h" THEN r.card5h ELSE r.card7d)
  IN OfCycle(QuotaPage(db))

(* The bars of the weeks and the statistics hold the same days; the heatmap also *)
(* the rest of the day four weeks ago.                                       *)
WeeksAddUp(db) ==
  LET heat == GetQuotaHeatmap(db)
      daily == GetDailyTokenSums(db, 28)
      stats == DeriveStats(heat, daily, db.now)
      cut == Total({x \in TurnsSince(db, db.now - WINDOW_28D) : DaysAgo(DayOf(x.at), db.now) = 28},
                   LAMBDA x : x.tokens)
  IN /\ SumOver(BucketDailyIntoWeeks(daily, db.now)) = stats.total28d
     /\ Total(heat, LAMBDA c : c.tokens) = stats.total28d + cut
     /\ \A c \in heat, other \in heat :
          c.tokens >= other.tokens => CellLevel(heat, c) >= CellLevel(heat, other)

(* Whatever two tabs save one after the other, a calibration that was saved       *)
(* stays, and so does a limit that the second tab had seen.                   *)
SavesKeepTheRest(settings, rendered, window, value, at) ==
  LET saved == SaveThreshold(settings, rendered, window, value)
      other == IF window = "5h" THEN "7d" ELSE "5h"
      both == SaveCalibration(SaveCalibration(saved, window, at), other, at)
  IN /\ saved.reset5h = settings.reset5h /\ saved.reset7d = settings.reset7d
     /\ both.reset5h = at /\ both.reset7d = at
     /\ both.limit5h = saved.limit5h /\ both.limit7d = saved.limit7d
     /\ rendered = settings /\ TokenField(value) =>
          IF window = "5h" THEN saved.limit7d = settings.limit7d ELSE saved.limit5h = settings.limit5h

(* The pages of a search hold every hit once, and no other turn; a turn that is     *)
(* written over is found by its new words alone.                             *)
SearchFindsAll(index, today, raw, days, old, new) ==
  LET after == IndexAfter(index, old, new)
      Page(k) == SearchPage(after, today, raw, days, 2 * k, 2).results
      n == Page(0).total
      Recent(t) == days = 0 \/ t.startedOn >= today - days
      all == UNION {Page(k).items : k \in 0 .. n}
  IN IF raw.length \in 2 .. 200 /\ raw.terms # {}
       THEN /\ \A t \in all : t.n \in {o.n : o \in old} => t \in new
            /\ all = {t \in after : raw.terms \subseteq t.words /\ Recent(t)}
            /\ Total(0 .. n, LAMBDA k : Cardinality(Page(k).items)) = n
       ELSE n = 0 /\ all = {}

(* A redacted text has the parts of the whole one, and none of the texts.         *)
RedactionHides(input) ==
  LET whole == RenderSessionMarkdown(input, FALSE)
      cut == RenderSessionMarkdown(input, TRUE)
      TextFields == {"text", "input", "result", "note"}
      Hidden(v) == v \in {None, "redacted"}
  IN /\ DOMAIN cut = DOMAIN whole
     /\ \A i \in DOMAIN whole :
          /\ DOMAIN cut[i] = DOMAIN whole[i]
          /\ \A k \in DOMAIN cut[i] \cap TextFields : Hidden(cut[i][k])
          /\ \A k \in DOMAIN cut[i] \cap TextFields : (cut[i][k] = None) = (whole[i][k] = None)
          /\ \A k \in DOMAIN cut[i] \ TextFields : cut[i][k] = whole[i][k]
=============================================================================
