------------------------------- MODULE MCLocal -------------------------------
(***************************************************************************)
(* The local side: the ingestion of transcripts, the outcome sweep, the     *)
(* life of the watcher, and what the dashboard shows.  The four do not share *)
(* the variables a property is about, so that a behaviour has one focus: the *)
(* steps of one of them, or one input the views are given (a view is a      *)
(* function of a snapshot).                                                 *)
(***************************************************************************)
EXTENDS LocalIngest, GitOutcomes, WatcherLife, LocalEffort, LocalQuota, TLC

CONSTANTS f1, f2, s1, s2, server, cli, page1, ingest1, watch1, h1, h2, sha1, sha2

OneSession == [f \in Files |-> s1]
TwoSessions == (f1 :> s1) @@ (f2 :> s2)
Placement == [c \in Calls |-> IF c \in Pages THEN server ELSE cli]
TwoAndOne == (f1 :> 2) @@ (f2 :> 1)

Reverted == (sha1 :> None) @@ (sha2 :> sha1)
Pulls == (sha1 :> {1, 2}) @@ (sha2 :> {})
WatchMode == [watch |-> TRUE, disabled |-> FALSE]

VARIABLES focus, input
CONSTANT Focuses
NoInput == [kind |-> "none"]

-----------------------------------------------------------------------------
(* Sessions with the turns of their own; instants are half days.            *)

Now == 2 * 60 + 1
Call(n, tool, path, error, type) ==
  [n |-> n, tool |-> tool, path |-> path, error |-> error, type |-> type]
Turn(prompt, model, cost, rating, called) ==
  [prompt |-> prompt, model |-> model, cost |-> cost, tokens |-> 10 * cost + 1,
   subagent |-> ExtractSubagentType(called), rating |-> rating, calls |-> called]
Row(id, ago, otel, turns, read) ==
  LET Sum(Field(_)) == Total(DOMAIN turns, LAMBDA i : Field(turns[i]))
  IN [id |-> id, startedAt |-> Now - ago, cost |-> Sum(LAMBDA t : t.cost), otelCost |-> otel,
      model |-> DominantModel([turns |-> turns]), turnCount |-> Len(turns),
      input |-> 10 * Len(turns), output |-> Sum(LAMBDA t : t.tokens), cacheRead |-> read,
      cacheCreation |-> IF turns = <<>> THEN 0 ELSE 4, turns |-> turns, compactions |-> id % 2]
EditCall(n) == Call(n, "Edit", "a", FALSE, None)
ReadCall(n, path) == Call(n, "Read", path, FALSE, None)
Failing(n) == Call(n, "Bash", None, TRUE, None)
Agent(n, type) == Call(n, "Agent", None, FALSE, type)
Sessions1 ==
  {Row(1, 0, None, <<Turn("plain", "opus", 4, 1, <<ReadCall(1, "a"), ReadCall(2, "a")>>),
                     Turn("strong", "haiku", 2, None, <<EditCall(3), Agent(4, None), Agent(5, "x")>>)>>, 30),
   Row(2, 1, 3, <<Turn("plain", "opus", 5, -1, <<Failing(6), EditCall(7), Failing(8), Failing(9),
                                              ReadCall(10, "b"), Failing(11)>>)>>, 0),
   Row(3, 15, 0, <<Turn("plain", "opus", 6, None, <<EditCall(12), ReadCall(13, "a")>>),
                   Turn("mild", "opus", 1, 0, <<>>)>>, 10),
   Row(4, 59, None, <<Turn("none", "gpt", 0, 1, <<Agent(14, "y"), Failing(15)>>)>>, 10),
   Row(5, 60, 9, <<Turn("plain", "sonnet", 3, 1, <<Failing(16), Failing(17), Failing(18), Failing(19),
                                                 Failing(20), EditCall(21)>>)>>, 5),
   Row(6, 61, 2, <<Turn("plain", "opus", 2, 0, <<>>)>>, 20),
   Row(7, 14, None, <<>>, 5)}
Sample(metric, id, label, value, at) ==
  [metric |-> metric, session |-> id, label |-> label, value |-> value, scrapedAt |-> at]
Scrapes1 ==
  {Sample("decision", 1, "accept", 3, Now), Sample("decision", 1, "accept", 5, Now + 1),
   Sample("decision", 1, "reject", 1, Now), Sample("decision", 3, "accept", 2, Now - 15),
   Sample("decision", 5, "accept", 4, Now - 60), Sample("decision", None, "reject", 2, Now - 1),
   Sample("lines", 1, "added", 7, Now), Sample("commits", 3, None, 2, Now - 15),
   Sample("cost", 2, "opus", 3, Now - 1)}
Outcome(id, commits, added, reverts) ==
  [session |-> id, commits |-> commits, added |-> added, reverts |-> reverts]
Outcomes1 == {Outcome(1, 2, 10, 1), Outcome(2, 0, 0, 0), Outcome(5, 1, 3, 0), Outcome(6, 1, 1, 1)}
Snapshot(sessions, scrapes, calibrated) ==
  [now |-> Now, sessions |-> sessions, scrapes |-> scrapes,
   calibration |-> IF calibrated THEN RecomputeCostCalibration(sessions) ELSE NoCalibration,
   outcomes |-> {o \in Outcomes1 : \E s \in sessions : s.id = o.session}]

SnapshotInputs ==
  {[kind |-> "snapshot", sessions |-> S, scrapes |-> Scrapes1, calibrated |-> c] :
     S \in SUBSET Sessions1, c \in BOOLEAN}
OtelInputs ==
  {[kind |-> "otel", sessions |-> Sessions1, scrapes |-> T, calibrated |-> FALSE] :
     T \in SUBSET Scrapes1}
PercentInputs ==
  {[kind |-> "percents", fractions |-> f, target |-> t] :
     f \in UNION {[1 .. n -> {0, 1, 2, 3, 7}] : n \in 0 .. 4}, t \in {100, 1000}}
LinkInputs ==
  {[kind |-> "links", total |-> n, pageSize |-> 25] : n \in {1, 25, 26, 60, 10000, 10025, 10026, 10060}}
UsageInputs ==
  [kind : {"usage"}, usage : [model : {"opus", "haiku", "gpt"}, input : {0, 3}, output : {1}, read : {0, 7},
     split : {None, [short |-> 5, long |-> 0], [short |-> 3, long |-> 2], [short |-> 0, long |-> 0]},
     legacy : {None, 0, 6}, tier : {"standard", "batch"}]]
ScoreInputs == [kind : {"score"}, signals : [Signals -> {None, 0, 500, 2500}]]
HeatInputs ==
  {[kind |-> "heat", points |-> [d \in a .. (a + n - 1) |-> IF d \in A THEN 1 + (d % 3) ELSE 0]] :
     a \in 0 .. 6, n \in {1, 2, 7, 8, 9}, A \in {{}, {0}, {6}, {7}, {6, 7, 12}, {1, 2, 3, 8}}}
FitInputs == [kind : {"fit"}, points : [1 .. 3 -> [x : 0 .. 2, y : 0 .. 2]] \cup
                                       [1 .. 2 -> [x : 0 .. 1, y : 0 .. 1]]]

-----------------------------------------------------------------------------
(* The quota: turns on both sides of the windows, some of them in one block.  *)

QuotaNow == 24 * 40 + 12
QuotaTurns ==
  LET Ago(n, hours) == [n |-> n, at |-> QuotaNow - hours, tokens |-> n]
  IN {Ago(1, 0), Ago(3, 3), Ago(5, 9), Ago(6, 168), Ago(7, 169), Ago(8, 672),
      Ago(9, 680)}
QuotaInputs ==
  {[kind |-> "quota",
    db |-> [now |-> QuotaNow, turns |-> T,
            settings |-> [limit5h |-> l, limit7d |-> 10, reset5h |-> a, reset7d |-> b]]] :
     T \in SUBSET QuotaTurns, l \in {None, 5},
     a \in {None, QuotaNow, QuotaNow - 9, QuotaNow + 7}, b \in {None, QuotaNow - 1}}
SettingsRows == [limit5h : {None, 5}, limit7d : {None, 7}, reset5h : {None, 1}, reset7d : {None, 2}]
SaveInputs ==
  [kind : {"save"}, settings : SettingsRows, rendered : SettingsRows, window : {"5h", "7d"},
   value : {None, 0, 9}, at : {None, 3}]
Indexed(n, words, ago, rank) == [n |-> n, words |-> words, startedOn |-> 100 - ago, rank |-> rank]
IndexRows == {Indexed(1, {"w"}, 0, 2), Indexed(2, {"w", "x"}, 3, 1), Indexed(3, {"x"}, 9, 1),
              Indexed(4, {"w"}, 9, 2), Indexed(5, {"w", "x"}, 0, 2)}
SearchInputs ==
  [kind : {"search"}, index : SUBSET IndexRows, days : {0, 7},
   raw : [length : {0, 1, 2, 200, 201}, terms : SUBSET {"w", "x"}]]
Texts == {None, "", s1}
ShareInputs ==
  {[kind |-> "share", doc |-> [project |-> f1, source |-> "list", breakdown |-> b,
      otel |-> [hasData |-> o, acceptRate |-> 5, activeSeconds |-> 0],
      turns |-> [i \in 1 .. n |-> [model |-> f2, prompt |-> p, answer |-> a, rating |-> r, calls |-> c]]]] :
     n \in 0 .. 2, p \in Texts, a \in Texts, o \in BOOLEAN,
     b \in {{}, {[n |-> 1, type |-> None, cost |-> 2], [n |-> 2, type |-> f1, cost |-> 5]}},
     r \in {None} \cup [value : {1}, note : Texts],
     c \in {<<>>} \cup [1 .. 1 -> [name : {f1}, error : BOOLEAN, input : {s2}, result : {None, s1}]]}

Inputs == SnapshotInputs \cup OtelInputs \cup PercentInputs \cup LinkInputs \cup UsageInputs
            \cup ScoreInputs \cup HeatInputs \cup FitInputs \cup QuotaInputs \cup SaveInputs
            \cup SearchInputs \cup ShareInputs

(* They are what the tables, the transcripts and the forms may hold.          *)
DatabaseFits(db) ==
  /\ LocalFits(db) /\ TurnsFit(db) /\ ScrapesFit(db) /\ OutcomeRowsFit(db)
  /\ RowsAreRecords(db) /\ FewTools(db) /\ Cardinality(db.sessions) + 2 <= MaxOffset
GivenOrNot == {None} \cup Nat
SettingsGiven ==
  [limit5h : GivenOrNot, limit7d : GivenOrNot, reset5h : GivenOrNot, reset7d : GivenOrNot]
Reworded(rows) == {[t EXCEPT !.words = {"x"}] : t \in rows}
InputFits(i) ==
  /\ i.kind \in {"snapshot", "otel"} => DatabaseFits(Snapshot(i.sessions, i.scrapes, i.calibrated))
  /\ i.kind = "percents" => i.fractions \in Seq(Nat) /\ i.target \in Nat
  /\ i.kind = "links" => i.total \in Nat \ {0} /\ i.pageSize \in Nat \ {0}
  /\ i.kind = "usage" => i.usage \in Usage
  /\ i.kind = "score" => SignalsFit(i.signals)
  /\ i.kind = "heat" => DaysFit(i.points)
  /\ i.kind = "fit" => PointsFit(i.points)
  /\ i.kind = "quota" => QuotaFits(i.db)
  /\ i.kind = "save" => /\ i.settings \in SettingsGiven /\ i.rendered \in SettingsGiven
                        /\ i.window \in {"5h", "7d"} /\ i.value \in GivenOrNot /\ i.at \in GivenOrNot
  /\ i.kind = "search" => \A old \in SUBSET {t \in i.index : t.n = 1} :
                            SearchFits(i.index, i.raw, i.days, old, Reworded(old))
  /\ i.kind = "share" => ShareFits(i.doc)
ASSUME InputsFit == \A i \in Inputs : InputFits(i)

-----------------------------------------------------------------------------
LocalInit ==
  /\ Init /\ GitInit /\ WatcherInit
  /\ focus \in Focuses /\ (focus = "watch" \/ rootExists)
  /\ input \in IF focus = "input" THEN Inputs ELSE {NoInput}

(* Calls of the ingestion are looked at two at a time; processes die and files *)
(* are skipped where one of the two is a watcher.  Sweeps: two processes with  *)
(* one session, and one process with two whose repository may be lost.       *)
Without(C) == \A c \in C : calls'[c] = Fresh
NoneFails == \A c \in Calls : ~calls'[c].failed /\ calls'[c].pc # "dead"
OneRaces == ends'[h2] = None /\ repo' = "ok"
OneSweeps == sweeps'[cli] = NoSweep

LocalNext ==
  /\ \/ focus = "pages" /\ Next /\ Without(Watches) /\ NoneFails /\ UNCHANGED <<gitVars, watcherVars>>
     \/ focus = "events" /\ Next /\ Without(Ingests) /\ UNCHANGED <<gitVars, watcherVars>>
     \/ focus = "backfill" /\ Next /\ Without(Pages) /\ UNCHANGED <<gitVars, watcherVars>>
     \/ focus = "race" /\ GitNext /\ OneRaces /\ UNCHANGED <<vars, watcherVars>>
     \/ focus = "sweep" /\ GitNext /\ OneSweeps /\ UNCHANGED <<vars, watcherVars>>
     \/ focus = "watch" /\ WatcherNext /\ UNCHANGED <<vars, gitVars>>
  /\ UNCHANGED <<focus, input>>
LocalSpec == LocalInit /\ [][LocalNext]_<<vars, gitVars, watcherVars, focus, input>>

OtelAgrees(db) == OtelAddsUp(db) /\ ChartCountsSamples(db)
SnapshotAgrees(db) ==
  /\ WindowsAddUp(db) /\ CostsAgree(db) /\ OutcomesAddUp(db) /\ AggregatesAreMeans(db)
  /\ QuartilesApart(db) /\ ChartsAddUp(db) /\ SharesAddUp(db) /\ TrendsAreRates(db)
  /\ \A date \in {None, LocalDay(Now), LocalDay(Now) - 30}, size \in 1 .. 2 :
       PagesCoverSessions(db, date, size)

(* The views of one snapshot tell the same story: windows and days, costs in     *)
(* lists and totals, pages and lists, shares and wholes, scores and quarters,   *)
(* what OTEL counted and what its charts show, limits, resets and what is used  *)
(* of them, a search and its pages, a text and its redacted form.             *)
LocalViewsAgree ==
  /\ input.kind \in {"snapshot", "otel"} =>
       OtelAgrees(Snapshot(input.sessions, input.scrapes, input.calibrated))
  /\ input.kind = "snapshot" =>
       SnapshotAgrees(Snapshot(input.sessions, input.scrapes, input.calibrated))
  /\ input.kind = "percents" => PercentsAddUp(input.fractions, input.target)
  /\ input.kind = "links" => LinksReachAll(input.total, input.pageSize)
  /\ input.kind = "usage" => RepairMatchesIngest(input.usage)
  /\ input.kind = "score" => ScoresAreSound(input.signals)
  /\ input.kind = "heat" => HeatmapCoversDays(input.points)
  /\ input.kind = "fit" => FitIsSound(input.points)
  /\ input.kind = "quota" =>
       ResetsAreAhead(input.db) /\ UsageIsOfCycle(input.db) /\ WeeksAddUp(input.db)
  /\ input.kind = "save" =>
       SavesKeepTheRest(input.settings, input.rendered, input.window, input.value, input.at)
  /\ input.kind = "search" =>
       \A old \in SUBSET {t \in input.index : t.n = 1} :
         SearchFindsAll(input.index, 100, input.raw, input.days, old, Reworded(old))
  /\ input.kind = "share" => RedactionHides(input.doc)
=============================================================================
