---------------------------- MODULE LocalIngest ----------------------------
(***************************************************************************)
(* Ingestion of the transcripts into the local SQLite database: ingestAll  *)
(* and ingestSingleFile (lib/ingest/writer.ts), the page-load gate         *)
(* (lib/ingest/auto.ts), the watcher's file events (lib/ingest/watcher.ts), *)
(* reconciliation (lib/ingest/reconcile.ts) and its run at every start     *)
(* (lib/db/migrate.ts).                                                    *)
(*                                                                         *)
(* A call runs in a process.  Between two awaits a process runs one call   *)
(* only, so the work on one file, and the loop over the files, is never    *)
(* interleaved within a process; processes interleave at every statement   *)
(* or transaction.  A transcript is the sequence of the times its turns    *)
(* were appended at, the last of which is its mtime.  OTEL scrapes, the    *)
(* calibration and the outcome sweep write other columns and tables and    *)
(* are left out.                                                           *)
(***************************************************************************)
EXTENDS Optional, Naturals, Sequences, FiniteSets

CONSTANTS
  Files, Sessions,
  SessionOf,      \* SessionOf[f]: the session whose turns f holds
  Procs,          \* the dashboard server, pnpm ingest, pnpm watch
  Pages,          \* page renders: ensureFreshIngest
  Ingests,        \* pnpm ingest, POST /api/ingest, the watcher's backfill
  Watches,        \* file events: handleFileEvent
  ProcOf,         \* ProcOf[c]: the process of a call
  Failures,       \* steps that may throw (SQLITE_BUSY, an unreadable file)
  Crashes,        \* processes that may die
  MaxLines,       \* MaxLines[f]: bound on the turns of a file
  MaxNow          \* bound on the clock

Calls == Pages \cup Ingests \cup Watches

ASSUME CallsAssumption ==
  /\ SessionOf \in [Files -> Sessions]
  /\ ProcOf \in [Calls -> Procs]
  /\ Pages \cap Ingests = {} /\ Pages \cap Watches = {} /\ Ingests \cap Watches = {}
  /\ Crashes \subseteq Procs
  /\ Failures \subseteq {"migrate", "parse", "write", "reconcile", "record"}
  /\ None \notin Files \cup Calls

ASSUME NumbersAssumption == MaxLines \in [Files -> Nat] /\ MaxNow \in Nat \ {0}

VARIABLES
  transcripts,   \* transcripts[f]: the times its turns were appended at
  stored,        \* stored[f]: how many of its turns are rows of turns
  counted,       \* counted[f]: how many of them the session's totals include
  ingestedAt,    \* sessions.ingested_at, 0 without a row
  recorded,      \* ingested_files.mtime_ms, 0 without a row
  unreconciled,  \* history: the sessions whose reconciliation did not happen
  calls,         \* calls[c]: the state of a call
  inflight,      \* inflight[p]: the page render that ingests, or None
  now

dbVars == <<stored, counted, ingestedAt, recorded>>
vars == <<transcripts, dbVars, unreconciled, calls, inflight, now>>

Mtime(f) == IF transcripts[f] = <<>> THEN 0 ELSE transcripts[f][Len(transcripts[f])]
Written == {f \in Files : transcripts[f] # <<>>}
Newest(T) == IF T = {} THEN 0 ELSE CHOOSE t \in T : \A u \in T : u <= t
Same(f) == {g \in Files : SessionOf[g] = SessionOf[f]}

(* The state of a call.  "want" is a history variable: what was on disk when *)
(* the call began.                                                          *)
Fresh == [pc |-> "idle", todo |-> {}, file |-> None, seen |-> 0, parsed |-> 0,
          failed |-> FALSE, want |-> [f \in Files |-> 0]]

Init ==
  /\ transcripts = [f \in Files |-> <<>>]
  /\ stored = [f \in Files |-> 0]
  /\ counted = [f \in Files |-> 0]
  /\ ingestedAt = [s \in Sessions |-> 0]
  /\ recorded = [f \in Files |-> 0]
  /\ unreconciled = {}
  /\ calls = [c \in Calls |-> Fresh]
  /\ inflight = [p \in Procs |-> None]
  /\ now = 1

-----------------------------------------------------------------------------
(* Processes.                                                               *)

(* A call of the process is between two awaits. *)
InLoop == {"loop", "gate", "parse", "write", "reconcile", "record"}
Busy(p) == \E c \in Calls : ProcOf[c] = p /\ calls[c].pc \in InLoop
Down(p) == \E c \in Calls : ProcOf[c] = p /\ calls[c].pc = "dead"
Ready(c) == ~Busy(ProcOf[c]) /\ ~Down(ProcOf[c])
Idle(c) == calls[c].pc = "idle"

SetCall(c, call) == calls' = [calls EXCEPT ![c] = call]
Goto(c, pc) == SetCall(c, [calls[c] EXCEPT !.pc = pc])

(* The state of a call that has done with a file. *)
Between(call) == [call EXCEPT !.pc = "loop", !.file = None, !.seen = 0,
                              !.parsed = 0]

(* A call ends, and a page render ends those that joined it. *)
Return(c) ==
  /\ calls' = [d \in Calls |->
       IF d = c \/ (calls[d].pc = "wait" /\ inflight[ProcOf[d]] = c)
         THEN Fresh ELSE calls[d]]
  /\ inflight' = [p \in Procs |-> IF inflight[p] = c THEN None ELSE inflight[p]]

OnDisk == [f \in Files |-> Len(transcripts[f])]

-----------------------------------------------------------------------------
(* ensureFreshIngest.                                                       *)

(* A page is rendered: it joins the ingest in flight, or starts one. *)
BeginPage(c) ==
  LET p == ProcOf[c] IN
  /\ c \in Pages /\ Idle(c) /\ Ready(c)
  /\ IF inflight[p] # None
       THEN SetCall(c, [Fresh EXCEPT !.pc = "wait", !.want = OnDisk]) /\ UNCHANGED inflight
       ELSE /\ SetCall(c, [Fresh EXCEPT !.pc = "stat", !.want = OnDisk])
            /\ inflight' = [inflight EXCEPT ![p] = c]
  /\ UNCHANGED <<transcripts, dbVars, unreconciled, now>>

(* The newest mtime of the transcripts, after listing them. *)
StatAll(c) ==
  /\ calls[c].pc = "stat" /\ Ready(c)
  /\ IF Written = {}
       THEN Return(c)
       ELSE /\ SetCall(c, [calls[c] EXCEPT !.pc = "fresh",
                             !.seen = Newest({Mtime(f) : f \in Written})])
            /\ UNCHANGED inflight
  /\ UNCHANGED <<transcripts, dbVars, unreconciled, now>>

(* The gate: nothing to do unless a transcript is newer than the last        *)
(* ingestion of any session.                                                *)
CheckFresh(c) ==
  /\ calls[c].pc = "fresh" /\ Ready(c)
  /\ IF calls[c].seen <= Newest({ingestedAt[s] : s \in Sessions})
       THEN Return(c)
       ELSE SetCall(c, [calls[c] EXCEPT !.pc = "migrate", !.seen = 0]) /\ UNCHANGED inflight
  /\ UNCHANGED <<transcripts, dbVars, unreconciled, now>>

-----------------------------------------------------------------------------
(* ingestAll.                                                               *)

BeginIngest(c) ==
  /\ c \in Ingests /\ Idle(c) /\ Ready(c)
  /\ SetCall(c, [Fresh EXCEPT !.pc = "migrate", !.want = OnDisk])
  /\ UNCHANGED <<transcripts, dbVars, unreconciled, inflight, now>>

(* migrate reconciles every session; when it throws, so does ingestAll. *)
Migrate(c) ==
  /\ calls[c].pc = "migrate" /\ Ready(c)
  /\ \/ /\ counted' = stored /\ unreconciled' = {}
        /\ Goto(c, "list")
        /\ UNCHANGED inflight
     \/ /\ "migrate" \in Failures
        /\ Return(c)
        /\ UNCHANGED <<counted, unreconciled>>
  /\ UNCHANGED <<transcripts, stored, ingestedAt, recorded, now>>

(* Mutant of ListFiles: an entry that is not a transcript is listed too. *)
ListFilesUnfiltered(c) ==
  /\ calls[c].pc = "list" /\ Ready(c)
  /\ SetCall(c, [calls[c] EXCEPT !.pc = "loop", !.todo = Written \cup {None}])
  /\ UNCHANGED <<transcripts, dbVars, unreconciled, inflight, now>>

(* The OTEL scrape is awaited, then the listing; the loop runs unawaited. *)
ListFiles(c) ==
  /\ calls[c].pc = "list" /\ Ready(c)
  /\ SetCall(c, [calls[c] EXCEPT !.pc = "loop", !.todo = Written])
  /\ UNCHANGED <<transcripts, dbVars, unreconciled, inflight, now>>

(* The loop is over; a file that was skipped is listed in summary.errors. *)
EndLoop(c) ==
  /\ calls[c].pc = "loop" /\ calls[c].todo = {}
  /\ Return(c)
  /\ UNCHANGED <<transcripts, dbVars, unreconciled, now>>

-----------------------------------------------------------------------------
(* ingestSingleFile.                                                        *)

(* A file event: handleFileEvent is ingestSingleFile on one file. *)
BeginWatch(c, f) ==
  /\ c \in Watches /\ Idle(c) /\ Ready(c)
  /\ SetCall(c, [Fresh EXCEPT !.pc = "loop", !.todo = {f},
       !.want = [[g \in Files |-> 0] EXCEPT ![f] = Len(transcripts[f])]])
  /\ UNCHANGED <<transcripts, dbVars, unreconciled, inflight, now>>

(* statSync. *)
StatFile(c, f) ==
  /\ calls[c].pc = "loop" /\ f \in calls[c].todo
  /\ SetCall(c, [calls[c] EXCEPT !.pc = "gate", !.todo = @ \ {f}, !.file = f,
                                 !.seen = Mtime(f)])
  /\ UNCHANGED <<transcripts, dbVars, unreconciled, inflight, now>>

(* The gate against ingested_files. *)
CheckFile(c) ==
  /\ calls[c].pc = "gate"
  /\ IF recorded[calls[c].file] # 0 /\ calls[c].seen <= recorded[calls[c].file]
       THEN SetCall(c, Between(calls[c]))
       ELSE Goto(c, "parse")
  /\ UNCHANGED <<transcripts, dbVars, unreconciled, inflight, now>>

(* parseTranscriptFile. *)
ParseFile(c) ==
  /\ calls[c].pc = "parse"
  /\ SetCall(c, [calls[c] EXCEPT !.pc = "write",
                                 !.parsed = Len(transcripts[calls[c].file])])
  /\ UNCHANGED <<transcripts, dbVars, unreconciled, inflight, now>>

(* writeSession, its transaction: turns are upserted, and the row of the     *)
(* session takes the totals of this file alone and the present time.        *)
WriteSession(c) ==
  LET f == calls[c].file
      n == calls[c].parsed
  IN
  /\ calls[c].pc = "write"
  /\ stored' = [stored EXCEPT ![f] = IF n > @ THEN n ELSE @]
  /\ counted' = [g \in Files |-> IF g = f THEN n ELSE IF g \in Same(f) THEN 0
                                 ELSE counted[g]]
  /\ ingestedAt' = [ingestedAt EXCEPT ![SessionOf[f]] = now]
  /\ Goto(c, "reconcile")
  /\ UNCHANGED <<transcripts, recorded, unreconciled, inflight, now>>

(* Mutant of Reconciled: only the file just ingested is counted. *)
ReconciledFile(f) == [counted EXCEPT ![f] = stored[f]]

(* The totals of a session over the turns of all its files. *)
Reconciled(f) == [g \in Files |-> IF g \in Same(f) THEN stored[g] ELSE counted[g]]

(* writeSession: reconcileSession, a transaction of its own. *)
ReconcileSession(c) ==
  /\ calls[c].pc = "reconcile"
  /\ counted' = Reconciled(calls[c].file)
  /\ unreconciled' = unreconciled \ {SessionOf[calls[c].file]}
  /\ Goto(c, "record")
  /\ UNCHANGED <<transcripts, stored, ingestedAt, recorded, inflight, now>>

(* Mutant of RecordFile: the mtime is read again instead of the one seen     *)
(* before the parse.                                                        *)
RecordFileNow(c) ==
  /\ calls[c].pc = "record"
  /\ recorded' = [recorded EXCEPT ![calls[c].file] = Mtime(calls[c].file)]
  /\ SetCall(c, Between(calls[c]))
  /\ UNCHANGED <<transcripts, stored, counted, ingestedAt, unreconciled, inflight, now>>

(* The row of ingested_files: the mtime seen before the parse. *)
RecordFile(c) ==
  /\ calls[c].pc = "record"
  /\ recorded' = [recorded EXCEPT ![calls[c].file] = calls[c].seen]
  /\ SetCall(c, Between(calls[c]))
  /\ UNCHANGED <<transcripts, stored, counted, ingestedAt, unreconciled, inflight, now>>

(* The sessions that calls were to reconcile. *)
ToReconcile(C) == {SessionOf[calls[c].file] : c \in {d \in C : calls[d].pc = "reconcile"}}

(* Mutant of SkipFile: the file that failed is not listed in the errors. *)
SkipFileSilently(c) ==
  /\ calls[c].pc \in {"parse", "write", "reconcile", "record"} \cap Failures
  /\ SetCall(c, Between(calls[c]))
  /\ unreconciled' = unreconciled \cup ToReconcile({c})
  /\ UNCHANGED <<transcripts, dbVars, inflight, now>>

(* A step throws: the file is skipped with an error, and the loop goes on. *)
SkipFile(c) ==
  /\ calls[c].pc \in {"parse", "write", "reconcile", "record"} \cap Failures
  /\ SetCall(c, [Between(calls[c]) EXCEPT !.failed = TRUE])
  /\ unreconciled' = unreconciled \cup ToReconcile({c})
  /\ UNCHANGED <<transcripts, dbVars, inflight, now>>

-----------------------------------------------------------------------------
(* The environment.                                                         *)

(* Claude Code appends a turn.  Two writes of a file never get one mtime. *)
Append1(f) ==
  /\ Len(transcripts[f]) < MaxLines[f]
  /\ now > Mtime(f)
  /\ transcripts' = [transcripts EXCEPT ![f] = Append(@, now)]
  /\ UNCHANGED <<dbVars, unreconciled, calls, inflight, now>>

(* The process dies, wherever its calls are. *)
Crash(p) ==
  /\ p \in Crashes /\ ~Down(p)
  /\ \E c \in Calls : ProcOf[c] = p /\ ~Idle(c)
  /\ calls' = [c \in Calls |->
       IF ProcOf[c] = p /\ ~Idle(c) THEN [Fresh EXCEPT !.pc = "dead"] ELSE calls[c]]
  /\ inflight' = [inflight EXCEPT ![p] = None]
  /\ unreconciled' = unreconciled \cup ToReconcile({c \in Calls : ProcOf[c] = p})
  /\ UNCHANGED <<transcripts, dbVars, now>>

(* It starts again, and its first getDb() migrates: every session is         *)
(* reconciled.                                                              *)
Restart(p) ==
  /\ Down(p)
  /\ counted' = stored /\ unreconciled' = {}
  /\ calls' = [c \in Calls |-> IF ProcOf[c] = p THEN Fresh ELSE calls[c]]
  /\ UNCHANGED <<transcripts, stored, ingestedAt, recorded, inflight, now>>

Tick ==
  /\ now < MaxNow
  /\ now' = now + 1
  /\ UNCHANGED <<transcripts, dbVars, unreconciled, calls, inflight>>

-----------------------------------------------------------------------------

Step(c) ==
  \/ StatAll(c) \/ CheckFresh(c)
  \/ Migrate(c) \/ ListFiles(c) \/ EndLoop(c)
  \/ \E f \in Files : StatFile(c, f)
  \/ CheckFile(c) \/ ParseFile(c) \/ WriteSession(c) \/ ReconcileSession(c)
  \/ RecordFile(c) \/ SkipFile(c)

Next ==
  \/ \E c \in Calls : BeginPage(c) \/ BeginIngest(c) \/ Step(c)
  \/ \E c \in Calls, f \in Written : BeginWatch(c, f)
  \/ \E f \in Files : Append1(f)
  \/ \E p \in Procs : Crash(p) \/ Restart(p)
  \/ Tick

Spec == Init /\ [][Next]_vars

-----------------------------------------------------------------------------
(* Properties.                                                              *)

Counts == [Files -> Nat]
Times == 0..MaxNow
Places == InLoop \cup {"idle", "wait", "stat", "fresh", "migrate", "list", "dead"}
CallStates ==
  [pc : Places, todo : SUBSET Files, file : Files \cup {None}, seen : Times,
   parsed : Nat, failed : BOOLEAN, want : Counts]

(* The tables and the calls keep their shape, and the clock its bound. *)
TypeOK ==
  /\ transcripts \in [Files -> Seq(Times)]
  /\ stored \in Counts
  /\ counted \in Counts
  /\ ingestedAt \in [Sessions -> Times]
  /\ recorded \in [Files -> Times]
  /\ unreconciled \subseteq Sessions
  /\ calls \in [Calls -> CallStates]
  /\ inflight \in [Procs -> Pages \cup {None}]
  /\ now \in Times

(* The mtime gate never hides a turn: what a file held at the recorded mtime *)
(* is stored, although it grows between stat and parse, processes overtake  *)
(* each other and record an older mtime, and a process dies anywhere.       *)
LinesAt(f, m) == Cardinality({n \in DOMAIN transcripts[f] : transcripts[f][n] <= m})
RecordedIsStored == \A f \in Files : stored[f] >= LinesAt(f, recorded[f])

(* The totals of a session count the stored turns of all its files, except   *)
(* while a call is between writeSession's transaction and its               *)
(* reconciliation, and after one that threw or died there: until the session  *)
(* is reconciled again, at the latest when any process next migrates.         *)
Torn(s) == s \in unreconciled \cup ToReconcile(Calls)
TotalsExact == \A f \in Files : counted[f] # stored[f] => Torn(SessionOf[f])

(* An ingestAll or a file event that ends without an error has stored all    *)
(* the turns that were on disk when it began, by itself or because another  *)
(* process did.                                                             *)
Stores(c) == \A f \in Files : stored[f] >= calls[c].want[f]
Ends(c, pc) == calls[c].pc = pc /\ calls'[c].pc = "idle"
IngestIsComplete ==
  [][\A c \in Calls : Ends(c, "loop") /\ ~calls[c].failed => Stores(c)]_vars

(* auto.ts:45-48 and 68: the ingest runs when a file has been modified since *)
(* the last one, and reloading the page always reconciles.                  *)
PageIsFresh == [][\A c \in Pages : Ends(c, "fresh") => Stores(c)]_vars
=============================================================================
