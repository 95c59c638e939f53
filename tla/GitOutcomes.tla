---------------------------- MODULE GitOutcomes ----------------------------
(***************************************************************************)
(* The outcome sweep at the end of every ingestAll (runOutcomeSweep in      *)
(* lib/ingest/writer.ts) and the evaluator it calls for each session        *)
(* (lib/ingest/git/evaluator.ts, pr-lookup.ts): which commits of the        *)
(* repository fall to a session, what they changed, what was reverted, and  *)
(* how many of them were merged.                                            *)
(*                                                                         *)
(* The processes of LocalIngest sweep the same database, one sweep at a     *)
(* time each.  A sweep runs unawaited in its process; git and gh take       *)
(* seconds, so that other processes, the user and the clock go on between   *)
(* the enumeration of the commits, the grep for reverts, the look-up of     *)
(* each commit and the row that is written.  Instants are half seconds: git  *)
(* keeps the whole seconds of a commit.                                     *)
(***************************************************************************)
EXTENDS Optional, Naturals, FiniteSets

CONSTANTS
  Chats,           \* sessions of the database
  Sweepers,        \* processes that ingest
  Shas,            \* commits the user or a colleague may make
  Mine,            \* those whose author is git's user.email
  Binary,          \* those whose diff fails or does not parse
  RevertOf,        \* RevertOf[c]: the commit whose sha the subject of c names, or None
  PullsOf,         \* PullsOf[c]: the pull requests that hold c
  LookupOn,        \* TOKENFX_GH_PR_LOOKUP = "1" and origin is on github.com
  Losses,          \* how the directory may fail to be a repository with an address
  Throwing,        \* sessions whose evaluation throws
  SweepWindow,     \* 30 days
  RevertWindow,    \* SEVEN_DAYS_SECONDS
  LimitWindow,     \* RATE_LIMIT_WINDOW_MS
  MaxSweepNow      \* bound on the clock

Answers == {"ok", "rate-limited", "unauthorized", "error"}

(* The rows of session_outcomes.  "asOf", "end" are history: when the commits *)
(* were read, and the end of the session that was asked about.              *)
OutcomeRow ==
  [status : {"evaluated"} \cup Losses, commits : Nat, files : Nat, reverts : Nat,
   prs : Nat \cup {None}, at : Nat, asOf : Nat, end : Nat]

ASSUME GitAssumption ==
  /\ Mine \subseteq Shas /\ Binary \subseteq Shas /\ Throwing \subseteq Chats
  /\ RevertOf \in [Shas -> Shas \cup {None}] /\ None \notin Shas \cup Chats
  /\ None \notin Nat /\ None \notin OutcomeRow
  /\ Losses \subseteq {"cwd-missing", "not-a-git-repo", "no-user-email"}
  /\ LookupOn \in BOOLEAN
  /\ IsFiniteSet(Shas) /\ \A c \in Shas : IsFiniteSet(PullsOf[c])
  /\ {SweepWindow, RevertWindow, LimitWindow, MaxSweepNow} \subseteq Nat

VARIABLES
  clock,       \* the time
  madeAt,      \* madeAt[c]: when c was committed, None before
  mergedAt,    \* mergedAt[c]: when the pull requests that hold it were merged, or None
  repo,        \* what is found at the sessions' cwd
  ends,        \* ends[s]: sessions.ended_at, None without a row
  began,       \* began[s]: sessions.started_at
  outcomes,    \* session_outcomes
  gh,          \* gh[p]: the look-up's state in process p
  sweeps       \* sweeps[p]: the sweep of process p

gitVars == <<clock, madeAt, mergedAt, repo, ends, began, outcomes, gh, sweeps>>

(* The evaluation under way: what was asked, when the commits were read,    *)
(* which they are, and what the calls so far have answered.                 *)
NoWork == [row |-> None, asOf |-> 0, found |-> {}, files |-> 0, reverts |-> 0,
           left |-> {}, prs |-> {}, failed |-> FALSE]
NoSweep == [pc |-> "idle", since |-> 0, rows |-> {}, todo |-> {}, work |-> NoWork]

GitInit ==
  /\ clock = 2
  /\ madeAt = [c \in Shas |-> None] /\ mergedAt = [c \in Shas |-> None]
  /\ repo = "ok"
  /\ ends = [s \in Chats |-> None] /\ began = [s \in Chats |-> 0]
  /\ outcomes = [s \in Chats |-> None]
  /\ gh = [p \in Sweepers |-> [cached |-> {}, limitedUntil |-> 0]]
  /\ sweeps = [p \in Sweepers |-> NoSweep]

-----------------------------------------------------------------------------
(* git.                                                                     *)

Made == {c \in Shas : madeAt[c] # None}
Gone == repo = "cwd-missing" \/ repo = "not-a-git-repo"
CommitTime(c) == madeAt[c] - (madeAt[c] % 2)

(* enumerateSessionCommits: the user's commits between the two ends. *)
EnumerateSessionCommits(start, end) ==
  {c \in Made \cap Mine : CommitTime(c) \in start .. end}

(* computeCommitDiff, summed: a commit whose diff fails counts no file. *)
FilesChanged(C) == Cardinality(C \ Binary)

(* countReverts: commits that name one of them, within the window. *)
CountReverts(C) ==
  Cardinality({r \in Made : \E c \in C :
    RevertOf[r] = c /\ CommitTime(r) \in CommitTime(c) .. (CommitTime(c) + RevertWindow)})

-----------------------------------------------------------------------------
(* gh: the look-up of one commit.                                           *)

LookupMergedPrCount(state, c, answer) ==
  LET Result(status, prs, next) == [status |-> status, prs |-> prs, gh |-> next] IN
  IF c \in state.cached THEN Result("ok", PullsOf[c], state)
  ELSE IF clock < state.limitedUntil THEN Result("rate-limited", {}, state)
  ELSE CASE answer = "ok" /\ mergedAt[c] # None ->
              Result("ok", PullsOf[c], [state EXCEPT !.cached = @ \cup {c}])
         [] answer = "ok" /\ mergedAt[c] = None -> Result("not-found", {}, state)
         [] answer = "rate-limited" ->
              Result(answer, {}, [state EXCEPT !.limitedUntil = clock + LimitWindow])
         [] OTHER -> Result(answer, {}, state)

Counted == {"ok", "not-found"}

(* Mutant of MergedPrCount: a failed look-up counts as none. *)
MergedPrCountPartial(work) ==
  IF ~LookupOn \/ work.found = {} THEN None ELSE Cardinality(work.prs)

(* computeMergedPrCount: null unless every commit was answered for. *)
MergedPrCount(work) ==
  IF ~LookupOn \/ work.found = {} \/ work.failed THEN None ELSE Cardinality(work.prs)

-----------------------------------------------------------------------------
(* The sweep.                                                               *)

(* What is outdated: no row, or one written before the end of the session.  *)
Outdated(s) ==
  ends[s] # None /\ (outcomes[s] = None \/ outcomes[s].at < ends[s])

BeginSweep(p, force) ==
  LET rows == {[id |-> s, start |-> began[s], end |-> ends[s]] :
                 s \in {s \in Chats : Outdated(s) /\ (force \/ ends[s] + SweepWindow >= clock)}}
  IN
  /\ sweeps[p].pc = "idle" /\ rows # {}
  /\ sweeps' = [sweeps EXCEPT ![p] = [NoSweep EXCEPT !.pc = "row", !.since = clock,
                                        !.rows = rows, !.todo = rows]]
  /\ UNCHANGED <<clock, madeAt, mergedAt, repo, ends, began, outcomes, gh>>

(* The sweep has done with a row: the next one, or the end. *)
AfterRow(sweep, row) ==
  [sweep EXCEPT !.pc = IF sweep.todo = {row} THEN "done" ELSE "row",
                !.todo = @ \ {row}, !.work = NoWork]
SetWork(p, pc, work) == sweeps' = [sweeps EXCEPT ![p] = [@ EXCEPT !.pc = pc, !.work = work]]

StatusOnly(status, row) ==
  [status |-> status, commits |-> 0, files |-> 0, reverts |-> 0, prs |-> None, at |-> clock,
   asOf |-> clock, end |-> row.end]
Evaluated(work) ==
  [status |-> "evaluated", commits |-> Cardinality(work.found), files |-> work.files,
   reverts |-> work.reverts, prs |-> MergedPrCount(work), at |-> clock,
   asOf |-> work.asOf, end |-> work.row.end]

(* evaluateSessionOutcome, up to the enumeration: without a repository or   *)
(* an address the row is written at once, without numbers.                  *)
ReadCommits(p, row) ==
  /\ sweeps[p].pc = "row" /\ row \in sweeps[p].todo /\ row.id \notin Throwing
  /\ IF repo = "ok"
       THEN /\ SetWork(p, "count", [NoWork EXCEPT !.row = row, !.asOf = clock,
                                !.found = EnumerateSessionCommits(row.start, row.end)])
            /\ UNCHANGED outcomes
       ELSE /\ outcomes' = [outcomes EXCEPT ![row.id] = StatusOnly(repo, row)]
            /\ sweeps' = [sweeps EXCEPT ![p] = AfterRow(@, row)]
  /\ UNCHANGED <<clock, madeAt, mergedAt, repo, ends, began, gh>>

(* The diffs, then the reverts.  When the directory is lost meanwhile, every  *)
(* call of git from then on fails and counts nothing, and no pull request    *)
(* can be looked up.                                                        *)
CountChanges(p) ==
  LET work == sweeps[p].work IN
  /\ sweeps[p].pc = "count"
  /\ \E files \in 0 .. FilesChanged(work.found), reverts \in 0 .. CountReverts(work.found) :
       /\ reverts < CountReverts(work.found) => Gone
       /\ files < FilesChanged(work.found) => Gone /\ reverts = 0
       /\ SetWork(p, "write", [work EXCEPT !.files = files, !.reverts = reverts, !.failed = Gone,
                                 !.left = IF LookupOn /\ ~Gone THEN work.found ELSE {}])
  /\ UNCHANGED <<clock, madeAt, mergedAt, repo, ends, began, outcomes, gh>>

(* The loop of computeMergedPrCount, newest first: one call of gh. *)
LookUp(p, c, answer) ==
  LET work == sweeps[p].work
      result == LookupMergedPrCount(gh[p], c, answer)
  IN
  /\ sweeps[p].pc = "write" /\ c \in work.left
  /\ \A d \in work.left : madeAt[d] <= madeAt[c]
  /\ SetWork(p, "write", [work EXCEPT !.left = @ \ {c}, !.prs = @ \cup result.prs,
                                     !.failed = @ \/ result.status \notin Counted])
  /\ gh' = [gh EXCEPT ![p] = result.gh]
  /\ UNCHANGED <<clock, madeAt, mergedAt, repo, ends, began, outcomes>>

WriteOutcome(p) ==
  LET work == sweeps[p].work IN
  /\ sweeps[p].pc = "write" /\ work.left = {}
  /\ outcomes' = [outcomes EXCEPT ![work.row.id] = Evaluated(work)]
  /\ sweeps' = [sweeps EXCEPT ![p] = AfterRow(@, work.row)]
  /\ UNCHANGED <<clock, madeAt, mergedAt, repo, ends, began, gh>>

(* Mutant of EvaluationThrows: the exception leaves the loop. *)
EvaluationStopsSweep(p, row) ==
  /\ sweeps[p].pc = "row" /\ row \in sweeps[p].todo /\ row.id \in Throwing
  /\ sweeps' = [sweeps EXCEPT ![p].pc = "done", ![p].todo = {}]
  /\ UNCHANGED <<clock, madeAt, mergedAt, repo, ends, began, outcomes, gh>>

(* The evaluation of a row throws: it is logged, and the loop goes on. *)
EvaluationThrows(p, row) ==
  /\ sweeps[p].pc = "row" /\ row \in sweeps[p].todo /\ row.id \in Throwing
  /\ sweeps' = [sweeps EXCEPT ![p] = AfterRow(@, row)]
  /\ UNCHANGED <<clock, madeAt, mergedAt, repo, ends, began, outcomes, gh>>

EndSweep(p) ==
  /\ sweeps[p].pc = "done"
  /\ sweeps' = [sweeps EXCEPT ![p] = NoSweep]
  /\ UNCHANGED <<clock, madeAt, mergedAt, repo, ends, began, outcomes, gh>>

-----------------------------------------------------------------------------
(* The environment: ingestion (the turns it stores end at some instant up   *)
(* to the present), commits, and a directory that comes and goes.           *)

StoreSession(s) ==
  /\ \E t \in {t \in 2 .. clock : ends[s] = None \/ ends[s] < t} :
       /\ ends' = [ends EXCEPT ![s] = t]
       /\ began' = IF ends[s] = None THEN [began EXCEPT ![s] = t] ELSE began
  /\ UNCHANGED <<clock, madeAt, mergedAt, repo, outcomes, gh, sweeps>>

MakeCommit(c) ==
  /\ madeAt[c] = None /\ repo = "ok"
  /\ RevertOf[c] \in Made \cup {None}
  /\ madeAt' = [madeAt EXCEPT ![c] = clock]
  /\ UNCHANGED <<clock, mergedAt, repo, ends, began, outcomes, gh, sweeps>>

MergePulls(c) ==
  /\ LookupOn /\ c \in Made /\ PullsOf[c] # {} /\ mergedAt[c] = None
  /\ mergedAt' = [mergedAt EXCEPT ![c] = clock]
  /\ UNCHANGED <<clock, madeAt, repo, ends, began, outcomes, gh, sweeps>>

MoveRepo ==
  /\ repo' \in IF repo = "ok" THEN Losses ELSE {"ok"}
  /\ UNCHANGED <<clock, madeAt, mergedAt, ends, began, outcomes, gh, sweeps>>

TickSweep ==
  /\ clock < MaxSweepNow
  /\ clock' = clock + 1
  /\ UNCHANGED <<madeAt, mergedAt, repo, ends, began, outcomes, gh, sweeps>>

SweepStep(p) ==
  \/ \E force \in BOOLEAN : BeginSweep(p, force)
  \/ \E row \in sweeps[p].todo : ReadCommits(p, row) \/ EvaluationThrows(p, row)
  \/ CountChanges(p)
  \/ \E c \in sweeps[p].work.left, answer \in Answers : LookUp(p, c, answer)
  \/ WriteOutcome(p)
  \/ EndSweep(p)

GitNext ==
  \/ \E p \in Sweepers : SweepStep(p)
  \/ \E s \in Chats : StoreSession(s)
  \/ \E c \in Shas : MakeCommit(c) \/ MergePulls(c)
  \/ MoveRepo
  \/ TickSweep

GitSpec == GitInit /\ [][GitNext]_gitVars

-----------------------------------------------------------------------------
(* Properties.                                                              *)

(* Every row says what the repository said when it was read: it counts each *)
(* commit the user had made within the session and no other, the number of  *)
(* merged pull requests is all of theirs or null, never a part because a    *)
(* look-up failed, and a row without a repository has no numbers, whichever *)
(* processes sweep at the same time.  A pull request merged while the row    *)
(* was evaluated may be counted or not, and a directory lost meanwhile takes *)
(* changes and reverts away.  (At one instant either order may hold.)        *)
Within(o, s) == {c \in Made \cap Mine : CommitTime(c) \in began[s] .. o.end}
UpTo(C, at, from, to) ==
  {D \in SUBSET C : /\ \A c \in D : at[c] # None /\ at[c] <= to
                    /\ \A c \in C \ D : at[c] = None \/ at[c] >= from}
OutcomesTruthful ==
  \A s \in Chats : outcomes[s] # None =>
    LET o == outcomes[s]
    IN IF o.status = "evaluated"
         THEN \E C \in UpTo(Within(o, s), madeAt, o.asOf, o.asOf) :
                /\ o.commits = Cardinality(C) /\ o.files <= Cardinality(C \ Binary)
                /\ o.reverts <= Cardinality({r \in Made : RevertOf[r] \in C})
                /\ \/ o.prs = None
                   \/ \E D \in UpTo(C, mergedAt, o.asOf, o.at) :
                        o.prs = Cardinality(UNION {PullsOf[c] : c \in D})
         ELSE o.commits + o.files + o.reverts = 0 /\ o.prs = None

(* A sweep that ends has evaluated every session it found outdated, at a     *)
(* time not before its own beginning, although the evaluation of another    *)
(* session throws (writer.ts: one session's failure must not abort it).     *)
SweepIsComplete ==
  [][\A p \in Sweepers : sweeps[p].pc = "done" /\ sweeps'[p].pc = "idle" =>
       \A row \in sweeps[p].rows :
         \/ row.id \in Throwing
         \/ outcomes[row.id] # None /\ outcomes[row.id].at >= sweeps[p].since]_gitVars
=============================================================================
