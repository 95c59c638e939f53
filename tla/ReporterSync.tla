---------------------------- MODULE ReporterSync ----------------------------
(***************************************************************************)
(* The push pipeline of TokenFx: the local SQLite database and its         *)
(* writers, the reporter runs that push session aggregates                 *)
(* (lib/reporter/runner.ts, client.ts, queue.ts), the network between, and *)
(* the ingest endpoint of the central server                               *)
(* (apps/server/app/api/ingest/route.ts).                                  *)
(*                                                                         *)
(* A payload stands for the sanitized aggregate of a session AND for its   *)
(* SHA-256 hash: the code compares hashes only, and equal payloads have    *)
(* equal hashes.  A content may come back to an earlier payload: a rating  *)
(* is toggled and toggled back.  A payload has parts, one for each SELECT  *)
(* that reads it: runReporter issues them one after the other, without a   *)
(* transaction, so that other processes may commit in between.             *)
(***************************************************************************)
EXTENDS Naturals, Sequences, FiniteSets

CONSTANTS
  Sessions,        \* session ids
  Values,          \* what a part of an aggregate can be
  Unrated,         \* the part "ratings" of a session without ratings
  Reads,           \* the SELECTs after CANDIDATES_SQL, in order: names of
                   \* ReadNames (in the code each of the four once)
  Unsanitizable,   \* contents that sanitizeSession refuses
  Refused,         \* payloads the server's item schema refuses (version skew)
  None,            \* no content, no pushed hash, no request
  Runners,         \* reporter processes: the hourly unit, a run by hand
  Requests,        \* identities of HTTP requests in flight
  Writers,         \* which local writers run, a subset of WriterKinds
  BatchSize,       \* BATCH_SIZE of the runner (50)
  MaxAttempts,     \* attempts of pushBatch (7)
  QueueMax,        \* maxEntries of the offline queue (10000)
  Overlap,         \* ONE_HOUR_MS, in ticks of the clock
  MaxNow,          \* bound on the clock
  MaxEdits,        \* bound on local edits
  Quiet,           \* TRUE: no local writer commits during a run, nor in the
                   \* same millisecond as the last mark
  ReplyLoss        \* TRUE: a reply may be lost after the server committed,
                   \* and a request may outlive the attempt that sent it

StampKinds == {"ingest", "rating", "outcome"}
WriterKinds == StampKinds \cup {"otel"}

ReadNames == {"models", "tools", "ratings", "subagents"}

(* The row of sessions and session_outcomes, read with the candidates, and  *)
(* what each later SELECT adds to it.                                       *)
Parts == {"row"} \cup {Reads[i] : i \in DOMAIN Reads}

(* Sanitized aggregates, and their hashes. *)
Payloads == [Parts -> Values]

ASSUME SetsAssumption ==
  /\ Reads \in Seq(ReadNames)
  /\ None \notin Payloads
  /\ None \notin Requests
  /\ Unsanitizable \subseteq Payloads
  /\ Refused \subseteq Payloads
  /\ Writers \subseteq WriterKinds

ASSUME NumbersAssumption ==
  /\ BatchSize \in Nat \ {0}
  /\ MaxAttempts \in Nat \ {0}
  /\ QueueMax \in Nat \ {0}
  /\ Overlap \in Nat
  /\ MaxNow \in Nat
  /\ MaxEdits \in Nat
  /\ Quiet \in BOOLEAN
  /\ ReplyLoss \in BOOLEAN

VARIABLES
  content,     \* content[s]: the aggregate the local database now gives for s
  started,     \* started[s]: sessions.started_at
  stamp,       \* stamp[s]: ingested_at, latest rated_at, last_evaluated_at
  pushedHash,  \* reporter_pushed_sessions.payload_hash, None when no row
  pushedAt,    \* reporter_pushed_sessions.pushed_at
  queue,       \* reporter_queue, oldest first
  runs,        \* runs[r]: the state of one runReporter invocation
  net,         \* requests the server has not finished with
  server,      \* sessions_agg of this user: server[s] is its payload_hash
  revoked,     \* user_machines.revoked_at is set
  now,         \* the clock of the machine
  edits,       \* number of local edits made (bound only)
  stored,      \* history: payloads the server ever stored for s
  produced     \* history: contents the local database ever had for s

localVars == <<content, started, stamp, edits, produced>>
markVars == <<pushedHash, pushedAt>>
serverVars == <<server, stored>>
vars == <<content, started, stamp, pushedHash, pushedAt, queue, runs, net,
          server, revoked, now, edits, stored, produced>>

Times == 0..MaxNow
PayloadOrNone == Payloads \cup {None}
NoPayload == [s \in Sessions |-> None]
Batches == [Sessions -> PayloadOrNone]

IdleRun == [pc |-> "idle", todo |-> NoPayload, chunk |-> NoPayload,
            read |-> 0, seen |-> NoPayload, attempt |-> 0, req |-> None,
            reply |-> "none"]

(* read counts the SELECTs done after the first one; seen is the            *)
(* payload_hash of each candidate, as the first one read it.                *)
Runs == [pc : {"idle", "read", "push", "wait", "enqueue"}, todo : Batches,
         chunk : Batches, read : 0..Len(Reads), seen : Batches,
         attempt : 0..MaxAttempts,
         req : Requests \cup {None},
         reply : {"none", "ok", "retry", "permanent"}]

Messages == [id : Requests, items : Batches, stage : {"sent", "authed"}]

QueueEntries == [session : Sessions, payload : Payloads]

(* The sessions a batch holds. *)
In(batch) == {s \in Sessions : batch[s] # None}

Init ==
  /\ content = NoPayload
  /\ started = [s \in Sessions |-> 0]
  /\ stamp = [s \in Sessions |-> [k \in StampKinds |-> 0]]
  /\ pushedHash = NoPayload
  /\ pushedAt = [s \in Sessions |-> 0]
  /\ queue = <<>>
  /\ runs = [r \in Runners |-> IdleRun]
  /\ net = {}
  /\ server = NoPayload
  /\ revoked = FALSE
  /\ now = 0
  /\ edits = 0
  /\ stored = [s \in Sessions |-> {}]
  /\ produced = [s \in Sessions |-> {}]

-----------------------------------------------------------------------------
(* Local writers: other processes of the machine (pnpm ingest, pnpm watch,  *)
(* the dashboard).  Each commits one SQLite transaction.                    *)

AllIdle == \A r \in Runners : runs[r].pc = "idle"

MayWrite(s) ==
  /\ edits < MaxEdits
  /\ Quiet => AllIdle /\ now > pushedAt[s]

SetContent(s, p) ==
  /\ content' = [content EXCEPT ![s] = p]
  /\ produced' = [produced EXCEPT ![s] = @ \cup {p}]
  /\ edits' = edits + 1

(* A write of s that leaves the parts in K as they are. *)
Keeps(s, p, K) == \A k \in Parts \cap K : p[k] = content[s][k]

(* writeSession: the transcript of s is ingested for the first time, or     *)
(* again; ingested_at is always renewed and ratings are never touched.  Its *)
(* first transaction and what follows it (the reconciled totals, the OTEL   *)
(* cost) commit apart: what follows is an unstamped write (OtelUpdate), or  *)
(* belongs to this step when no run can see the state in between.           *)
Ingest(s, p) ==
  /\ "ingest" \in Writers
  /\ MayWrite(s)
  /\ IF content[s] = None
       THEN /\ "ratings" \in Parts => p["ratings"] = Unrated
            /\ \E t \in 0..now : started' = [started EXCEPT ![s] = t]
       ELSE Keeps(s, p, {"ratings"}) /\ UNCHANGED started
  /\ SetContent(s, p)
  /\ stamp' = [stamp EXCEPT ![s]["ingest"] = now]
  /\ UNCHANGED <<markVars, queue, runs, net, serverVars, revoked, now>>

(* A write of the parts in K of s that renews a timestamp. *)
StampedWrite(s, p, kind, K) ==
  /\ kind \in Writers
  /\ MayWrite(s)
  /\ content[s] # None
  /\ Keeps(s, p, Parts \ K)
  /\ SetContent(s, p)
  /\ stamp' = [stamp EXCEPT ![s][kind] = now]
  /\ UNCHANGED <<started, markVars, queue, runs, net, serverVars, revoked, now>>

(* A turn of s is rated, or its rating changed: rated_at is renewed. *)
Rate(s, p) == StampedWrite(s, p, "rating", {"ratings"})

(* The git outcome of s is evaluated: last_evaluated_at is renewed. *)
Evaluate(s, p) == StampedWrite(s, p, "outcome", {"row"})

(* total_cost_usd_otel is set by the OTEL sweep, or the costs of the turns  *)
(* and their totals by recompute-costs or by reconcileSession: the payload  *)
(* changes and no timestamp does.                                           *)
OtelUpdate(s, p) ==
  /\ "otel" \in Writers
  /\ MayWrite(s)
  /\ content[s] # None
  /\ Keeps(s, p, Parts \ {"row", "models"})
  /\ SetContent(s, p)
  /\ UNCHANGED <<started, stamp, markVars, queue, runs, net, serverVars,
                 revoked, now>>

-----------------------------------------------------------------------------
(* A reporter run.                                                          *)

(* Mutant of Candidate: the EXISTS over ratings is left out. *)
CandidateNoRating(s) ==
  /\ content[s] # None
  /\ \/ pushedHash[s] = None
     \/ stamp[s]["ingest"] > pushedAt[s]
     \/ started[s] + Overlap >= now
     \/ stamp[s]["outcome"] > pushedAt[s]

(* Mutant of Candidate: enqueued sessions are left to the queue. *)
CandidateNotQueued(s) ==
  /\ content[s] # None
  /\ \A i \in 1..Len(queue) : queue[i].session # s
  /\ \/ pushedHash[s] = None
     \/ stamp[s]["ingest"] > pushedAt[s]

(* CANDIDATES_SQL: the rows a run considers. *)
Candidate(s) ==
  /\ content[s] # None
  /\ \/ pushedHash[s] = None
     \/ stamp[s]["ingest"] > pushedAt[s]
     \/ started[s] + Overlap >= now
     \/ stamp[s]["rating"] > pushedAt[s]
     \/ stamp[s]["outcome"] > pushedAt[s]

(* A session a run that reads it undisturbed will push: it sanitizes and    *)
(* its hash has changed.                                                    *)
Prepared(s) ==
  /\ Candidate(s)
  /\ content[s] \notin Unsanitizable
  /\ content[s] # pushedHash[s]

(* The run after one of its SELECTs.  After the last one the payloads are   *)
(* sanitized and hashed: those that do not sanitize, or whose hash is the   *)
(* one the first SELECT joined, are left out, and a run without a payload   *)
(* ends.                                                                    *)
AfterRead(run) ==
  LET kept == [s \in Sessions |->
                 IF run.todo[s] \in Unsanitizable \cup {run.seen[s]}
                   THEN None ELSE run.todo[s]]
  IN  IF run.read < Len(Reads) THEN run
      ELSE IF In(kept) = {} THEN IdleRun
      ELSE [IdleRun EXCEPT !.pc = "push", !.todo = kept]

(* Mutant of Refreshed: what the last push recorded is taken for the part. *)
RefreshedFromMark(batch, part) ==
  [s \in Sessions |->
     IF batch[s] = None THEN None
     ELSE IF pushedHash[s] = None THEN [batch[s] EXCEPT ![part] = content[s][part]]
     ELSE [batch[s] EXCEPT ![part] = pushedHash[s][part]]]

(* A part of the batch as the database now gives it. *)
Refreshed(batch, part) ==
  [s \in Sessions |->
     IF batch[s] = None THEN None
                        ELSE [batch[s] EXCEPT ![part] = content[s][part]]]

(* The first SELECT: the candidates, their rows and their pushed hashes.    *)
(* The other parts hold what the later SELECTs will overwrite.              *)
StartRun(r) ==
  /\ runs[r].pc = "idle"
  /\ \E s \in Sessions : Candidate(s)
  /\ LET Selected(b) == [s \in Sessions |-> IF Candidate(s) THEN b[s] ELSE None]
     IN  runs' = [runs EXCEPT ![r] =
                    AfterRead([IdleRun EXCEPT !.pc = "read",
                                              !.todo = Selected(content),
                                              !.seen = Selected(pushedHash)])]
  /\ UNCHANGED <<localVars, markVars, queue, net, serverVars, revoked, now>>

(* The next SELECT reads one part of every candidate. *)
ReadNext(r) ==
  /\ runs[r].pc = "read"
  /\ LET n == runs[r].read + 1
     IN  runs' = [runs EXCEPT ![r] =
                    AfterRead([runs[r] EXCEPT
                                 !.read = n,
                                 !.todo = Refreshed(runs[r].todo, Reads[n])])]
  /\ UNCHANGED <<localVars, markVars, queue, net, serverVars, revoked, now>>

(* The next slice of the prepared list: BatchSize sessions, oldest first. *)
Chunks(todo) ==
  {C \in SUBSET In(todo) :
     /\ C # {}
     /\ Cardinality(C) <= BatchSize
     /\ C = In(todo) \/ Cardinality(C) = BatchSize
     /\ \A s \in C, t \in In(todo) \ C : started[s] <= started[t]}

Slice(todo, C) == [s \in Sessions |-> IF s \in C THEN todo[s] ELSE None]
Without(todo, C) == [s \in Sessions |-> IF s \in C THEN None ELSE todo[s]]

InUse == {m.id : m \in net} \cup {runs[r].req : r \in Runners}

(* The run that has posted chunk as request id. *)
Posted(run, id, chunk, todo) ==
  [IdleRun EXCEPT !.pc = "wait", !.todo = todo, !.chunk = chunk,
                  !.attempt = run.attempt + 1, !.req = id]

(* One fetch of pushBatch. *)
Post(r, id, chunk, todo) ==
  /\ net' = net \cup {[id |-> id, items |-> chunk, stage |-> "sent"]}
  /\ runs' = [runs EXCEPT ![r] = Posted(runs[r], id, chunk, todo)]
  /\ UNCHANGED <<localVars, markVars, queue, serverVars, revoked, now>>

(* The batch loop takes the next chunk and pushBatch posts it. *)
SendChunk(r) ==
  /\ runs[r].pc = "push"
  /\ runs[r].attempt = 0
  /\ \E C \in Chunks(runs[r].todo), id \in Requests \ InUse :
       Post(r, id, Slice(runs[r].todo, C), Without(runs[r].todo, C))

(* After a backoff pushBatch posts the same body again. *)
Resend(r) ==
  /\ runs[r].pc = "push"
  /\ runs[r].attempt > 0
  /\ \E id \in Requests \ InUse : Post(r, id, runs[r].chunk, runs[r].todo)

(* The request a runner waits for, when the server has not finished it. *)
Outstanding(r) == {m \in net : m.id = runs[r].req}

(* Without ReplyLoss a connection only fails before the server has          *)
(* committed, and takes its request with it.                                *)
MayLose(r) == ReplyLoss \/ runs[r].reply = "none"
Abandoned(r) == IF ReplyLoss THEN net ELSE net \ Outstanding(r)

(* Mutant of AfterFailure: one attempt too many. *)
AfterFailureOffByOne(run) ==
  [run EXCEPT !.pc = IF run.attempt <= MaxAttempts THEN "push" ELSE "enqueue",
              !.req = None, !.reply = "none"]

(* pushBatch after a failed attempt: the next attempt, or "transient". *)
AfterFailure(run) ==
  [run EXCEPT !.pc = IF run.attempt < MaxAttempts THEN "push" ELSE "enqueue",
              !.req = None, !.reply = "none"]

(* fetch throws: no reply, whatever the server did. *)
NetworkError(r) ==
  /\ runs[r].pc = "wait"
  /\ MayLose(r)
  /\ runs' = [runs EXCEPT ![r] = AfterFailure(runs[r])]
  /\ net' = Abandoned(r)
  /\ UNCHANGED <<localVars, markVars, queue, serverVars, revoked, now>>

(* A 5xx or 429 reply. *)
RetryableReply(r) ==
  /\ runs[r].pc = "wait"
  /\ runs[r].reply = "retry"
  /\ runs' = [runs EXCEPT ![r] = AfterFailure(runs[r])]
  /\ UNCHANGED <<localVars, markVars, queue, net, serverVars, revoked, now>>

(* What a run goes on with once a chunk is done. *)
NextChunk(run) ==
  IF In(run.todo) = {} THEN IdleRun
                       ELSE [IdleRun EXCEPT !.pc = "push", !.todo = run.todo]

(* Mutant of MarkBatchPushed: the hash is computed again at the mark. *)
MarkPresentHash(r) ==
  /\ runs[r].pc = "wait"
  /\ runs[r].reply = "ok"
  /\ LET done == In(runs[r].chunk)
     IN  /\ pushedHash' = [s \in Sessions |->
                             IF s \in done THEN content[s] ELSE pushedHash[s]]
         /\ pushedAt' = [s \in Sessions |-> IF s \in done THEN now ELSE pushedAt[s]]
  /\ runs' = [runs EXCEPT ![r] = NextChunk(runs[r])]
  /\ UNCHANGED <<localVars, queue, net, serverVars, revoked, now>>

(* A 2xx reply: markBatchPushed, at the time of the mark. *)
MarkBatchPushed(r) ==
  /\ runs[r].pc = "wait"
  /\ runs[r].reply = "ok"
  /\ LET done == In(runs[r].chunk)
     IN  /\ pushedHash' = [s \in Sessions |->
                             IF s \in done THEN runs[r].chunk[s] ELSE pushedHash[s]]
         /\ pushedAt' = [s \in Sessions |-> IF s \in done THEN now ELSE pushedAt[s]]
  /\ runs' = [runs EXCEPT ![r] = NextChunk(runs[r])]
  /\ UNCHANGED <<localVars, queue, net, serverVars, revoked, now>>

(* A 4xx reply, or a 2xx one whose body does not parse: the run stops, the  *)
(* batch is neither marked nor enqueued.                                    *)
PermanentFailure(r) ==
  /\ runs[r].pc = "wait"
  /\ \/ runs[r].reply = "permanent"
     \/ ReplyLoss /\ runs[r].reply = "ok"
  /\ runs' = [runs EXCEPT ![r] = IdleRun]
  /\ UNCHANGED <<localVars, markVars, queue, net, serverVars, revoked, now>>

(* enqueue: one transaction that drops the oldest entry at the cap and      *)
(* inserts.                                                                 *)
Enqueued(q, e) == Append(IF Len(q) >= QueueMax THEN Tail(q) ELSE q, e)

(* The run after one more entry of its chunk is enqueued: the last one ends it. *)
AfterEntry(run, s) ==
  IF In(run.chunk) = {s} THEN IdleRun
                         ELSE [run EXCEPT !.chunk = Without(run.chunk, {s})]

(* After a transient failure the chunk is enqueued entry by entry, oldest   *)
(* first, and the run breaks out of the batch loop.                         *)
EnqueueEntry(r) ==
  /\ runs[r].pc = "enqueue"
  /\ \E s \in In(runs[r].chunk) :
       /\ \A t \in In(runs[r].chunk) : started[s] <= started[t]
       /\ queue' = Enqueued(queue, [session |-> s, payload |-> runs[r].chunk[s]])
       /\ runs' = [runs EXCEPT ![r] = AfterEntry(runs[r], s)]
  /\ UNCHANGED <<localVars, markVars, net, serverVars, revoked, now>>

(* The process dies; the next scheduled run starts from the database. *)
CrashRun(r) ==
  /\ runs[r].pc # "idle"
  /\ MayLose(r)
  /\ runs' = [runs EXCEPT ![r] = IdleRun]
  /\ net' = Abandoned(r)
  /\ UNCHANGED <<localVars, markVars, queue, serverVars, revoked, now>>

-----------------------------------------------------------------------------
(* The ingest endpoint.                                                     *)

Answer(m, kind) ==
  runs' = [r \in Runners |-> IF runs[r].req = m.id
                               THEN [runs[r] EXCEPT !.reply = kind] ELSE runs[r]]

(* The lookup in user_machines, then bcrypt: a revoked key is answered 401. *)
Authenticate(m) ==
  /\ m.stage = "sent"
  /\ IF revoked
       THEN net' = net \ {m} /\ Answer(m, "permanent")
       ELSE net' = (net \ {m}) \cup {[m EXCEPT !.stage = "authed"]} /\ UNCHANGED runs
  /\ UNCHANGED <<localVars, markVars, queue, serverVars, revoked, now>>

(* Mutant of ServerError: the rolled back transaction is answered 200. *)
ServerErrorSwallowed(m) ==
  /\ net' = net \ {m}
  /\ Answer(m, "ok")
  /\ UNCHANGED <<localVars, markVars, queue, serverVars, revoked, now>>

(* The server is unreachable, answers 429, or its transaction rolls back. *)
ServerError(m) ==
  /\ net' = net \ {m}
  /\ Answer(m, "retry")
  /\ UNCHANGED <<localVars, markVars, queue, serverVars, revoked, now>>

(* Items that pass the item schema; the others are listed in errors[]. *)
Accepted(m) == {s \in In(m.items) : m.items[s] \notin Refused}

(* Mutant of CommitBatch: a session that has a row is skipped whatever its hash. *)
CommitBatchOnce(m) ==
  LET new == {s \in Accepted(m) : server[s] = None} IN
  /\ m.stage = "authed"
  /\ server' = [s \in Sessions |-> IF s \in new THEN m.items[s] ELSE server[s]]
  /\ stored' = [s \in Sessions |-> IF s \in new
                                     THEN stored[s] \cup {m.items[s]} ELSE stored[s]]
  /\ net' = net \ {m}
  /\ Answer(m, "ok")
  /\ UNCHANGED <<localVars, markVars, queue, revoked, now>>

(* One transaction: an item whose hash is already stored is skipped, any    *)
(* other replaces the row.  The reply is 200 whatever was refused.          *)
CommitBatch(m) ==
  /\ m.stage = "authed"
  /\ server' = [s \in Sessions |-> IF s \in Accepted(m) THEN m.items[s] ELSE server[s]]
  /\ stored' = [s \in Sessions |-> IF s \in Accepted(m)
                                     THEN stored[s] \cup {m.items[s]} ELSE stored[s]]
  /\ net' = net \ {m}
  /\ Answer(m, "ok")
  /\ UNCHANGED <<localVars, markVars, queue, revoked, now>>

(* A request that no longer reaches the server. *)
LoseRequest(m) ==
  /\ \A r \in Runners : runs[r].req # m.id
  /\ net' = net \ {m}
  /\ UNCHANGED <<localVars, markVars, queue, runs, serverVars, revoked, now>>

(* An administrator revokes the machine. *)
RevokeMachine ==
  /\ ~revoked
  /\ revoked' = TRUE
  /\ UNCHANGED <<localVars, markVars, queue, runs, net, serverVars, now>>

Tick ==
  /\ now < MaxNow
  /\ now' = now + 1
  /\ UNCHANGED <<localVars, markVars, queue, runs, net, serverVars, revoked>>

-----------------------------------------------------------------------------

LocalWrite ==
  \E s \in Sessions, p \in Payloads :
    Ingest(s, p) \/ Rate(s, p) \/ Evaluate(s, p) \/ OtelUpdate(s, p)

RunStep(r) ==
  \/ StartRun(r) \/ ReadNext(r) \/ SendChunk(r) \/ Resend(r) \/ NetworkError(r)
  \/ RetryableReply(r) \/ MarkBatchPushed(r) \/ PermanentFailure(r)
  \/ EnqueueEntry(r) \/ CrashRun(r)

ServerStep(m) ==
  Authenticate(m) \/ ServerError(m) \/ CommitBatch(m) \/ LoseRequest(m)

Next ==
  \/ LocalWrite
  \/ \E r \in Runners : RunStep(r)
  \/ \E m \in net : ServerStep(m)
  \/ RevokeMachine
  \/ Tick

Spec == Init /\ [][Next]_vars

(* What the scheduler and the network owe: the unit fires every hour and a  *)
(* live process takes its next step, no request is in flight for ever (weak *)
(* fairness); runs are not all killed before they post, the server is in    *)
(* time for some of the requests that are still waited for, and not every   *)
(* reply is lost (strong fairness).  Nothing is owed by the writers, the    *)
(* failures, the revocation or the clock.                                   *)
Awaited(m, s) == m.items[s] # None /\ \E r \in Runners : runs[r].req = m.id

Fairness ==
  /\ \A r \in Runners :
       /\ WF_vars(StartRun(r))
       /\ \A i \in 0..(Len(Reads) - 1) : SF_vars(runs[r].read = i /\ ReadNext(r))
       /\ SF_vars(SendChunk(r) \/ Resend(r))
       /\ WF_vars(RetryableReply(r))
       /\ WF_vars(EnqueueEntry(r))
       /\ SF_vars(MarkBatchPushed(r))
  /\ WF_vars(\E m \in net : ServerStep(m))
  /\ \A s \in Sessions :
       /\ SF_vars(\E m \in net : Awaited(m, s) /\ Authenticate(m))
       /\ SF_vars(\E m \in net : Awaited(m, s) /\ CommitBatch(m))

FairSpec == Spec /\ Fairness

-----------------------------------------------------------------------------
(* Properties.                                                              *)

(* Every variable keeps the shape the code gives it, and the offline queue  *)
(* its cap.                                                                 *)
TypeOK ==
  /\ content \in Batches
  /\ started \in [Sessions -> Times]
  /\ stamp \in [Sessions -> [StampKinds -> Times]]
  /\ pushedHash \in Batches
  /\ pushedAt \in [Sessions -> Times]
  /\ queue \in Seq(QueueEntries) /\ Len(queue) <= QueueMax
  /\ runs \in [Runners -> Runs]
  /\ net \in SUBSET Messages
  /\ server \in Batches
  /\ revoked \in BOOLEAN
  /\ now \in Times
  /\ edits \in 0..MaxEdits
  /\ stored \in [Sessions -> SUBSET Payloads]
  /\ produced \in [Sessions -> SUBSET Payloads]

(* An acknowledgement means storage: reporter_pushed_sessions never records *)
(* a hash the server has not stored, except for payloads its item schema    *)
(* refuses (answered 200 with errors[], which the runner does not read).    *)
MarkedWasStored ==
  \A s \in Sessions :
    pushedHash[s] \in stored[s] \cup Refused \cup {None}

(* A changed session is never forgotten: as long as the database differs    *)
(* from the last pushed hash, the session is a candidate of the next run.   *)
NoLostUpdate ==
  \A s \in Sessions : content[s] # pushedHash[s] => Candidate(s)

(* When no run is in progress, a session that is not a candidate, or whose  *)
(* hash is the pushed one (so that a run skips it), has its present         *)
(* aggregate on the server.                                                 *)
Agreement ==
  AllIdle =>
    \A s \in Sessions :
      /\ content[s] \notin Unsanitizable \cup Refused
      /\ ~Prepared(s)
      => server[s] = content[s]

(* What the server stores is whole: when the writers keep out of the runs,  *)
(* an aggregate assembled from several SELECTs, over crashes, retries and   *)
(* rows pushed before, is one the database had at one moment, never a row   *)
(* of one moment with the ratings of another.                               *)
StoresWhole == \A s \in Sessions : stored[s] \subseteq produced[s]

(* A revoked key stores nothing new: once revoked, the requests that may    *)
(* still commit are among those authenticated before the revocation.        *)
AuthedRequests == {m \in net : m.stage = "authed"}
RevokedOnlyDrains == [][revoked => AuthedRequests' \subseteq AuthedRequests]_vars

(* The pipeline implements PushContract: whatever is lost, delayed, retried *)
(* or killed, and whatever is written between the SELECTs of a run, the     *)
(* server only stores sanitized aggregates whose every part the database    *)
(* once had, and only what it stored or refuses is recorded as pushed.      *)
(* (That the parts are of one moment is StoresWhole, and needs the writers  *)
(* to keep out of the runs.)                                                *)
Contract == INSTANCE PushContract
              WITH current <- content, held <- server, received <- stored,
                   acked <- pushedHash

ImplementsContract == Contract!Spec

(* Liveness: an aggregate that is prepared is acknowledged some day, unless  *)
(* it is superseded by a later edit or the machine is revoked, although     *)
(* replies are lost, runs crash and a transient failure makes each run stop *)
(* at the first chunk that fails.                                           *)
ChangeIsAcknowledged ==
  \A s \in Sessions, p \in Payloads :
    content[s] = p /\ Prepared(s)
      ~> pushedHash[s] = p \/ content[s] # p \/ revoked
=============================================================================
