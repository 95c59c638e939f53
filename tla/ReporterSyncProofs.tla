------------------------- MODULE ReporterSyncProofs -------------------------
(***************************************************************************)
(* Proofs about ReporterSync, for every number of sessions, payloads,      *)
(* runners and requests and every value of the bounds.                     *)
(***************************************************************************)
EXTENDS ReporterSync, TLAPS

(* A run that may still post has an attempt left. *)
PushRoom == \A r \in Runners : runs[r].pc = "push" => runs[r].attempt < MaxAttempts

(* A run that is reading has a SELECT left, on sessions that exist. *)
ReadRoom ==
  \A r \in Runners : runs[r].pc = "read" =>
    runs[r].read < Len(Reads) /\ In(runs[r].todo) \subseteq In(content)

TypeInv == TypeOK /\ PushRoom /\ ReadRoom

LEMMA BatchFacts ==
  /\ NoPayload \in Batches
  /\ IdleRun \in Runs
  /\ IdleRun.pc = "idle" /\ IdleRun.attempt = 0
  /\ IdleRun.req = None /\ IdleRun.reply = "none"
  /\ IdleRun.chunk = NoPayload /\ IdleRun.todo = NoPayload
  /\ IdleRun.read = 0 /\ IdleRun.seen = NoPayload
BY SetsAssumption, NumbersAssumption
DEF NoPayload, Batches, PayloadOrNone, IdleRun, Runs

(* Slicing a batch gives batches. *)
LEMMA SliceType ==
  ASSUME NEW b \in Batches, NEW C
  PROVE  Slice(b, C) \in Batches /\ Without(b, C) \in Batches
BY DEF Slice, Without, Batches, PayloadOrNone

(* A SELECT reads one more part of the sessions a run holds. *)
LEMMA RefreshedType ==
  ASSUME NEW b \in Batches, content \in Batches, In(b) \subseteq In(content),
         NEW k \in Parts
  PROVE  /\ Refreshed(b, k) \in Batches
         /\ In(Refreshed(b, k)) = In(b)
         /\ \A s \in In(b) : /\ Refreshed(b, k)[s][k] = content[s][k]
                            /\ \A j \in Parts \ {k} : Refreshed(b, k)[s][j] = b[s][j]
<1>1. \A s \in In(b) : /\ b[s] \in [Parts -> Values] /\ content[s] \in [Parts -> Values]
                      /\ Refreshed(b, k)[s] = [b[s] EXCEPT ![k] = content[s][k]]
  BY DEF Batches, PayloadOrNone, In, Payloads, Refreshed
<1>2. \A s \in Sessions \ In(b) : Refreshed(b, k)[s] = None
  BY DEF In, Refreshed
<1>3. ASSUME NEW s \in In(b) PROVE Refreshed(b, k)[s] \in Payloads
  <2>1. content[s][k] \in Values /\ b[s] \in [Parts -> Values]
    BY <1>1
  <2> QED BY <1>1, <2>1 DEF Payloads
<1>4. Refreshed(b, k) \in Batches
  BY <1>2, <1>3 DEF Refreshed, Batches, PayloadOrNone
<1>5. In(Refreshed(b, k)) = In(b)
  BY <1>2, <1>3, SetsAssumption DEF In
<1> QED BY <1>1, <1>4, <1>5

(* After a SELECT a run reads on, pushes what is left of its batch, or ends. *)
LEMMA AfterReadType ==
  ASSUME NEW run \in Runs, run.pc = "read"
  PROVE  /\ AfterRead(run) \in Runs
         /\ AfterRead(run).pc \in {"idle", "read", "push"}
         /\ AfterRead(run).pc = "idle" => AfterRead(run) = IdleRun
         /\ AfterRead(run).pc = "read" => AfterRead(run) = run /\ run.read < Len(Reads)
         /\ AfterRead(run).pc = "push" => AfterRead(run).attempt = 0
         /\ AfterRead(run).req \in {run.req, None}
         /\ AfterRead(run).reply \in {run.reply, "none"}
         /\ AfterRead(run).chunk \in {run.chunk, NoPayload}
         /\ In(AfterRead(run).todo) \subseteq In(run.todo)
         /\ \A s \in In(AfterRead(run).todo) :
              /\ AfterRead(run).todo[s] = run.todo[s]
              /\ AfterRead(run).pc = "push" => run.todo[s] \notin Unsanitizable
<1> DEFINE kept == [s \in Sessions |->
                      IF run.todo[s] \in Unsanitizable \cup {run.seen[s]}
                        THEN None ELSE run.todo[s]]
<1>1. run.todo \in Batches
  BY DEF Runs
<1>2. /\ kept \in Batches /\ In(kept) \subseteq In(run.todo)
      /\ \A s \in In(kept) : kept[s] = run.todo[s] /\ kept[s] \notin Unsanitizable
  BY <1>1 DEF Batches, PayloadOrNone, In
<1>3. In(NoPayload) = {}
  BY DEF In, NoPayload
<1> DEFINE pushing == [IdleRun EXCEPT !.pc = "push", !.todo = kept]
<1>4. /\ pushing \in Runs /\ pushing.pc = "push" /\ pushing.todo = kept
      /\ pushing.attempt = 0 /\ pushing.req = None /\ pushing.reply = "none"
      /\ pushing.chunk = NoPayload
  <2> HIDE DEF kept
  <2> QED BY <1>2, BatchFacts DEF Runs, IdleRun
<1>5. AfterRead(run) = IF run.read < Len(Reads) THEN run
                       ELSE IF In(kept) = {} THEN IdleRun ELSE pushing
  BY DEF AfterRead
<1> HIDE DEF kept, pushing
<1>6. CASE run.read < Len(Reads)
  BY <1>5, <1>6
<1>7. CASE ~(run.read < Len(Reads)) /\ In(kept) = {}
  BY <1>3, <1>5, <1>7, BatchFacts
<1>8. CASE ~(run.read < Len(Reads)) /\ In(kept) # {}
  BY <1>2, <1>4, <1>5, <1>8
<1> QED BY <1>6, <1>7, <1>8

(* The batch the first SELECT of a run reads. *)
FirstRead ==
  [IdleRun EXCEPT
     !.pc = "read",
     !.todo = [s \in Sessions |-> IF Candidate(s) THEN content[s] ELSE None],
     !.seen = [s \in Sessions |-> IF Candidate(s) THEN pushedHash[s] ELSE None]]

LEMMA FirstReadType ==
  ASSUME content \in Batches, pushedHash \in Batches
  PROVE  /\ FirstRead \in Runs /\ FirstRead.pc = "read"
         /\ FirstRead.req = None /\ FirstRead.reply = "none"
         /\ FirstRead.chunk = NoPayload
         /\ In(FirstRead.todo) \subseteq In(content)
         /\ \A s \in In(FirstRead.todo) : FirstRead.todo[s] = content[s]
<1> DEFINE first == [s \in Sessions |-> IF Candidate(s) THEN content[s] ELSE None]
           marks == [s \in Sessions |-> IF Candidate(s) THEN pushedHash[s] ELSE None]
<1>1. first \in Batches /\ marks \in Batches
  BY DEF Batches, PayloadOrNone
<1>2. In(first) \subseteq In(content) /\ \A s \in In(first) : first[s] = content[s]
  BY DEF In
<1>3. FirstRead = [IdleRun EXCEPT !.pc = "read", !.todo = first, !.seen = marks]
  BY DEF FirstRead
<1> HIDE DEF first, marks
<1>4. /\ FirstRead \in Runs /\ FirstRead.pc = "read" /\ FirstRead.todo = first
      /\ FirstRead.req = None /\ FirstRead.reply = "none" /\ FirstRead.chunk = NoPayload
  BY <1>1, <1>3, BatchFacts DEF Runs, IdleRun
<1> QED BY <1>2, <1>4

(* The batch of a run after its next SELECT. *)
NextRead(run) ==
  [run EXCEPT !.read = run.read + 1,
              !.todo = Refreshed(run.todo, Reads[run.read + 1])]

LEMMA NextReadType ==
  ASSUME content \in Batches, NEW run \in Runs, run.pc = "read",
         run.read < Len(Reads), In(run.todo) \subseteq In(content)
  PROVE  /\ NextRead(run) \in Runs /\ NextRead(run).pc = "read"
         /\ NextRead(run).req = run.req /\ NextRead(run).reply = run.reply
         /\ NextRead(run).chunk = run.chunk
         /\ In(NextRead(run).todo) = In(run.todo)
         /\ \A s \in In(run.todo), k \in Parts :
              NextRead(run).todo[s][k] \in {run.todo[s][k], content[s][k]}
<1> DEFINE part == Reads[run.read + 1]
<1>1. run.read + 1 \in 1..Len(Reads) /\ run.read + 1 \in 0..Len(Reads)
  BY SetsAssumption DEF Runs
<1>2. part \in Parts
  BY <1>1, SetsAssumption DEF Parts
<1>3. run.todo \in Batches
  BY DEF Runs
<1> HIDE DEF part
<1>4. /\ Refreshed(run.todo, part) \in Batches
      /\ In(Refreshed(run.todo, part)) = In(run.todo)
      /\ \A s \in In(run.todo) :
           /\ Refreshed(run.todo, part)[s][part] = content[s][part]
           /\ \A j \in Parts \ {part} : Refreshed(run.todo, part)[s][j] = run.todo[s][j]
  BY <1>2, <1>3, RefreshedType
<1>5. NextRead(run) = [run EXCEPT !.read = run.read + 1, !.todo = Refreshed(run.todo, part)]
  BY DEF NextRead, part
<1>6. /\ NextRead(run) \in Runs /\ NextRead(run).pc = "read"
      /\ NextRead(run).req = run.req /\ NextRead(run).reply = run.reply
      /\ NextRead(run).chunk = run.chunk /\ NextRead(run).todo = Refreshed(run.todo, part)
  BY <1>1, <1>4, <1>5 DEF Runs
<1>7. \A s \in In(run.todo), k \in Parts :
        NextRead(run).todo[s][k] \in {run.todo[s][k], content[s][k]}
  BY <1>4, <1>6
<1> QED BY <1>4, <1>6, <1>7

LEMMA AnswerType ==
  ASSUME runs \in [Runners -> Runs], NEW m, Answer(m, "ok") \/ Answer(m, "retry") \/ Answer(m, "permanent")
  PROVE  /\ runs' \in [Runners -> Runs]
         /\ \A r \in Runners : /\ runs'[r].pc = runs[r].pc
                               /\ runs'[r].attempt = runs[r].attempt
                               /\ runs'[r].req = runs[r].req
                               /\ runs'[r].chunk = runs[r].chunk
                               /\ runs'[r].todo = runs[r].todo
                               /\ runs'[r].read = runs[r].read
BY DEF Answer, Runs

LEMMA PostedType ==
  ASSUME NEW run, NEW id, NEW c, NEW t
  PROVE  /\ Posted(run, id, c, t).pc = "wait" /\ Posted(run, id, c, t).req = id
         /\ Posted(run, id, c, t).reply = "none"
         /\ Posted(run, id, c, t).chunk = c /\ Posted(run, id, c, t).todo = t
BY DEF Posted, IdleRun

LEMMA AfterFailureType ==
  ASSUME NEW run \in Runs
  PROVE  /\ AfterFailure(run) \in Runs
         /\ AfterFailure(run).pc = "push" => AfterFailure(run).attempt < MaxAttempts
         /\ AfterFailure(run).pc \in {"push", "enqueue"}
         /\ AfterFailure(run).req = None /\ AfterFailure(run).reply = "none"
         /\ AfterFailure(run).chunk = run.chunk /\ AfterFailure(run).todo = run.todo
BY NumbersAssumption DEF AfterFailure, Runs

LEMMA NextChunkType ==
  ASSUME NEW run \in Runs
  PROVE  /\ NextChunk(run) \in Runs
         /\ NextChunk(run).pc \in {"idle", "push"}
         /\ NextChunk(run).pc = "idle" => NextChunk(run) = IdleRun
         /\ NextChunk(run).attempt = 0
         /\ NextChunk(run).req = None /\ NextChunk(run).reply = "none"
         /\ NextChunk(run).chunk = NoPayload
         /\ NextChunk(run).todo \in {run.todo, NoPayload}
BY BatchFacts, NumbersAssumption DEF NextChunk, Runs, IdleRun

THEOREM TypeInvInit == Init => TypeInv
<1> SUFFICES ASSUME Init PROVE TypeInv
  OBVIOUS
<1>1. TypeOK
  <2>1. 0 \in Times /\ 0 \in 0..MaxEdits
    BY NumbersAssumption DEF Times
  <2>2. started \in [Sessions -> Times] /\ pushedAt \in [Sessions -> Times]
    BY <2>1 DEF Init
  <2>3. stamp \in [Sessions -> [StampKinds -> Times]]
    BY <2>1 DEF Init
  <2>4. queue \in Seq(QueueEntries) /\ Len(queue) <= QueueMax
    BY NumbersAssumption DEF Init
  <2>5. runs \in [Runners -> Runs]
    BY BatchFacts DEF Init
  <2> QED BY <2>1, <2>2, <2>3, <2>4, <2>5, BatchFacts DEF Init, TypeOK
<1>2. PushRoom /\ ReadRoom
  BY BatchFacts DEF Init, PushRoom, ReadRoom
<1> QED BY <1>1, <1>2 DEF TypeInv

LEMMA TypeInvStep == TypeInv /\ [Next]_vars => TypeInv'
<1> SUFFICES ASSUME TypeInv, [Next]_vars PROVE TypeInv'
  OBVIOUS
<1> USE DEF TypeInv, TypeOK, PushRoom, ReadRoom, serverVars, markVars, localVars
<1>c. ASSUME NEW s \in Sessions, NEW p \in Payloads, SetContent(s, p)
      PROVE  In(content) \subseteq In(content')
  BY <1>c, SetsAssumption DEF SetContent, In, Batches
<1>1. ASSUME NEW s \in Sessions, NEW p \in Payloads, Ingest(s, p)
      PROVE  TypeInv'
  <2>1. /\ content' \in Batches /\ edits' \in 0..MaxEdits
        /\ produced' \in [Sessions -> SUBSET Payloads]
    BY <1>1, NumbersAssumption DEF Ingest, MayWrite, SetContent, Batches, PayloadOrNone
  <2>2. started' \in [Sessions -> Times]
    <3>1. 0..now \subseteq Times
      BY NumbersAssumption DEF Times
    <3> QED BY <1>1, <3>1 DEF Ingest
  <2>3. stamp' \in [Sessions -> [StampKinds -> Times]]
    BY <1>1 DEF Ingest, StampKinds
  <2>4. ReadRoom'
    BY <1>1, <1>c DEF Ingest
  <2> QED BY <1>1, <2>1, <2>2, <2>3, <2>4 DEF Ingest, SetContent
<1>2. ASSUME NEW s \in Sessions, NEW p \in Payloads, NEW k \in StampKinds, NEW K,
             StampedWrite(s, p, k, K)
      PROVE  TypeInv'
  <2>1. ReadRoom'
    BY <1>2, <1>c DEF StampedWrite
  <2>2. /\ content' \in Batches /\ edits' \in 0..MaxEdits
        /\ produced' \in [Sessions -> SUBSET Payloads]
    BY <1>2, NumbersAssumption
    DEF StampedWrite, MayWrite, SetContent, Batches, PayloadOrNone
  <2>3. stamp' \in [Sessions -> [StampKinds -> Times]]
    BY <1>2 DEF StampedWrite
  <2> QED BY <1>2, <2>1, <2>2, <2>3 DEF StampedWrite, SetContent
<1>3. ASSUME NEW s \in Sessions, NEW p \in Payloads, OtelUpdate(s, p)
      PROVE  TypeInv'
  <2>1. ReadRoom'
    BY <1>3, <1>c DEF OtelUpdate
  <2>2. /\ content' \in Batches /\ edits' \in 0..MaxEdits
        /\ produced' \in [Sessions -> SUBSET Payloads]
    BY <1>3, NumbersAssumption
    DEF OtelUpdate, MayWrite, SetContent, Batches, PayloadOrNone
  <2> QED BY <1>3, <2>1, <2>2 DEF OtelUpdate, SetContent
<1>4. ASSUME NEW r \in Runners, StartRun(r) PROVE TypeInv'
  <2>1. runs' = [runs EXCEPT ![r] = AfterRead(FirstRead)]
    BY <1>4 DEF StartRun, FirstRead
  <2>2. runs'[r] = AfterRead(FirstRead) /\ content' = content
        /\ \A q \in Runners \ {r} : runs'[q] = runs[q]
    BY <1>4, <2>1 DEF StartRun
  <2>3. runs' \in [Runners -> Runs]
    BY <2>1, FirstReadType, AfterReadType
  <2>4. PushRoom' /\ ReadRoom'
    BY <2>2, FirstReadType, AfterReadType, NumbersAssumption DEF In
  <2> QED BY <1>4, <2>3, <2>4 DEF StartRun
<1>16. ASSUME NEW r \in Runners, ReadNext(r) PROVE TypeInv'
  <2>0. /\ runs[r].pc = "read" /\ runs[r].read < Len(Reads)
        /\ In(runs[r].todo) \subseteq In(content)
    BY <1>16 DEF ReadNext
  <2>1. runs' = [runs EXCEPT ![r] = AfterRead(NextRead(runs[r]))]
    BY <1>16 DEF ReadNext, NextRead
  <2>2. runs'[r] = AfterRead(NextRead(runs[r])) /\ content' = content
        /\ \A q \in Runners \ {r} : runs'[q] = runs[q]
    BY <1>16, <2>1 DEF ReadNext
  <2>t. runs[r] \in Runs
    OBVIOUS
  <2>n. /\ NextRead(runs[r]) \in Runs /\ NextRead(runs[r]).pc = "read"
        /\ In(NextRead(runs[r]).todo) = In(runs[r].todo)
    BY <2>0, <2>t, NextReadType
  <2>3. runs' \in [Runners -> Runs]
    BY <2>1, <2>n, AfterReadType
  <2>4. PushRoom' /\ ReadRoom'
    BY <2>0, <2>2, <2>n, AfterReadType, NumbersAssumption DEF In
  <2> QED BY <1>16, <2>3, <2>4 DEF ReadNext
<1>5. ASSUME NEW r \in Runners, NEW id \in Requests, NEW c \in Batches, NEW t \in Batches,
             runs[r].pc = "push", Post(r, id, c, t)
      PROVE  TypeInv'
  <2>1. net' \in SUBSET Messages
    BY <1>5 DEF Post, Messages
  <2>2. runs[r].attempt + 1 \in 0..MaxAttempts
    BY <1>5, NumbersAssumption DEF Runs
  <2>3. Posted(runs[r], id, c, t) \in Runs /\ Posted(runs[r], id, c, t).pc = "wait"
    BY <2>2, BatchFacts DEF Posted, Runs, IdleRun
  <2>5. runs' \in [Runners -> Runs] /\ PushRoom' /\ ReadRoom'
    BY <1>5, <2>3 DEF Post
  <2> QED BY <1>5, <2>1, <2>5 DEF Post
<1>6. ASSUME NEW r \in Runners, SendChunk(r) PROVE TypeInv'
  BY <1>5, <1>6, SliceType DEF SendChunk, Runs
<1>7. ASSUME NEW r \in Runners, Resend(r) PROVE TypeInv'
  BY <1>5, <1>7 DEF Resend, Runs
<1>8. ASSUME NEW r \in Runners, NetworkError(r) \/ RetryableReply(r) PROVE TypeInv'
  <2>1. runs' \in [Runners -> Runs] /\ PushRoom' /\ ReadRoom'
    BY <1>8, AfterFailureType DEF NetworkError, RetryableReply
  <2> QED BY <1>8, <2>1 DEF NetworkError, RetryableReply, Abandoned
<1>9. ASSUME NEW r \in Runners, MarkBatchPushed(r) PROVE TypeInv'
  <2>1. runs' \in [Runners -> Runs] /\ PushRoom' /\ ReadRoom'
    BY <1>9, NextChunkType, NumbersAssumption DEF MarkBatchPushed
  <2>2. pushedHash' \in Batches /\ pushedAt' \in [Sessions -> Times]
    BY <1>9 DEF MarkBatchPushed, Runs, Batches
  <2> QED BY <1>9, <2>1, <2>2 DEF MarkBatchPushed
<1>10. ASSUME NEW r \in Runners, PermanentFailure(r) \/ CrashRun(r) PROVE TypeInv'
  <2>1. runs' \in [Runners -> Runs] /\ PushRoom' /\ ReadRoom'
    BY <1>10, BatchFacts DEF PermanentFailure, CrashRun
  <2> QED BY <1>10, <2>1 DEF PermanentFailure, CrashRun, Abandoned
<1>11. ASSUME NEW r \in Runners, EnqueueEntry(r) PROVE TypeInv'
  <2>1. PICK s \in In(runs[r].chunk) :
          /\ queue' = Enqueued(queue, [session |-> s, payload |-> runs[r].chunk[s]])
          /\ runs' = [runs EXCEPT ![r] = AfterEntry(runs[r], s)]
    BY <1>11 DEF EnqueueEntry
  <2>2. [session |-> s, payload |-> runs[r].chunk[s]] \in QueueEntries
    BY DEF In, QueueEntries, Runs, Batches, PayloadOrNone
  <2>3. queue' \in Seq(QueueEntries) /\ Len(queue') <= QueueMax
    BY <2>1, <2>2, NumbersAssumption DEF Enqueued
  <2>4. Without(runs[r].chunk, {s}) \in Batches
    BY SliceType DEF Runs
  <2>5. AfterEntry(runs[r], s) \in Runs /\ AfterEntry(runs[r], s).pc \in {"idle", "enqueue"}
    BY <1>11, <2>4, BatchFacts DEF Runs, AfterEntry, EnqueueEntry
  <2>6. runs' \in [Runners -> Runs] /\ PushRoom' /\ ReadRoom'
    BY <1>11, <2>1, <2>5 DEF EnqueueEntry
  <2> QED BY <1>11, <2>3, <2>6 DEF EnqueueEntry
<1>12. ASSUME NEW m \in net, ServerStep(m) PROVE TypeInv'
  <2>1. CASE Authenticate(m)
    <3>1. net' \in SUBSET Messages
      BY <2>1 DEF Authenticate, Messages
    <3> QED BY <2>1, <3>1, AnswerType DEF Authenticate
  <2>2. CASE ServerError(m)
    BY <2>2, AnswerType DEF ServerError
  <2>3. CASE CommitBatch(m)
    <3>1. server' \in Batches /\ stored' \in [Sessions -> SUBSET Payloads]
      BY <2>3 DEF CommitBatch, Accepted, In, Messages, Batches, PayloadOrNone
    <3> QED BY <2>3, <3>1, AnswerType DEF CommitBatch
  <2>4. CASE LoseRequest(m)
    BY <2>4 DEF LoseRequest
  <2> QED BY <1>12, <2>1, <2>2, <2>3, <2>4 DEF ServerStep
<1>13. CASE RevokeMachine
  BY <1>13 DEF RevokeMachine
<1>14. CASE Tick
  BY <1>14, NumbersAssumption DEF Tick, Times
<1>15. CASE UNCHANGED vars
  BY <1>15 DEF vars
<1> QED
  BY <1>1, <1>2, <1>3, <1>4, <1>6, <1>7, <1>8, <1>9, <1>10, <1>11, <1>12, <1>13,
     <1>14, <1>15, <1>16
  DEF Next, LocalWrite, RunStep, Rate, Evaluate, StampKinds

(* The variables of the pipeline keep their shape: in particular no run ever *)
(* makes more than MaxAttempts attempts on a batch (pushBatch) and the queue *)
(* only holds real payloads.                                                 *)
THEOREM TypeCorrect == Spec => []TypeOK
<1>1. TypeInv => TypeOK
  BY DEF TypeInv
<1> QED BY <1>1, TypeInvInit, TypeInvStep, PTL DEF Spec

-----------------------------------------------------------------------------
(* Acknowledgement means storage.                                            *)

(* Only a waiting run has a request and a reply. *)
WaitOnly ==
  \A r \in Runners : runs[r].pc # "wait" => runs[r].req = None /\ runs[r].reply = "none"

(* A request in flight carries the chunk of the run that waits for it. *)
SameBatch ==
  \A m \in net, r \in Runners : runs[r].req = m.id => m.items = runs[r].chunk

(* What a run has a 2xx reply for is stored. *)
ReplyStored ==
  \A r \in Runners : runs[r].reply = "ok" =>
    \A s \in In(runs[r].chunk) : runs[r].chunk[s] \in stored[s] \cup Refused

MarkInv == TypeInv /\ WaitOnly /\ SameBatch /\ ReplyStored /\ MarkedWasStored

(* The steps after which runner r waits for nothing. *)
Releasing(r) ==
  \/ StartRun(r) \/ ReadNext(r) \/ NetworkError(r) \/ RetryableReply(r)
  \/ MarkBatchPushed(r)
  \/ PermanentFailure(r) \/ EnqueueEntry(r) \/ CrashRun(r)

LEMMA ReleasingStep ==
  ASSUME TypeInv, WaitOnly, NEW r \in Runners, Releasing(r)
  PROVE  /\ net' \subseteq net
         /\ UNCHANGED <<server, stored, content, produced, revoked>>
         /\ \A q \in Runners \ {r} : runs'[q] = runs[q]
         /\ runs'[r].req = None /\ runs'[r].reply = "none"
         /\ runs'[r].pc # "wait"
<1> USE DEF TypeInv, TypeOK, localVars, markVars, serverVars
<1>1. CASE StartRun(r)
  <2>1. runs' = [runs EXCEPT ![r] = AfterRead(FirstRead)]
    BY <1>1 DEF StartRun, FirstRead
  <2> QED BY <1>1, <2>1, FirstReadType, AfterReadType DEF StartRun
<1>6. CASE ReadNext(r)
  <2>1. runs' = [runs EXCEPT ![r] = AfterRead(NextRead(runs[r]))]
    BY <1>6 DEF ReadNext, NextRead
  <2>2. /\ runs[r].pc = "read" /\ runs[r].read < Len(Reads) /\ runs[r] \in Runs
        /\ In(runs[r].todo) \subseteq In(content)
    BY <1>6 DEF ReadNext, ReadRoom
  <2>3. /\ NextRead(runs[r]) \in Runs /\ NextRead(runs[r]).pc = "read"
        /\ NextRead(runs[r]).req = None /\ NextRead(runs[r]).reply = "none"
    BY <2>2, NextReadType DEF WaitOnly
  <2> QED BY <1>6, <2>1, <2>3, AfterReadType DEF ReadNext
<1>2. CASE NetworkError(r) \/ RetryableReply(r)
  BY <1>2, AfterFailureType DEF NetworkError, RetryableReply, Abandoned
<1>3. CASE MarkBatchPushed(r)
  BY <1>3, NextChunkType DEF MarkBatchPushed
<1>4. CASE PermanentFailure(r) \/ CrashRun(r)
  BY <1>4, BatchFacts DEF PermanentFailure, CrashRun, Abandoned
<1>5. CASE EnqueueEntry(r)
  <2>1. PICK s \in In(runs[r].chunk) : runs' = [runs EXCEPT ![r] = AfterEntry(runs[r], s)]
    BY <1>5 DEF EnqueueEntry
  <2>2. runs[r].req = None /\ runs[r].reply = "none" /\ runs[r].pc = "enqueue"
    BY <1>5 DEF EnqueueEntry, WaitOnly
  <2>3. runs[r] \in Runs
    OBVIOUS
  <2>4. /\ AfterEntry(runs[r], s).req = None /\ AfterEntry(runs[r], s).reply = "none"
        /\ AfterEntry(runs[r], s).pc # "wait"
    BY <2>2, <2>3, BatchFacts DEF AfterEntry, Runs
  <2> QED BY <1>5, <2>1, <2>4 DEF EnqueueEntry
<1> QED BY <1>1, <1>2, <1>3, <1>4, <1>5, <1>6 DEF Releasing

(* What a run holds after a SELECT: its chunk is as it was or empty, and the *)
(* sessions left in its batch have each part as it was or as the database    *)
(* now gives it.                                                             *)
LEMMA ReadHolds ==
  ASSUME TypeInv, NEW r \in Runners, StartRun(r) \/ ReadNext(r)
  PROVE  /\ runs'[r].chunk \in {runs[r].chunk, NoPayload}
         /\ runs'[r].pc \in {"idle", "read", "push"}
         /\ runs'[r].pc = "idle" => runs'[r] = IdleRun
         /\ runs'[r].pc = "push" =>
              \A s \in In(runs'[r].todo) : runs'[r].todo[s] \notin Unsanitizable
         /\ \A s \in In(runs'[r].todo) :
              \/ StartRun(r) /\ content[s] # None /\ runs'[r].todo[s] = content[s]
              \/ /\ ReadNext(r) /\ s \in In(runs[r].todo) /\ s \in In(content)
                 /\ \A k \in Parts :
                      runs'[r].todo[s][k] \in {runs[r].todo[s][k], content[s][k]}
<1> USE DEF TypeInv, TypeOK
<1>1. CASE StartRun(r)
  <2>1. runs'[r] = AfterRead(FirstRead)
    BY <1>1 DEF StartRun, FirstRead
  <2>2. \A s \in In(FirstRead.todo) : content[s] # None /\ FirstRead.todo[s] = content[s]
    BY FirstReadType DEF In
  <2>3. /\ FirstRead \in Runs /\ FirstRead.pc = "read" /\ FirstRead.chunk = NoPayload
    BY FirstReadType
  <2>4. /\ AfterRead(FirstRead).chunk = NoPayload
        /\ \A s \in In(AfterRead(FirstRead).todo) :
             s \in In(FirstRead.todo) /\ AfterRead(FirstRead).todo[s] = FirstRead.todo[s]
        /\ AfterRead(FirstRead).pc = "push" =>
             \A s \in In(AfterRead(FirstRead).todo) :
               AfterRead(FirstRead).todo[s] \notin Unsanitizable
        /\ AfterRead(FirstRead).pc \in {"idle", "read", "push"}
        /\ AfterRead(FirstRead).pc = "idle" => AfterRead(FirstRead) = IdleRun
    BY <2>3, AfterReadType
  <2> QED BY <1>1, <2>1, <2>2, <2>4
<1>2. CASE ReadNext(r)
  <2>1. runs'[r] = AfterRead(NextRead(runs[r]))
    BY <1>2 DEF ReadNext, NextRead
  <2>2. /\ runs[r].pc = "read" /\ runs[r].read < Len(Reads) /\ runs[r] \in Runs
        /\ In(runs[r].todo) \subseteq In(content)
    BY <1>2 DEF ReadNext, ReadRoom
  <2>3. /\ NextRead(runs[r]) \in Runs /\ NextRead(runs[r]).pc = "read"
        /\ NextRead(runs[r]).chunk = runs[r].chunk
        /\ In(NextRead(runs[r]).todo) = In(runs[r].todo)
        /\ \A s \in In(runs[r].todo), k \in Parts :
             NextRead(runs[r]).todo[s][k] \in {runs[r].todo[s][k], content[s][k]}
    BY <2>2, NextReadType
  <2>4. /\ AfterRead(NextRead(runs[r])).chunk \in {runs[r].chunk, NoPayload}
        /\ In(AfterRead(NextRead(runs[r])).todo) \subseteq In(runs[r].todo)
        /\ \A s \in In(AfterRead(NextRead(runs[r])).todo) :
             AfterRead(NextRead(runs[r])).todo[s] = NextRead(runs[r]).todo[s]
    BY <2>3, AfterReadType
  <2>5. \A s \in In(runs'[r].todo) :
          /\ s \in In(runs[r].todo) /\ s \in In(content)
          /\ \A k \in Parts :
               runs'[r].todo[s][k] \in {runs[r].todo[s][k], content[s][k]}
    BY <2>1, <2>2, <2>3, <2>4
  <2> QED BY <1>2, <2>1, <2>3, <2>4, <2>5, AfterReadType
<1> QED BY <1>1, <1>2

LEMMA MarkInvStep == MarkInv /\ [Next]_vars => MarkInv'
<1> SUFFICES ASSUME MarkInv, [Next]_vars PROVE MarkInv'
  OBVIOUS
<1>0. TypeInv'
  BY TypeInvStep DEF MarkInv
<1> USE DEF MarkInv
<1>1. ASSUME UNCHANGED <<runs, net, stored, pushedHash>> PROVE MarkInv'
  BY <1>0, <1>1 DEF WaitOnly, SameBatch, ReplyStored, MarkedWasStored
<1>2. ASSUME NEW r \in Runners, Releasing(r) PROVE MarkInv'
  <2>0. /\ net' \subseteq net /\ UNCHANGED stored
        /\ \A q \in Runners \ {r} : runs'[q] = runs[q]
        /\ runs'[r].req = None /\ runs'[r].reply = "none"
    BY <1>2, ReleasingStep
  <2>a. \A m \in net : m.id # None
    BY SetsAssumption DEF TypeInv, TypeOK, Messages
  <2>1. WaitOnly' /\ SameBatch' /\ ReplyStored'
    BY <2>0, <2>a DEF WaitOnly, SameBatch, ReplyStored
  <2>2. MarkedWasStored'
    <3>1. CASE MarkBatchPushed(r)
      BY <3>1 DEF MarkBatchPushed, MarkedWasStored, ReplyStored, serverVars
    <3>2. CASE ~MarkBatchPushed(r)
      BY <1>2, <3>2 DEF Releasing, StartRun, ReadNext, NetworkError, RetryableReply,
        PermanentFailure, EnqueueEntry, CrashRun, MarkedWasStored, markVars, serverVars
    <3> QED BY <3>1, <3>2
  <2> QED BY <1>0, <2>1, <2>2
<1>3. ASSUME NEW r \in Runners, NEW id \in Requests \ InUse, NEW c, NEW t, Post(r, id, c, t)
      PROVE  MarkInv'
  <2>1. /\ runs'[r].pc = "wait" /\ runs'[r].chunk = c /\ runs'[r].req = id
        /\ runs'[r].reply = "none"
        /\ \A q \in Runners \ {r} : runs'[q] = runs[q] /\ runs[q].req # id
        /\ \A m \in net : m.id # id
    BY <1>3, PostedType DEF Post, InUse, TypeInv, TypeOK
  <2>2. WaitOnly' /\ SameBatch' /\ ReplyStored'
    BY <1>3, <2>1 DEF Post, WaitOnly, SameBatch, ReplyStored, serverVars
  <2>3. MarkedWasStored'
    BY <1>3 DEF Post, MarkedWasStored, markVars, serverVars
  <2> QED BY <1>0, <2>2, <2>3
<1>4. ASSUME NEW m \in net, ServerStep(m) PROVE MarkInv'
  <2> USE DEF TypeInv, TypeOK
  <2>0. m.id # None
    BY SetsAssumption DEF Messages
  <2>1. CASE Authenticate(m)
    <3>1. CASE revoked
      <4>1. /\ net' = net \ {m} /\ Answer(m, "permanent")
            /\ UNCHANGED <<stored, pushedHash>>
        BY <2>1, <3>1 DEF Authenticate, markVars, serverVars
      <4>2. WaitOnly' /\ SameBatch'
        BY <4>1, <2>0, AnswerType DEF Answer, WaitOnly, SameBatch
      <4>3. ReplyStored'
        BY <4>1, AnswerType DEF Answer, ReplyStored
      <4> QED BY <1>0, <4>1, <4>2, <4>3 DEF MarkedWasStored
    <3>2. CASE ~revoked
      <4>1. /\ net' = (net \ {m}) \cup {[m EXCEPT !.stage = "authed"]}
            /\ UNCHANGED <<runs, stored, pushedHash>>
        BY <2>1, <3>2 DEF Authenticate, markVars, serverVars
      <4>2. [m EXCEPT !.stage = "authed"].id = m.id
            /\ [m EXCEPT !.stage = "authed"].items = m.items
        BY DEF Messages
      <4>3. WaitOnly' /\ SameBatch' /\ ReplyStored'
        BY <4>1, <4>2 DEF WaitOnly, SameBatch, ReplyStored
      <4> QED BY <1>0, <4>1, <4>3 DEF MarkedWasStored
    <3> QED BY <3>1, <3>2
  <2>2. CASE ServerError(m)
    BY <1>0, <2>2, <2>0, AnswerType
    DEF ServerError, Answer, WaitOnly, SameBatch, ReplyStored, MarkedWasStored,
        markVars, serverVars
  <2>3. CASE CommitBatch(m)
    <3>1. \A s \in Sessions : stored[s] \subseteq stored'[s]
      BY <2>3 DEF CommitBatch
    <3>2. \A s \in In(m.items) : m.items[s] \in stored'[s] \cup Refused
      BY <2>3 DEF CommitBatch, Accepted, In
    <3>3. WaitOnly' /\ SameBatch'
      BY <2>3, <2>0, AnswerType DEF CommitBatch, Answer, WaitOnly, SameBatch
    <3>4. ReplyStored'
      <4> SUFFICES ASSUME NEW r \in Runners, runs'[r].reply = "ok", 
NEW s \in Sessions, runs'[r].chunk[s] # None
                   PROVE  runs'[r].chunk[s] \in stored'[s] \cup Refused
        BY DEF ReplyStored, In
      <4>1. runs'[r].chunk = runs[r].chunk
        BY <2>3, AnswerType DEF CommitBatch
      <4>2. CASE runs[r].req = m.id
        BY <3>2, <4>1, <4>2 DEF SameBatch, In
      <4>3. CASE runs[r].req # m.id
        <5>1. runs[r].reply = "ok"
          BY <2>3, <4>3 DEF CommitBatch, Answer
        <5> QED BY <5>1, <4>1, <3>1 DEF ReplyStored, In
      <4> QED BY <4>2, <4>3
    <3>5. MarkedWasStored'
      BY <2>3, <3>1 DEF CommitBatch, MarkedWasStored, markVars
    <3> QED BY <1>0, <3>3, <3>4, <3>5
  <2>4. CASE LoseRequest(m)
    BY <1>0, <2>4 DEF LoseRequest, WaitOnly, SameBatch, ReplyStored, MarkedWasStored,
      markVars, serverVars
  <2> QED BY <1>4, <2>1, <2>2, <2>3, <2>4 DEF ServerStep
<1>5. CASE LocalWrite \/ RevokeMachine \/ Tick \/ UNCHANGED vars
  BY <1>1, <1>5 DEF LocalWrite, Ingest, Rate, Evaluate, StampedWrite, OtelUpdate,
    RevokeMachine, Tick, vars, markVars, serverVars
<1>6. ASSUME NEW r \in Runners, SendChunk(r) \/ Resend(r) PROVE MarkInv'
  BY <1>3, <1>6 DEF SendChunk, Resend
<1> QED BY <1>2, <1>4, <1>5, <1>6 DEF Next, RunStep, Releasing

LEMMA MarkInvInit == Init => MarkInv
<1> SUFFICES ASSUME Init PROVE MarkInv
  OBVIOUS
<1>1. WaitOnly /\ SameBatch /\ ReplyStored
  BY BatchFacts DEF Init, WaitOnly, SameBatch, ReplyStored
<1>2. MarkedWasStored
  BY DEF Init, MarkedWasStored, NoPayload
<1> QED BY <1>1, <1>2, TypeInvInit DEF MarkInv

(* reporter_pushed_sessions never records a hash the server has not stored,  *)
(* whatever is lost, delayed, retried or killed, with any number of          *)
(* overlapping runs; a refused item is the one exception.                    *)
THEOREM MarkedWasStoredAlways == Spec => []MarkedWasStored
<1>1. MarkInv => MarkedWasStored
  BY DEF MarkInv
<1> QED BY <1>1, MarkInvInit, MarkInvStep, PTL DEF Spec

-----------------------------------------------------------------------------
(* The pipeline implements PushContract.                                     *)

(* A batch of aggregates whose every part the database had. *)
Genuine(b) == \A s \in In(b) : Contract!Genuine(s, b[s])

(* A batch the sanitizer let through. *)
Clean(b) == \A s \in In(b) : b[s] \notin Unsanitizable

(* Whatever is in a run's hands or in flight is genuine, and sanitized once  *)
(* the run has read it all.                                                  *)
Provenance ==
  /\ \A s \in In(content) : content[s] \in produced[s]
  /\ \A r \in Runners : /\ Genuine(runs[r].todo) /\ Genuine(runs[r].chunk)
                        /\ runs[r].pc # "read" => Clean(runs[r].todo)
                        /\ Clean(runs[r].chunk)
  /\ \A m \in net : Genuine(m.items) /\ Clean(m.items)

ContractInv == MarkInv /\ Provenance

LEMMA EmptyGenuine == Genuine(NoPayload) /\ Clean(NoPayload)
BY DEF Genuine, Clean, In, NoPayload

LEMMA SliceGenuine ==
  ASSUME NEW b \in Batches, NEW C, Genuine(b), Clean(b)
  PROVE  /\ Genuine(Slice(b, C)) /\ Genuine(Without(b, C))
         /\ Clean(Slice(b, C)) /\ Clean(Without(b, C))
BY DEF Genuine, Clean, In, Slice, Without

(* The steps of a run that post nothing leave only genuine batches. *)
LEMMA ReleasingProvenance ==
  ASSUME ContractInv, NEW r \in Runners, Releasing(r)
  PROVE  Provenance'
<1> USE DEF ContractInv, MarkInv
<1>0. /\ net' \subseteq net /\ UNCHANGED <<content, produced>>
      /\ \A q \in Runners \ {r} : runs'[q] = runs[q]
  BY ReleasingStep
<1>1. runs \in [Runners -> Runs] /\ runs[r].todo \in Batches /\ runs[r].chunk \in Batches
  BY DEF TypeInv, TypeOK, Runs
<1>2. /\ Genuine(runs'[r].todo) /\ Genuine(runs'[r].chunk)
      /\ runs'[r].pc # "read" => Clean(runs'[r].todo)
      /\ Clean(runs'[r].chunk)
  <2>1. CASE StartRun(r) \/ ReadNext(r)
    <3>1. runs'[r].chunk \in {runs[r].chunk, NoPayload}
      BY <2>1, ReadHolds
    <3>2. Genuine(runs'[r].todo)
      <4> SUFFICES ASSUME NEW s \in In(runs'[r].todo)
                   PROVE  Contract!Genuine(s, runs'[r].todo[s])
        BY DEF Genuine
      <4>1. s \in Sessions /\ runs' \in [Runners -> Runs]
        BY <2>1, TypeInvStep DEF In, Next, RunStep, TypeInv, TypeOK
      <4>2. runs'[r].todo[s] \in [Parts -> Values]
        BY <4>1 DEF In, Runs, Batches, PayloadOrNone, Payloads
      <4>3. CASE content[s] # None /\ runs'[r].todo[s] = content[s]
        BY <4>1, <4>3 DEF Provenance, In, Contract!Genuine
      <4>4. CASE /\ s \in In(runs[r].todo) /\ s \in In(content)
                 /\ \A k \in Parts :
                      runs'[r].todo[s][k] \in {runs[r].todo[s][k], content[s][k]}
        <5>1. runs[r].todo[s] \in [Parts -> Values]
          BY <4>4, <1>1 DEF In, Batches, PayloadOrNone, Payloads
        <5>2. Contract!Genuine(s, runs[r].todo[s]) /\ content[s] \in produced[s]
          BY <4>4 DEF Provenance, Genuine
        <5> QED BY <4>2, <4>4, <5>1, <5>2 DEF Contract!Genuine
      <4> QED BY <2>1, <4>3, <4>4, ReadHolds
    <3>3. runs'[r].pc # "read" => Clean(runs'[r].todo)
      <4>1. runs'[r].pc \in {"idle", "read", "push"}
        BY <2>1, ReadHolds
      <4>2. CASE runs'[r].pc = "idle"
        <5>1. runs'[r] = IdleRun
          BY <2>1, <4>2, ReadHolds
        <5> QED BY <5>1, BatchFacts, EmptyGenuine
      <4>3. CASE runs'[r].pc = "push"
        BY <2>1, <4>3, ReadHolds DEF Clean
      <4> QED BY <4>1, <4>2, <4>3
    <3> QED BY <3>1, <3>2, <3>3, EmptyGenuine DEF Provenance
  <2>2. CASE NetworkError(r) \/ RetryableReply(r)
    BY <2>2, <1>1, AfterFailureType DEF NetworkError, RetryableReply, Provenance
  <2>3. CASE MarkBatchPushed(r)
    <3>1. runs'[r] = NextChunk(runs[r]) /\ runs[r].pc # "read"
      BY <2>3, <1>1 DEF MarkBatchPushed
    <3> QED BY <3>1, <1>1, NextChunkType, EmptyGenuine DEF Provenance
  <2>4. CASE PermanentFailure(r) \/ CrashRun(r)
    <3>1. runs'[r] = IdleRun
      BY <2>4, <1>1 DEF PermanentFailure, CrashRun
    <3> QED BY <3>1, BatchFacts, EmptyGenuine
  <2>5. CASE EnqueueEntry(r)
    <3>1. PICK s \in In(runs[r].chunk) : runs' = [runs EXCEPT ![r] = AfterEntry(runs[r], s)]
      BY <2>5 DEF EnqueueEntry
    <3>2. CASE In(runs[r].chunk) = {s}
      <4>1. runs'[r] = IdleRun
        BY <3>1, <3>2, <1>1 DEF AfterEntry
      <4> QED BY <4>1, BatchFacts, EmptyGenuine
    <3>3. CASE In(runs[r].chunk) # {s}
      <4>1. /\ runs'[r].todo = runs[r].todo /\ runs[r].pc # "read"
            /\ runs'[r].chunk = Without(runs[r].chunk, {s})
        BY <2>5, <3>1, <3>3, <1>1 DEF AfterEntry, Runs, EnqueueEntry
      <4> QED BY <4>1, <1>1, SliceGenuine DEF Provenance
    <3> QED BY <3>2, <3>3
  <2> QED BY <2>1, <2>2, <2>3, <2>4, <2>5 DEF Releasing
<1>4. \A q \in Runners : /\ Genuine(runs'[q].todo) /\ Genuine(runs'[q].chunk)
                         /\ runs'[q].pc # "read" => Clean(runs'[q].todo)
                         /\ Clean(runs'[q].chunk)
  BY <1>0, <1>2 DEF Provenance
<1> QED BY <1>0, <1>4 DEF Provenance, Genuine, Clean, In, Contract!Genuine

LEMMA ContractInvStep == ContractInv /\ [Next]_vars => ContractInv'
<1> SUFFICES ASSUME ContractInv, [Next]_vars PROVE ContractInv'
  OBVIOUS
<1>0. MarkInv'
  BY MarkInvStep DEF ContractInv
<1> USE DEF ContractInv
<1>t. /\ runs \in [Runners -> Runs]
      /\ \A r \in Runners : runs[r].todo \in Batches /\ runs[r].chunk \in Batches
      /\ net \in SUBSET Messages
      /\ content \in Batches /\ produced \in [Sessions -> SUBSET Payloads]
  BY DEF MarkInv, TypeInv, TypeOK, Runs
<1>1. ASSUME NEW s \in Sessions, NEW p \in Payloads, SetContent(s, p),
             UNCHANGED <<runs, net>>
      PROVE  Provenance'
  <2>1. \A t \in Sessions : produced[t] \subseteq produced'[t]
    BY <1>1, <1>t DEF SetContent
  <2>2. \A t \in In(content') : content'[t] \in produced'[t]
    BY <1>1, <1>t DEF SetContent, In, Provenance, Batches
  <2>3. \A t \in Sessions : \A q : Contract!Genuine(t, q) => Contract!Genuine(t, q)'
    BY <2>1 DEF Contract!Genuine
  <2> QED BY <1>1, <2>2, <2>3 DEF Provenance, Genuine, Clean, In
<1>2. ASSUME LocalWrite PROVE ContractInv'
  <2>1. PICK s \in Sessions, p \in Payloads :
          Ingest(s, p) \/ Rate(s, p) \/ Evaluate(s, p) \/ OtelUpdate(s, p)
    BY <1>2 DEF LocalWrite
  <2>2. SetContent(s, p) /\ UNCHANGED <<runs, net>>
    BY <2>1 DEF Ingest, Rate, Evaluate, StampedWrite, OtelUpdate
  <2> QED BY <1>0, <1>1, <2>2
<1>3. ASSUME NEW r \in Runners, Releasing(r) PROVE ContractInv'
  BY <1>0, <1>3, ReleasingProvenance
<1>4. ASSUME NEW r \in Runners, NEW id, NEW c \in Batches, NEW t \in Batches,
             Post(r, id, c, t), Genuine(c), Genuine(t), Clean(c), Clean(t)
      PROVE  ContractInv'
  <2>1. /\ runs'[r].chunk = c /\ runs'[r].todo = t
        /\ \A q \in Runners \ {r} : runs'[q] = runs[q]
        /\ net' = net \cup {[id |-> id, items |-> c, stage |-> "sent"]}
        /\ UNCHANGED <<content, produced>>
    BY <1>4, <1>t, PostedType DEF Post, localVars
  <2>2. \A m \in net' : Genuine(m.items) /\ Clean(m.items)
    BY <1>4, <2>1 DEF Provenance
  <2>3. \A q \in Runners : /\ Genuine(runs'[q].todo) /\ Genuine(runs'[q].chunk)
                           /\ runs'[q].pc # "read" => Clean(runs'[q].todo)
                           /\ Clean(runs'[q].chunk)
    BY <1>4, <2>1 DEF Provenance
  <2> QED BY <1>0, <2>1, <2>2, <2>3 DEF Provenance, Genuine, Clean, In, Contract!Genuine
<1>5. ASSUME NEW r \in Runners, SendChunk(r) PROVE ContractInv'
  <2>1. PICK C \in Chunks(runs[r].todo), id \in Requests \ InUse :
          Post(r, id, Slice(runs[r].todo, C), Without(runs[r].todo, C))
    BY <1>5 DEF SendChunk
  <2>2. /\ Slice(runs[r].todo, C) \in Batches /\ Without(runs[r].todo, C) \in Batches
        /\ Genuine(Slice(runs[r].todo, C)) /\ Genuine(Without(runs[r].todo, C))
        /\ Clean(Slice(runs[r].todo, C)) /\ Clean(Without(runs[r].todo, C))
    BY <1>5, <1>t, SliceType, SliceGenuine DEF Provenance, SendChunk
  <2> QED BY <1>4, <2>1, <2>2
<1>6. ASSUME NEW r \in Runners, Resend(r) PROVE ContractInv'
  <2>1. PICK id \in Requests \ InUse : Post(r, id, runs[r].chunk, runs[r].todo)
    BY <1>6 DEF Resend
  <2>2. runs[r].pc # "read"
    BY <1>6 DEF Resend
  <2> QED BY <1>4, <2>1, <2>2, <1>t DEF Provenance
<1>7. ASSUME NEW m \in net, ServerStep(m) PROVE ContractInv'
  <2>1. UNCHANGED <<content, produced>>
    BY <1>7 DEF ServerStep, Authenticate, ServerError, CommitBatch, LoseRequest, localVars
  <2>2. \A q \in Runners : /\ runs'[q].todo = runs[q].todo
                           /\ runs'[q].chunk = runs[q].chunk /\ runs'[q].pc = runs[q].pc
    BY <1>7, <1>t, AnswerType
    DEF ServerStep, Authenticate, ServerError, CommitBatch, LoseRequest
  <2>3. \A k \in net' : \E n \in net : k.items = n.items
    <3>1. CASE Authenticate(m)
      <4>1. [m EXCEPT !.stage = "authed"].items = m.items
        BY <1>t DEF Messages
      <4> QED BY <3>1, <4>1 DEF Authenticate
    <3>2. CASE ServerError(m) \/ CommitBatch(m) \/ LoseRequest(m)
      BY <3>2 DEF ServerError, CommitBatch, LoseRequest
    <3> QED BY <1>7, <3>1, <3>2 DEF ServerStep
  <2> QED BY <1>0, <2>1, <2>2, <2>3 DEF Provenance, Genuine, Clean, In, Contract!Genuine
<1>8. ASSUME RevokeMachine \/ Tick \/ UNCHANGED vars PROVE ContractInv'
  BY <1>0, <1>8 DEF RevokeMachine, Tick, vars, localVars, Provenance, Genuine, Clean,
    In, Contract!Genuine
<1> QED BY <1>2, <1>3, <1>5, <1>6, <1>7, <1>8 DEF Next, RunStep, Releasing

(* What a batch holds for some of its sessions is a set of items. *)
LEMMA ItemsOfBatch ==
  ASSUME NEW b \in Batches, NEW S \in SUBSET In(b)
  PROVE  [s \in S |-> b[s]] \in Contract!Items
<1>1. S \in SUBSET Sessions
  BY DEF In
<1>2. [s \in S |-> b[s]] \in [S -> Payloads]
  BY <1>1 DEF In, Batches, PayloadOrNone
<1> QED BY <1>1, <1>2 DEF Contract!Items

(* A step of the pipeline is a step of the contract or leaves it alone. *)
LEMMA ContractStep ==
  ContractInv /\ ContractInv' /\ [Next]_vars => [Contract!Next]_(Contract!contractVars)
<1> SUFFICES ASSUME ContractInv, [Next]_vars
             PROVE  Contract!Next \/ UNCHANGED Contract!contractVars
  BY DEF Contract!contractVars
<1> USE DEF Contract!contractVars, markVars, serverVars, localVars
<1>t. /\ runs \in [Runners -> Runs]
      /\ \A r \in Runners : runs[r].chunk \in Batches
      /\ \A m \in net : m.items \in Batches
      /\ content \in Batches /\ pushedHash \in Batches /\ server \in Batches
      /\ produced \in [Sessions -> SUBSET Payloads]
      /\ stored \in [Sessions -> SUBSET Payloads]
  BY DEF ContractInv, MarkInv, TypeInv, TypeOK, Runs, Messages
<1>1. ASSUME LocalWrite PROVE Contract!Next
  <2>1. PICK s \in Sessions, p \in Payloads :
          Ingest(s, p) \/ Rate(s, p) \/ Evaluate(s, p) \/ OtelUpdate(s, p)
    BY <1>1 DEF LocalWrite
  <2>2. Contract!Edit(s, p)
    BY <2>1, <1>t DEF Ingest, Rate, Evaluate, StampedWrite, OtelUpdate, SetContent,
      Contract!Edit
  <2> QED BY <2>2 DEF Contract!Next
<1>2. ASSUME NEW r \in Runners, MarkBatchPushed(r) PROVE Contract!Next
  <2> DEFINE items == [s \in In(runs[r].chunk) |-> runs[r].chunk[s]]
  <2>1. items \in Contract!Items
    BY <1>t, ItemsOfBatch DEF In
  <2>2. \A s \in DOMAIN items :
          \/ items[s] \in stored[s]
          \/ items[s] \in Refused /\ Contract!Genuine(s, items[s])
    BY <1>2 DEF MarkBatchPushed, ContractInv, MarkInv, ReplyStored, Provenance, Genuine
  <2>3. Contract!Acknowledge(items)
    BY <1>2, <1>t, <2>2 DEF MarkBatchPushed, Contract!Acknowledge, In
  <2> QED BY <2>1, <2>3 DEF Contract!Next
<1>3. ASSUME NEW m \in net, CommitBatch(m) PROVE Contract!Next
  <2> DEFINE items == [s \in Accepted(m) |-> m.items[s]]
  <2>1. items \in Contract!Items
    BY <1>t, ItemsOfBatch DEF Accepted, In
  <2>2. \A s \in DOMAIN items : Contract!Deliverable(s, items[s])
    <3>1. \A s \in In(m.items) : /\ Contract!Genuine(s, m.items[s])
                                 /\ m.items[s] \notin Unsanitizable
      BY DEF ContractInv, Provenance, Genuine, Clean
    <3> QED BY <3>1 DEF Contract!Deliverable, Accepted
  <2>3. Contract!Deliver(items)
    BY <1>3, <1>t, <2>2 DEF CommitBatch, Contract!Deliver
  <2> QED BY <2>1, <2>3 DEF Contract!Next
<1>4. ASSUME NEW r \in Runners, RunStep(r), ~MarkBatchPushed(r)
      PROVE  UNCHANGED Contract!contractVars
  <2>1. CASE StartRun(r) \/ ReadNext(r) \/ NetworkError(r) \/ RetryableReply(r)
    BY <2>1 DEF StartRun, ReadNext, NetworkError, RetryableReply
  <2>2. CASE SendChunk(r) \/ Resend(r)
    BY <2>2 DEF SendChunk, Resend, Post
  <2>3. CASE PermanentFailure(r) \/ CrashRun(r) \/ EnqueueEntry(r)
    BY <2>3 DEF PermanentFailure, CrashRun, EnqueueEntry
  <2> QED BY <1>4, <2>1, <2>2, <2>3 DEF RunStep
<1>5. ASSUME NEW m \in net, ServerStep(m), ~CommitBatch(m)
      PROVE  UNCHANGED Contract!contractVars
  BY <1>5 DEF ServerStep, Authenticate, ServerError, LoseRequest
<1>6. ASSUME RevokeMachine \/ Tick \/ UNCHANGED vars
      PROVE  UNCHANGED Contract!contractVars
  BY <1>6 DEF RevokeMachine, Tick, vars
<1> QED BY <1>1, <1>2, <1>3, <1>4, <1>5, <1>6 DEF Next

(* The pipeline implements its contract: however runs overlap, die and are   *)
(* retried, and whatever commits between their SELECTs, every part of what   *)
(* the server stores was once that part of the local aggregate, the whole is *)
(* sanitized, and what is recorded as pushed was stored or refused.          *)
THEOREM ContractImplemented == Spec => ImplementsContract
<1>1. Init => ContractInv
  <2> SUFFICES ASSUME Init PROVE ContractInv
    OBVIOUS
  <2>1. MarkInv
    BY MarkInvInit
  <2>2. Provenance
    BY BatchFacts, EmptyGenuine DEF Init, Provenance, In, NoPayload
  <2> QED BY <2>1, <2>2 DEF ContractInv
<1>2. Init => Contract!Init
  BY DEF Init, Contract!Init, NoPayload
<1> QED BY <1>1, <1>2, ContractInvStep, ContractStep, PTL
  DEF Spec, ImplementsContract, Contract!Spec

-----------------------------------------------------------------------------
(* A revoked key.                                                            *)

(* Once the machine is revoked no further request passes authentication:     *)
(* what may still commit was authenticated before (the lookup in             *)
(* user_machines of the ingest route).                                       *)
THEOREM RevocationDrains == Spec => RevokedOnlyDrains
<1>1. ASSUME MarkInv, [Next]_vars, revoked
      PROVE  AuthedRequests' \subseteq AuthedRequests
  <2>1. CASE \E r \in Runners : Releasing(r)
    BY <1>1, <2>1, ReleasingStep DEF MarkInv, AuthedRequests
  <2>2. CASE \E r \in Runners : SendChunk(r) \/ Resend(r)
    BY <2>2 DEF SendChunk, Resend, Post, AuthedRequests
  <2>3. CASE \E m \in net : ServerStep(m)
    BY <1>1, <2>3 DEF ServerStep, Authenticate, ServerError, CommitBatch, LoseRequest,
      AuthedRequests
  <2>4. CASE LocalWrite \/ RevokeMachine \/ Tick \/ UNCHANGED vars
    BY <2>4 DEF LocalWrite, Ingest, Rate, Evaluate, StampedWrite, OtelUpdate,
      RevokeMachine, Tick, vars, AuthedRequests
  <2> QED BY <1>1, <2>1, <2>2, <2>3, <2>4 DEF Next, RunStep, Releasing
<1>2. MarkInv /\ [Next]_vars => [revoked => AuthedRequests' \subseteq AuthedRequests]_vars
  BY <1>1
<1> QED BY <1>2, MarkInvInit, MarkInvStep, PTL DEF Spec, RevokedOnlyDrains

-----------------------------------------------------------------------------
(* No lost update, with writers that keep away from the runs.                *)

(* A batch of present aggregates. *)
Present(b) == \A s \in In(b) : b[s] = content[s]

(* What a run holds is what the database still has. *)
HeldPresent == \A r \in Runners : Present(runs[r].todo) /\ Present(runs[r].chunk)

(* An idle run holds nothing. *)
IdleEmpty ==
  \A r \in Runners : runs[r].pc = "idle" =>
    runs[r].todo = NoPayload /\ runs[r].chunk = NoPayload

(* A session that changed since its last mark was stamped since. *)
ChangeStamped ==
  \A s \in Sessions : content[s] # pushedHash[s] =>
    /\ content[s] # None
    /\ pushedHash[s] = None \/ \E k \in StampKinds : stamp[s][k] > pushedAt[s]

(* What is on its way to the server, or stored there, is whole. *)
WholeBatch(b) == \A s \in In(b) : b[s] \in produced[s]

InFlightWhole ==
  /\ \A s \in In(content) : content[s] \in produced[s]
  /\ \A m \in net : WholeBatch(m.items)

HoldInv == MarkInv /\ HeldPresent /\ IdleEmpty /\ InFlightWhole /\ StoresWhole

QuietInv == HoldInv /\ ChangeStamped

LEMMA SlicePresent ==
  ASSUME NEW b \in Batches, NEW C, Present(b)
  PROVE  Present(Slice(b, C)) /\ Present(Without(b, C))
BY DEF Present, In, Slice, Without

LEMMA EmptyPresent == Present(NoPayload)
BY DEF Present, In, NoPayload

(* What a run holds after a step that posts nothing, it held before, or it   *)
(* has just read it.                                                         *)
LEMMA ReleasingHolds ==
  ASSUME MarkInv, HeldPresent, NEW r \in Runners, Releasing(r)
  PROVE  /\ Present(runs'[r].todo) /\ Present(runs'[r].chunk)
         /\ runs'[r].pc = "idle" => runs'[r].todo = NoPayload /\ runs'[r].chunk = NoPayload
<1> USE DEF MarkInv
<1>1. runs \in [Runners -> Runs] /\ runs[r].todo \in Batches /\ runs[r].chunk \in Batches
  BY DEF TypeInv, TypeOK, Runs
<1>2. CASE StartRun(r) \/ ReadNext(r)
  <2>1. Present(runs'[r].todo)
    <3> SUFFICES ASSUME NEW s \in In(runs'[r].todo)
                 PROVE  runs'[r].todo[s] = content[s]
      BY DEF Present
    <3>1. CASE runs'[r].todo[s] = content[s]
      BY <3>1
    <3>2. CASE /\ s \in In(runs[r].todo) /\ s \in In(content)
               /\ \A k \in Parts :
                    runs'[r].todo[s][k] \in {runs[r].todo[s][k], content[s][k]}
      <4>1. runs[r].todo[s] = content[s]
        BY <3>2 DEF HeldPresent, Present
      <4>2. \A k \in Parts : runs'[r].todo[s][k] = content[s][k]
        BY <3>2, <4>1
      <4>3. s \in Sessions /\ runs' \in [Runners -> Runs] /\ content \in Batches
        BY <1>2, TypeInvStep DEF In, Next, RunStep, TypeInv, TypeOK
      <4>4. runs'[r].todo[s] \in [Parts -> Values] /\ content[s] \in [Parts -> Values]
        BY <3>2, <4>3 DEF In, Runs, Batches, PayloadOrNone, Payloads
      <4> QED BY <4>2, <4>4
    <3> QED BY <1>2, <3>1, <3>2, ReadHolds
  <2>2. Present(runs'[r].chunk)
    BY <1>2, ReadHolds, EmptyPresent DEF HeldPresent
  <2>3. runs'[r].pc = "idle" => runs'[r] = IdleRun
    BY <1>2, ReadHolds
  <2> QED BY <2>1, <2>2, <2>3, BatchFacts
<1>3. CASE NetworkError(r) \/ RetryableReply(r)
  BY <1>3, <1>1, AfterFailureType DEF NetworkError, RetryableReply, HeldPresent
<1>4. CASE MarkBatchPushed(r)
  <2>1. runs'[r] = NextChunk(runs[r])
    BY <1>4, <1>1 DEF MarkBatchPushed
  <2> QED BY <2>1, <1>1, NextChunkType, BatchFacts, EmptyPresent DEF HeldPresent
<1>5. CASE PermanentFailure(r) \/ CrashRun(r)
  <2>1. runs'[r] = IdleRun
    BY <1>5, <1>1 DEF PermanentFailure, CrashRun
  <2> QED BY <2>1, BatchFacts, EmptyPresent
<1>6. CASE EnqueueEntry(r)
  <2>1. PICK s \in In(runs[r].chunk) : runs' = [runs EXCEPT ![r] = AfterEntry(runs[r], s)]
    BY <1>6 DEF EnqueueEntry
  <2>2. CASE In(runs[r].chunk) = {s}
    <3>1. runs'[r] = IdleRun
      BY <2>1, <2>2, <1>1 DEF AfterEntry
    <3> QED BY <3>1, BatchFacts, EmptyPresent
  <2>3. CASE In(runs[r].chunk) # {s}
    <3>1. /\ runs'[r].todo = runs[r].todo
          /\ runs'[r].chunk = Without(runs[r].chunk, {s})
          /\ runs'[r].pc = "enqueue"
      BY <1>6, <2>1, <2>3, <1>1 DEF AfterEntry, Runs, EnqueueEntry
    <3> QED BY <3>1, <1>1, SlicePresent DEF HeldPresent
  <2> QED BY <2>2, <2>3
<1> QED BY <1>2, <1>3, <1>4, <1>5, <1>6 DEF Releasing

(* A step of a run other than a mark leaves the marks alone. *)
LEMMA MarksKept ==
  ASSUME NEW r \in Runners, RunStep(r), ~MarkBatchPushed(r)
  PROVE  UNCHANGED <<content, stamp, pushedHash, pushedAt, server>>
<1> USE DEF localVars, markVars, serverVars
<1>1. CASE StartRun(r) \/ ReadNext(r) \/ SendChunk(r) \/ Resend(r) \/ NetworkError(r)
  BY <1>1 DEF StartRun, ReadNext, SendChunk, Resend, Post, NetworkError
<1>2. CASE RetryableReply(r) \/ PermanentFailure(r) \/ EnqueueEntry(r) \/ CrashRun(r)
  BY <1>2 DEF RetryableReply, PermanentFailure, EnqueueEntry, CrashRun
<1> QED BY <1>1, <1>2 DEF RunStep

LEMMA HoldInvInit == Init => HoldInv
<1> SUFFICES ASSUME Init PROVE HoldInv
  OBVIOUS
<1>1. HeldPresent /\ IdleEmpty
  BY BatchFacts, EmptyPresent DEF Init, HeldPresent, IdleEmpty
<1>2. InFlightWhole /\ StoresWhole
  BY DEF Init, InFlightWhole, StoresWhole, In, NoPayload
<1> QED BY <1>1, <1>2, MarkInvInit DEF HoldInv

LEMMA QuietInvInit == Init => QuietInv
<1> SUFFICES ASSUME Init PROVE QuietInv
  OBVIOUS
<1>1. ChangeStamped
  BY DEF Init, ChangeStamped
<1> QED BY <1>1, HoldInvInit DEF QuietInv

(* A write of the local database, when no run is in progress. *)
LEMMA QuietWrite ==
  ASSUME Quiet, LocalWrite
  PROVE  \E s \in Sessions, p \in Payloads :
           /\ AllIdle /\ now > pushedAt[s] /\ SetContent(s, p)
           /\ UNCHANGED <<runs, net, server, stored, pushedHash, pushedAt>>
           /\ \/ "otel" \in Writers
              \/ \E k \in StampKinds : stamp' = [stamp EXCEPT ![s][k] = now]
<1>1. PICK s \in Sessions, p \in Payloads :
        Ingest(s, p) \/ Rate(s, p) \/ Evaluate(s, p) \/ OtelUpdate(s, p)
  BY DEF LocalWrite
<1>2. /\ AllIdle /\ now > pushedAt[s] /\ SetContent(s, p)
      /\ UNCHANGED <<runs, net, server, stored, pushedHash, pushedAt>>
  BY <1>1 DEF Ingest, Rate, Evaluate, StampedWrite, OtelUpdate, MayWrite, markVars,
    serverVars
<1>3. \/ "otel" \in Writers
      \/ \E k \in StampKinds : stamp' = [stamp EXCEPT ![s][k] = now]
  BY <1>1 DEF Ingest, Rate, Evaluate, StampedWrite, OtelUpdate, StampKinds
<1> QED BY <1>2, <1>3

LEMMA HoldInvStep ==
  ASSUME Quiet, HoldInv, [Next]_vars
  PROVE  HoldInv'
<1> USE DEF HoldInv
<1>0. MarkInv'
  BY MarkInvStep
<1>t. /\ runs \in [Runners -> Runs]
      /\ \A r \in Runners : runs[r].todo \in Batches /\ runs[r].chunk \in Batches
      /\ net \in SUBSET Messages
      /\ content \in Batches /\ produced \in [Sessions -> SUBSET Payloads]
  BY DEF MarkInv, TypeInv, TypeOK, Runs
<1>1. ASSUME LocalWrite PROVE HoldInv'
  <2>1. PICK s \in Sessions, p \in Payloads :
          /\ AllIdle /\ SetContent(s, p)
          /\ UNCHANGED <<runs, net, server, stored, pushedHash, pushedAt>>
    BY <1>1, QuietWrite
  <2>2. HeldPresent' /\ IdleEmpty'
    BY <2>1 DEF AllIdle, IdleEmpty, HeldPresent, Present, In, NoPayload
  <2>3. \A t \in Sessions : produced[t] \subseteq produced'[t]
    BY <2>1, <1>t DEF SetContent
  <2>4. \A t \in In(content') : content'[t] \in produced'[t]
    BY <2>1, <1>t DEF SetContent, In, InFlightWhole, Batches
  <2>5. InFlightWhole' /\ StoresWhole'
    BY <2>1, <2>3, <2>4 DEF InFlightWhole, WholeBatch, StoresWhole, In
  <2> QED BY <1>0, <2>2, <2>5
<1>2. ASSUME NEW r \in Runners, Releasing(r) PROVE HoldInv'
  <2>1. /\ UNCHANGED <<content, produced, stored>> /\ net' \subseteq net
        /\ \A q \in Runners \ {r} : runs'[q] = runs[q]
    BY <1>2, ReleasingStep DEF MarkInv
  <2>2. HeldPresent' /\ IdleEmpty'
    BY <2>1, <1>2, ReleasingHolds DEF HeldPresent, IdleEmpty, Present
  <2>3. InFlightWhole' /\ StoresWhole'
    BY <2>1 DEF InFlightWhole, WholeBatch, StoresWhole
  <2> QED BY <1>0, <2>2, <2>3
<1>3. ASSUME NEW r \in Runners, NEW id, NEW c \in Batches, NEW t \in Batches,
             Post(r, id, c, t), Present(c), Present(t)
      PROVE  HoldInv'
  <2>1. /\ runs'[r].chunk = c /\ runs'[r].todo = t /\ runs'[r].pc = "wait"
        /\ \A q \in Runners \ {r} : runs'[q] = runs[q]
        /\ net' = net \cup {[id |-> id, items |-> c, stage |-> "sent"]}
    BY <1>3, <1>t, PostedType DEF Post
  <2>2. UNCHANGED <<content, produced, stored>>
    BY <1>3 DEF Post, localVars, serverVars
  <2>3. HeldPresent' /\ IdleEmpty'
    BY <1>3, <2>1, <2>2 DEF HeldPresent, IdleEmpty, Present
  <2>4. WholeBatch(c)
    BY <1>3 DEF WholeBatch, Present, InFlightWhole, In
  <2>5. InFlightWhole' /\ StoresWhole'
    BY <2>1, <2>2, <2>4 DEF InFlightWhole, WholeBatch, StoresWhole
  <2> QED BY <1>0, <2>3, <2>5
<1>6. ASSUME NEW r \in Runners, SendChunk(r) PROVE HoldInv'
  <2>1. PICK C \in Chunks(runs[r].todo), id \in Requests \ InUse :
          Post(r, id, Slice(runs[r].todo, C), Without(runs[r].todo, C))
    BY <1>6 DEF SendChunk
  <2>2. /\ Slice(runs[r].todo, C) \in Batches /\ Without(runs[r].todo, C) \in Batches
        /\ Present(Slice(runs[r].todo, C)) /\ Present(Without(runs[r].todo, C))
    BY <1>t, SliceType, SlicePresent DEF HeldPresent
  <2> QED BY <1>3, <2>1, <2>2
<1>7. ASSUME NEW r \in Runners, Resend(r) PROVE HoldInv'
  <2>1. PICK id \in Requests \ InUse : Post(r, id, runs[r].chunk, runs[r].todo)
    BY <1>7 DEF Resend
  <2> QED BY <1>3, <2>1, <1>t DEF HeldPresent
<1>4. ASSUME NEW m \in net, ServerStep(m) PROVE HoldInv'
  <2>1. UNCHANGED <<content, produced>>
    BY <1>4 DEF ServerStep, Authenticate, ServerError, CommitBatch, LoseRequest, localVars
  <2>2. \A q \in Runners : /\ runs'[q].todo = runs[q].todo
                           /\ runs'[q].chunk = runs[q].chunk
                           /\ runs'[q].pc = runs[q].pc
    BY <1>4, <1>t, AnswerType
    DEF ServerStep, Authenticate, ServerError, CommitBatch, LoseRequest
  <2>3. \A k \in net' : \E n \in net : k.items = n.items
    <3>1. CASE Authenticate(m)
      <4>1. [m EXCEPT !.stage = "authed"].items = m.items
        BY <1>t DEF Messages
      <4> QED BY <3>1, <4>1 DEF Authenticate
    <3>2. CASE ServerError(m) \/ CommitBatch(m) \/ LoseRequest(m)
      BY <3>2 DEF ServerError, CommitBatch, LoseRequest
    <3> QED BY <1>4, <3>1, <3>2 DEF ServerStep
  <2>4. InFlightWhole'
    BY <2>1, <2>3 DEF InFlightWhole, WholeBatch, In
  <2>5. StoresWhole'
    <3>1. CASE CommitBatch(m)
      BY <3>1, <2>1 DEF CommitBatch, Accepted, InFlightWhole, WholeBatch, StoresWhole
    <3>2. CASE ~CommitBatch(m)
      BY <1>4, <3>2, <2>1 DEF ServerStep, Authenticate, ServerError, LoseRequest,
        serverVars, StoresWhole
    <3> QED BY <3>1, <3>2
  <2>6. HeldPresent' /\ IdleEmpty'
    BY <2>1, <2>2 DEF HeldPresent, IdleEmpty, Present
  <2> QED BY <1>0, <2>4, <2>5, <2>6
<1>5. ASSUME RevokeMachine \/ Tick \/ UNCHANGED vars PROVE HoldInv'
  <2>1. UNCHANGED <<content, produced, stored, net, runs>>
    BY <1>5 DEF RevokeMachine, Tick, vars, localVars, serverVars
  <2> QED BY <1>0, <2>1 DEF HeldPresent, IdleEmpty, Present, InFlightWhole, WholeBatch,
    StoresWhole
<1> QED BY <1>1, <1>2, <1>4, <1>5, <1>6, <1>7 DEF Next, RunStep, Releasing

(* With writers that keep out of the runs, of any kind and any number, every *)
(* aggregate the server stores is one the local database had at one moment,  *)
(* although runReporter reads it with several SELECTs, runs overlap, crash   *)
(* and are retried, and requests are lost or delayed.                        *)
THEOREM StoresWholeAlways ==
  ASSUME Quiet
  PROVE  Spec => []StoresWhole
<1>1. HoldInv => StoresWhole
  BY DEF HoldInv
<1>2. HoldInv /\ [Next]_vars => HoldInv'
  BY HoldInvStep
<1> QED BY <1>1, <1>2, HoldInvInit, PTL DEF Spec

LEMMA QuietInvStep ==
  ASSUME Quiet, "otel" \notin Writers, QuietInv, [Next]_vars
  PROVE  QuietInv'
<1> USE DEF QuietInv
<1>0. HoldInv'
  BY HoldInvStep
<1>t. /\ runs \in [Runners -> Runs]
      /\ content \in Batches /\ pushedHash \in Batches
      /\ stamp \in [Sessions -> [StampKinds -> Times]]
      /\ pushedAt \in [Sessions -> Times] /\ now \in Times
  BY DEF HoldInv, MarkInv, TypeInv, TypeOK, Runs
<1>1. ASSUME LocalWrite PROVE ChangeStamped'
  <2>1. PICK s \in Sessions, p \in Payloads :
          /\ now > pushedAt[s] /\ SetContent(s, p)
          /\ UNCHANGED <<pushedHash, pushedAt>>
          /\ \E k \in StampKinds : stamp' = [stamp EXCEPT ![s][k] = now]
    BY <1>1, QuietWrite
  <2>2. PICK k \in StampKinds : stamp' = [stamp EXCEPT ![s][k] = now]
    BY <2>1
  <2> SUFFICES ASSUME NEW t \in Sessions, content'[t] # pushedHash[t]
               PROVE  /\ content'[t] # None
                      /\ \/ pushedHash[t] = None
                         \/ \E j \in StampKinds : stamp'[t][j] > pushedAt[t]
    BY <2>1 DEF ChangeStamped
  <2>3. CASE t = s
    <3>1. content'[s] = p /\ stamp'[s][k] = now
      BY <2>1, <2>2, <1>t DEF SetContent, Batches
    <3> QED BY <2>1, <2>3, <3>1, SetsAssumption
  <2>4. CASE t # s
    <3>1. content'[t] = content[t] /\ stamp'[t] = stamp[t]
      BY <2>1, <2>2, <2>4, <1>t DEF SetContent, Batches
    <3> QED BY <3>1 DEF ChangeStamped
  <2> QED BY <2>3, <2>4
<1>2. ASSUME NEW r \in Runners, MarkBatchPushed(r) PROVE ChangeStamped'
  <2>1. content' = content /\ stamp' = stamp
    BY <1>2 DEF MarkBatchPushed, localVars
  <2> SUFFICES ASSUME NEW s \in Sessions, content[s] # pushedHash'[s]
               PROVE  /\ content[s] # None
                      /\ \/ pushedHash'[s] = None
                         \/ \E k \in StampKinds : stamp[s][k] > pushedAt'[s]
    BY <2>1 DEF ChangeStamped
  <2>2. s \notin In(runs[r].chunk)
    BY <1>2 DEF MarkBatchPushed, HoldInv, HeldPresent, Present
  <2>3. pushedHash'[s] = pushedHash[s] /\ pushedAt'[s] = pushedAt[s]
    BY <1>2, <2>2 DEF MarkBatchPushed
  <2> QED BY <2>3 DEF ChangeStamped
<1>3. ASSUME UNCHANGED <<content, stamp, pushedHash, pushedAt>> PROVE ChangeStamped'
  BY <1>3 DEF ChangeStamped
<1>4. ASSUME NEW m \in net, ServerStep(m) PROVE ChangeStamped'
  BY <1>3, <1>4 DEF ServerStep, Authenticate, ServerError, CommitBatch, LoseRequest,
    localVars, markVars
<1>5. ASSUME RevokeMachine \/ Tick \/ UNCHANGED vars PROVE ChangeStamped'
  BY <1>3, <1>5 DEF RevokeMachine, Tick, vars, localVars, markVars
<1>6. ASSUME NEW r \in Runners, RunStep(r), ~MarkBatchPushed(r) PROVE ChangeStamped'
  BY <1>3, <1>6, MarksKept
<1> QED BY <1>0, <1>1, <1>2, <1>4, <1>5, <1>6 DEF Next

(* A changed session stays a candidate of the next run, whatever is lost or  *)
(* killed and however runs overlap, as long as no writer commits during a    *)
(* run or in the millisecond of a mark and the OTEL columns, which carry no  *)
(* timestamp CANDIDATES_SQL looks at, are not written.                       *)
THEOREM NothingForgotten ==
  ASSUME Quiet, "otel" \notin Writers
  PROVE  Spec => []NoLostUpdate
<1>1. QuietInv => NoLostUpdate
  BY DEF QuietInv, ChangeStamped, NoLostUpdate, Candidate, StampKinds
<1>2. QuietInv /\ [Next]_vars => QuietInv'
  BY QuietInvStep
<1> QED BY <1>1, <1>2, QuietInvInit, PTL DEF Spec

-----------------------------------------------------------------------------
(* Agreement, when replies are not lost either.                              *)

(* A request in flight is waited for, by a run that has no reply yet, and no *)
(* other request has its id.                                                 *)
Owned == \A m \in net : \E r \in Runners : runs[r].req = m.id

Pending == \A m \in net, r \in Runners : runs[r].req = m.id => runs[r].reply = "none"

UniqueIds == \A m, n \in net : m.id = n.id => m = n

(* A run with a 2xx reply finds its chunk on the server. *)
Landed ==
  \A r \in Runners : runs[r].reply = "ok" =>
    \A s \in In(runs[r].chunk) : runs[r].chunk[s] \in {server[s]} \cup Refused

(* A run is about to mark what the server now has of s. *)
AboutToMark(s) ==
  \E r \in Runners :
    /\ runs[r].reply = "ok"
    /\ runs[r].chunk[s] = server[s]
    /\ server[s] # None

(* The mark is what the server has, or is about to be. *)
MarkFollows ==
  \A s \in Sessions : pushedHash[s] \in Refused \cup {server[s]} \/ AboutToMark(s)

NetInv == Owned /\ Pending /\ UniqueIds

AgreeInv == QuietInv /\ NetInv /\ Landed /\ MarkFollows

(* What the steps of a run that post nothing do to the network: without      *)
(* ReplyLoss a run that has a 2xx reply can only mark, and a run that gives  *)
(* up takes its request with it.                                             *)
LEMMA ReleasingNet ==
  ASSUME ~ReplyLoss, MarkInv, NetInv, NEW r \in Runners, Releasing(r)
  PROVE  /\ NetInv'
         /\ ~MarkBatchPushed(r) => runs[r].reply # "ok"
<1> USE DEF MarkInv
<1>1. /\ net' \subseteq net
      /\ \A q \in Runners \ {r} : runs'[q] = runs[q]
      /\ runs'[r].req = None /\ runs'[r].reply = "none"
  BY ReleasingStep
<1>2. \A m \in net : m.id # None
  BY SetsAssumption DEF TypeInv, TypeOK, Messages
<1>3. \A m \in net' : runs[r].req # m.id
  <2>1. CASE StartRun(r) \/ ReadNext(r) \/ EnqueueEntry(r)
    BY <2>1, <1>1, <1>2 DEF StartRun, ReadNext, EnqueueEntry, WaitOnly
  <2>2. CASE NetworkError(r) \/ CrashRun(r)
    BY <2>2 DEF NetworkError, CrashRun, Abandoned, Outstanding
  <2>3. CASE RetryableReply(r) \/ MarkBatchPushed(r) \/ PermanentFailure(r)
    <3>1. runs[r].reply # "none"
      BY <2>3 DEF RetryableReply, MarkBatchPushed, PermanentFailure
    <3> QED BY <3>1, <1>1 DEF NetInv, Pending
  <2> QED BY <2>1, <2>2, <2>3 DEF Releasing
<1>4. Owned' /\ Pending' /\ UniqueIds'
  BY <1>1, <1>2, <1>3 DEF NetInv, Owned, Pending, UniqueIds
<1>5. ~MarkBatchPushed(r) => runs[r].reply # "ok"
  BY DEF Releasing, StartRun, ReadNext, NetworkError, RetryableReply, PermanentFailure,
    EnqueueEntry, CrashRun, MayLose, WaitOnly
<1> QED BY <1>4, <1>5 DEF NetInv

(* An answer is the end of its request. *)
LEMMA AnswerNet ==
  ASSUME MarkInv, NetInv, NEW m \in net, net' = net \ {m},
         Answer(m, "ok") \/ Answer(m, "retry") \/ Answer(m, "permanent")
  PROVE  NetInv'
<1>1. /\ \A r \in Runners : runs'[r].req = runs[r].req
      /\ \A r \in Runners : runs[r].req # m.id => runs'[r] = runs[r]
  BY AnswerType DEF Answer, MarkInv, TypeInv, TypeOK
<1> QED BY <1>1 DEF NetInv, Owned, Pending, UniqueIds

LEMMA AgreeInvInit == Init => AgreeInv
<1> SUFFICES ASSUME Init PROVE AgreeInv
  OBVIOUS
<1>1. NetInv
  BY DEF Init, NetInv, Owned, Pending, UniqueIds
<1>2. Landed /\ MarkFollows
  BY BatchFacts DEF Init, Landed, MarkFollows, NoPayload
<1> QED BY <1>1, <1>2, QuietInvInit DEF AgreeInv

LEMMA AgreeInvStep ==
  ASSUME Quiet, "otel" \notin Writers, ~ReplyLoss, AgreeInv, [Next]_vars
  PROVE  AgreeInv'
<1> USE DEF AgreeInv
<1>0. QuietInv'
  BY QuietInvStep
<1>m. MarkInv
  BY DEF QuietInv, HoldInv
<1>t. /\ runs \in [Runners -> Runs]
      /\ \A r \in Runners : runs[r].chunk \in Batches
      /\ net \in SUBSET Messages
      /\ server \in Batches /\ pushedHash \in Batches
  BY <1>m DEF MarkInv, TypeInv, TypeOK, Runs
<1>1. ASSUME LocalWrite \/ RevokeMachine \/ Tick \/ UNCHANGED vars PROVE AgreeInv'
  <2>1. UNCHANGED <<runs, net, server, pushedHash>>
    BY <1>1 DEF LocalWrite, Ingest, Rate, Evaluate, StampedWrite, OtelUpdate,
      RevokeMachine, Tick, vars, markVars, serverVars
  <2> QED BY <1>0, <2>1 DEF NetInv, Owned, Pending, UniqueIds, Landed, MarkFollows,
    AboutToMark
<1>2. ASSUME NEW r \in Runners, Releasing(r) PROVE AgreeInv'
  <2>1. /\ server' = server
        /\ \A q \in Runners \ {r} : runs'[q] = runs[q]
        /\ runs'[r].reply = "none"
    BY <1>2, <1>m, ReleasingStep DEF MarkInv
  <2>2. NetInv' /\ (~MarkBatchPushed(r) => runs[r].reply # "ok")
    BY <1>2, <1>m, ReleasingNet
  <2>3. Landed'
    BY <2>1 DEF Landed
  <2>4. MarkFollows'
    <3> SUFFICES ASSUME NEW s \in Sessions
                 PROVE  pushedHash'[s] \in Refused \cup {server'[s]} \/ AboutToMark(s)'
      BY DEF MarkFollows
    <3>1. CASE ~MarkBatchPushed(r)
      <4>1. pushedHash' = pushedHash
        BY <1>2, <3>1, MarksKept DEF Releasing, RunStep
      <4> QED BY <4>1, <3>1, <2>1, <2>2 DEF MarkFollows, AboutToMark
    <3>2. CASE MarkBatchPushed(r) /\ s \in In(runs[r].chunk)
      <4>1. pushedHash'[s] = runs[r].chunk[s] /\ runs[r].reply = "ok"
        BY <3>2 DEF MarkBatchPushed
      <4> QED BY <4>1, <3>2, <2>1 DEF Landed
    <3>3. CASE MarkBatchPushed(r) /\ s \notin In(runs[r].chunk)
      <4>1. pushedHash'[s] = pushedHash[s] /\ runs[r].chunk[s] = None
        BY <3>3 DEF MarkBatchPushed, In
      <4> QED BY <4>1, <2>1 DEF MarkFollows, AboutToMark
    <3> QED BY <3>1, <3>2, <3>3
  <2> QED BY <1>0, <2>2, <2>3, <2>4
<1>3. ASSUME NEW r \in Runners, NEW id \in Requests \ InUse, NEW c, NEW t,
             runs[r].pc = "push", Post(r, id, c, t)
      PROVE  AgreeInv'
  <2>1. /\ runs'[r].req = id /\ runs'[r].reply = "none"
        /\ \A q \in Runners \ {r} : runs'[q] = runs[q] /\ runs[q].req # id
        /\ net' = net \cup {[id |-> id, items |-> c, stage |-> "sent"]}
        /\ \A m \in net : m.id # id
        /\ UNCHANGED <<server, pushedHash>>
    BY <1>3, <1>t, PostedType DEF Post, InUse, markVars, serverVars
  <2>2. runs[r].req = None /\ runs[r].reply = "none"
    BY <1>3, <1>m DEF MarkInv, WaitOnly
  <2>3. \A m \in net : m.id # None
    BY <1>t, SetsAssumption DEF Messages
  <2>4. Owned' /\ Pending' /\ UniqueIds'
    BY <2>1, <2>2, <2>3 DEF NetInv, Owned, Pending, UniqueIds
  <2>5. Landed' /\ MarkFollows'
    BY <2>1, <2>2 DEF Landed, MarkFollows, AboutToMark
  <2> QED BY <1>0, <2>4, <2>5 DEF NetInv
<1>4. ASSUME NEW m \in net, net' = net \ {m}, UNCHANGED <<server, pushedHash>>,
             Answer(m, "retry") \/ Answer(m, "permanent")
      PROVE  AgreeInv'
  <2>1. NetInv'
    BY <1>4, <1>m, AnswerNet
  <2>2. \A r \in Runners : runs'[r].reply = "ok" => runs'[r] = runs[r]
    BY <1>4, <1>t DEF Answer, Runs
  <2>3. \A r \in Runners : runs[r].reply = "ok" => runs'[r] = runs[r]
    BY <1>4, <1>t DEF Answer, NetInv, Pending
  <2> QED BY <1>0, <1>4, <2>1, <2>2, <2>3 DEF Landed, MarkFollows, AboutToMark
<1>5. ASSUME NEW m \in net, CommitBatch(m) PROVE AgreeInv'
  <2>1. /\ net' = net \ {m} /\ Answer(m, "ok")
        /\ UNCHANGED <<pushedHash, content>>
        /\ \A s \in Sessions :
             server'[s] = IF s \in Accepted(m) THEN m.items[s] ELSE server[s]
    BY <1>5 DEF CommitBatch, markVars, localVars
  <2>2. NetInv'
    BY <2>1, <1>m, AnswerNet
  <2>3. \A r \in Runners : /\ runs'[r].chunk = runs[r].chunk
                           /\ runs[r].reply = "ok" => runs'[r].reply = "ok"
                           /\ runs[r].req = m.id => runs'[r].reply = "ok"
                           /\ runs[r].req # m.id => runs'[r] = runs[r]
    BY <2>1, <1>t, AnswerType DEF Answer, Runs
  <2>4. PICK o \in Runners : runs[o].req = m.id
    BY DEF NetInv, Owned
  <2>5. m.items = runs[o].chunk
    BY <2>4, <1>m DEF MarkInv, SameBatch
  <2>6. \A r \in Runners, s \in Sessions :
          s \in Accepted(m) /\ runs[r].chunk[s] # None => runs[r].chunk[s] = m.items[s]
    BY <2>5 DEF Accepted, In, QuietInv, HoldInv, HeldPresent, Present
  <2>7. Landed'
    <3> SUFFICES ASSUME NEW r \in Runners, runs'[r].reply = "ok",
                        NEW s \in Sessions, runs[r].chunk[s] # None
                 PROVE  runs[r].chunk[s] \in {server'[s]} \cup Refused
      BY <2>3 DEF Landed, In
    <3>1. CASE s \in Accepted(m)
      BY <3>1, <2>1, <2>6
    <3>2. CASE s \notin Accepted(m) /\ runs[r].req = m.id
      BY <3>2, <1>m DEF Accepted, In, MarkInv, SameBatch
    <3>3. CASE s \notin Accepted(m) /\ runs[r].req # m.id
      BY <3>3, <2>1, <2>3 DEF Landed, In
    <3> QED BY <3>1, <3>2, <3>3
  <2>8. MarkFollows'
    <3> SUFFICES ASSUME NEW s \in Sessions
                 PROVE  pushedHash'[s] \in Refused \cup {server'[s]} \/ AboutToMark(s)'
      BY DEF MarkFollows
    <3>1. CASE s \in Accepted(m)
      <4>1. /\ runs'[o].reply = "ok" /\ runs'[o].chunk[s] = server'[s]
            /\ server'[s] # None
        BY <3>1, <2>1, <2>3, <2>4, <2>5 DEF Accepted, In
      <4> QED BY <4>1 DEF AboutToMark
    <3>2. CASE s \notin Accepted(m)
      BY <3>2, <2>1, <2>3 DEF MarkFollows, AboutToMark
    <3> QED BY <3>1, <3>2
  <2> QED BY <1>0, <2>2, <2>7, <2>8
<1>6. ASSUME NEW m \in net, ServerStep(m) PROVE AgreeInv'
  <2>1. CASE Authenticate(m)
    <3>1. CASE revoked
      BY <2>1, <3>1, <1>4 DEF Authenticate, markVars, serverVars
    <3>2. CASE ~revoked
      <4>1. /\ net' = (net \ {m}) \cup {[m EXCEPT !.stage = "authed"]}
            /\ UNCHANGED <<runs, server, pushedHash>>
        BY <2>1, <3>2 DEF Authenticate, markVars, serverVars
      <4>2. [m EXCEPT !.stage = "authed"].id = m.id
        BY <1>t DEF Messages
      <4>3. Owned' /\ Pending'
        <5>1. \A k \in net' : \E n \in net : k.id = n.id
          BY <4>1, <4>2
        <5> QED BY <4>1, <5>1 DEF NetInv, Owned, Pending
      <4>4. \A k \in net' : k \in net \ {m} \/ k = [m EXCEPT !.stage = "authed"]
        BY <4>1
      <4>5. \A k \in net \ {m} : k.id # m.id
        BY DEF NetInv, UniqueIds
      <4>6. UniqueIds'
        BY <4>2, <4>4, <4>5 DEF NetInv, UniqueIds
      <4> QED BY <1>0, <4>1, <4>3, <4>6 DEF NetInv, Landed, MarkFollows, AboutToMark
    <3> QED BY <3>1, <3>2
  <2>2. CASE ServerError(m)
    BY <2>2, <1>4 DEF ServerError, markVars, serverVars
  <2>3. CASE CommitBatch(m)
    BY <2>3, <1>5
  <2>4. CASE LoseRequest(m)
    BY <2>4 DEF LoseRequest, NetInv, Owned
  <2> QED BY <1>6, <2>1, <2>2, <2>3, <2>4 DEF ServerStep
<1>7. ASSUME NEW r \in Runners, SendChunk(r) \/ Resend(r) PROVE AgreeInv'
  BY <1>3, <1>7 DEF SendChunk, Resend
<1> QED BY <1>1, <1>2, <1>6, <1>7 DEF Next, RunStep, Releasing

(* Between runs the server has the present aggregate of every session that   *)
(* sanitizes, that its schema accepts and that a run would not push, for any *)
(* number of overlapping runs, as long as replies are not lost and the       *)
(* writers are the quiet ones of NothingForgotten.                           *)
THEOREM AgreementAlways ==
  ASSUME Quiet, "otel" \notin Writers, ~ReplyLoss
  PROVE  Spec => []Agreement
<1>1. AgreeInv => Agreement
  <2> SUFFICES ASSUME AgreeInv, AllIdle, NEW s \in Sessions,
                      content[s] \notin Unsanitizable \cup Refused, ~Prepared(s)
               PROVE  server[s] = content[s]
    BY DEF Agreement
  <2>1. content[s] = pushedHash[s]
    BY DEF AgreeInv, QuietInv, ChangeStamped, Prepared, Candidate, StampKinds
  <2>2. ~AboutToMark(s)
    BY DEF AgreeInv, QuietInv, HoldInv, MarkInv, WaitOnly, AllIdle, AboutToMark
  <2> QED BY <2>1, <2>2 DEF AgreeInv, MarkFollows
<1>2. AgreeInv /\ [Next]_vars => AgreeInv'
  BY AgreeInvStep
<1> QED BY <1>1, <1>2, AgreeInvInit, PTL DEF Spec
=============================================================================
