----------------------------- MODULE LocalProofs -----------------------------
(***************************************************************************)
(* The local side: the ingestion, for any files, processes, calls, failures  *)
(* and crashes; the watcher that starts such calls; the outcome sweep, for   *)
(* any sessions, processes and commits, any clock and any answers of git and *)
(* gh; the three together as MCLocal composes them; and what its views are   *)
(* given, by the theorems of LocalViewsProofs.                              *)
(*                                                                         *)
(* RecordedIsStored and IngestIsComplete are not inductive.  The invariant   *)
(* follows a file through a call: what it held at the mtime that was seen    *)
(* (LinesAt) is parsed, then stored, then recorded, while other calls        *)
(* record other mtimes and the file grows (CallSound); and what was on disk   *)
(* when the call began is stored, still to do, or in its hands (CallOwes).   *)
(***************************************************************************)
EXTENDS MCLocal, LocalViewsProofs

Held == {"gate", "parse", "write", "reconcile", "record"}

(* Turns are appended in the order of their times. *)
Ordered(f) == \A n \in DOMAIN transcripts[f] : transcripts[f][n] <= Mtime(f)

CallSound(c) ==
  calls[c].pc \in Held =>
    LET f == calls[c].file IN
    /\ f \in Files /\ calls[c].seen <= Mtime(f)
    /\ calls[c].pc = "write" => LinesAt(f, calls[c].seen) <= calls[c].parsed
    /\ calls[c].pc \in {"reconcile", "record"} => LinesAt(f, calls[c].seen) <= stored[f]

Owed(c, f) ==
  \/ calls[c].failed \/ calls[c].want[f] <= stored[f] \/ f \in calls[c].todo
  \/ calls[c].pc \in Held /\ f = calls[c].file /\ calls[c].want[f] <= LinesAt(f, calls[c].seen)
CallOwes(c) ==
  /\ calls[c].pc \in InLoop \cup {"stat", "fresh", "migrate", "list"} =>
       \A f \in Files : calls[c].want[f] <= Len(transcripts[f])
  /\ calls[c].pc \in InLoop => \A f \in Files : Owed(c, f)

(* The mtime gate, file by file. *)
GateSound(f) ==
  Ordered(f) /\ recorded[f] <= Mtime(f) /\ LinesAt(f, recorded[f]) <= stored[f]

(* A process that is down runs nothing. *)
DownSound ==
  \A c, d \in Calls :
    ProcOf[c] = ProcOf[d] /\ calls[c].pc = "dead" => calls[d].pc \in {"idle", "dead"}

LocalInv ==
  /\ TypeOK
  /\ \A f \in Files : GateSound(f)
  /\ \A c \in Calls : CallSound(c) /\ CallOwes(c)
  /\ DownSound

-----------------------------------------------------------------------------
(* The lines of a transcript at a time.                                     *)

LEMMA Indices ==
  ASSUME NEW n \in Nat
  PROVE  IsFiniteSet(1 .. n) /\ Cardinality(1 .. n) = n
<1>1. 1 \in Int /\ n \in Int
  OBVIOUS
<1>2. IsFiniteSet(1 .. n) /\ Cardinality(1 .. n) = IF 1 > n THEN 0 ELSE n - 1 + 1
  BY <1>1, FS_Interval
<1> QED
  BY <1>2

LEMMA TranscriptType ==
  ASSUME TypeOK, NEW f \in Files
  PROVE  /\ Len(transcripts[f]) \in Nat /\ DOMAIN transcripts[f] = 1 .. Len(transcripts[f])
         /\ \A n \in DOMAIN transcripts[f] : transcripts[f][n] \in Times /\ transcripts[f][n] \in Nat
         /\ transcripts[f] = <<>> <=> Len(transcripts[f]) = 0
<1>1. transcripts[f] \in Seq(Times) /\ Times \subseteq Nat
  BY NumbersAssumption DEF TypeOK, Times
<1>2. /\ Len(transcripts[f]) \in Nat /\ DOMAIN transcripts[f] = 1 .. Len(transcripts[f])
      /\ transcripts[f] = <<>> <=> Len(transcripts[f]) = 0
  BY <1>1
<1>3. ASSUME NEW n \in DOMAIN transcripts[f] PROVE transcripts[f][n] \in Times
  <2> DEFINE t == transcripts[f]
  <2>1. t \in Seq(Times) /\ n \in 1 .. Len(t)
    BY <1>1, <1>2, <1>3
  <2> HIDE DEF t
  <2>2. t[n] \in Times
    BY <2>1
  <2> QED
    BY <2>2 DEF t
<1> QED
  BY <1>1, <1>2, <1>3

LEMMA LinesType ==
  ASSUME TypeOK, NEW f \in Files, NEW m \in Nat
  PROVE  LinesAt(f, m) \in Nat /\ LinesAt(f, m) <= Len(transcripts[f])
<1> DEFINE L == {n \in DOMAIN transcripts[f] : transcripts[f][n] <= m}
<1>1. DOMAIN transcripts[f] = 1 .. Len(transcripts[f]) /\ Len(transcripts[f]) \in Nat
  BY TranscriptType
<1>2. /\ IsFiniteSet(1 .. Len(transcripts[f]))
      /\ Cardinality(1 .. Len(transcripts[f])) = Len(transcripts[f])
  BY <1>1, Indices
<1>3. L \in SUBSET (1 .. Len(transcripts[f]))
  BY <1>1
<1>4. IsFiniteSet(L) /\ Cardinality(L) <= Len(transcripts[f])
  BY <1>2, <1>3, FS_Subset
<1>5. Cardinality(L) \in Nat
  BY <1>4, FS_CardinalityType
<1> QED
  BY <1>4, <1>5 DEF LinesAt

LEMMA LinesGrow ==
  ASSUME TypeOK, NEW f \in Files, NEW m \in Nat, NEW m2 \in Nat, m <= m2
  PROVE  LinesAt(f, m) <= LinesAt(f, m2)
<1> DEFINE L == {n \in DOMAIN transcripts[f] : transcripts[f][n] <= m}
           M == {n \in DOMAIN transcripts[f] : transcripts[f][n] <= m2}
<1>1. /\ DOMAIN transcripts[f] = 1 .. Len(transcripts[f]) /\ Len(transcripts[f]) \in Nat
      /\ \A n \in DOMAIN transcripts[f] : transcripts[f][n] \in Nat
  BY TranscriptType
<1>2. L \in SUBSET M /\ M \in SUBSET (1 .. Len(transcripts[f]))
  BY <1>1
<1>3. IsFiniteSet(M)
  BY <1>1, <1>2, Indices, FS_Subset
<1> QED
  BY <1>2, <1>3, FS_Subset DEF LinesAt

LEMMA AllLines ==
  ASSUME TypeOK, NEW f \in Files, Ordered(f)
  PROVE  LinesAt(f, Mtime(f)) = Len(transcripts[f])
<1>1. DOMAIN transcripts[f] = 1 .. Len(transcripts[f]) /\ Len(transcripts[f]) \in Nat
  BY TranscriptType
<1>2. {n \in DOMAIN transcripts[f] : transcripts[f][n] <= Mtime(f)} = 1 .. Len(transcripts[f])
  BY <1>1 DEF Ordered
<1> QED
  BY <1>1, <1>2, Indices DEF LinesAt

LEMMA MtimeType ==
  ASSUME TypeOK, NEW f \in Files
  PROVE  Mtime(f) \in Nat /\ Mtime(f) \in Times
BY TranscriptType, NumbersAssumption DEF Times, Mtime

-----------------------------------------------------------------------------
(* Types.                                                                   *)

LEMMA PlacesType ==
  /\ {"loop", "gate", "parse", "write", "reconcile", "record", "idle", "wait", "stat", "fresh",
      "migrate", "list", "dead"} \subseteq Places
  /\ 0 \in Times /\ 0 \in Nat
BY NumbersAssumption DEF Places, InLoop, Times

LEMMA FreshType == Fresh \in CallStates
BY PlacesType DEF Fresh, CallStates, Counts

LEMMA TypeInit == Init => TypeOK
<1> SUFFICES ASSUME Init PROVE TypeOK
  OBVIOUS
<1>1. 0 \in Times /\ 1 \in Times
  BY NumbersAssumption DEF Times
<1>2. <<>> \in Seq(Times)
  OBVIOUS
<1> QED
  BY <1>1, <1>2, FreshType DEF Init, TypeOK, Counts

LEMMA BetweenType ==
  ASSUME NEW call \in CallStates
  PROVE  /\ Between(call) \in CallStates
         /\ [Between(call) EXCEPT !.failed = TRUE] \in CallStates
<1>1. Between(call) \in CallStates
  BY PlacesType DEF Between, CallStates
<1> QED
  BY <1>1 DEF CallStates

LEMMA ReturnType ==
  ASSUME TypeOK, NEW c \in Calls, Return(c)
  PROVE  calls' \in [Calls -> CallStates] /\ inflight' \in [Procs -> Pages \cup {None}]
BY FreshType DEF TypeOK, Return

LEMMA SetCallType ==
  ASSUME TypeOK, NEW c \in Calls, NEW call \in CallStates, SetCall(c, call)
  PROVE  calls' \in [Calls -> CallStates]
BY DEF TypeOK, SetCall

LEMMA GotoType ==
  ASSUME TypeOK, NEW c \in Calls,
         NEW pc \in {"list", "parse", "write", "reconcile", "record"}, Goto(c, pc)
  PROVE  calls' \in [Calls -> CallStates]
<1>1. calls[c] \in CallStates
  BY DEF TypeOK
<1>2. [calls[c] EXCEPT !.pc = pc] \in CallStates
  BY <1>1, PlacesType DEF CallStates
<1> QED
  BY <1>2, SetCallType DEF Goto

LEMMA OnDiskType == TypeOK => OnDisk \in Counts
BY DEF TypeOK, OnDisk, Counts

(* A nonempty set of times has a latest one. *)
LEMMA LastTime ==
  ASSUME NEW n \in Nat, NEW T \in SUBSET (0 .. n), T # {}
  PROVE  \E t \in T : \A u \in T : u <= t
<1> DEFINE R == {ss \in Nat \X Nat : ss[1] < ss[2]}
           D == {n - t : t \in T}
<1>1. IsWellFoundedOn(R, Nat)
  BY NatLessThanWellFounded DEF OpToRel
<1>2. D \subseteq Nat /\ D # {}
  <2>1. \A t \in T : n - t \in Nat
    OBVIOUS
  <2>2. PICK t \in T : TRUE
    OBVIOUS
  <2>3. n - t \in D
    OBVIOUS
  <2> QED
    BY <2>1, <2>3
<1>3. \E x \in D : \A y \in D : <<y, x>> \notin R
  <2> HIDE DEF R, D
  <2> QED
    BY <1>1, <1>2, WFMin
<1>4. PICK t \in T : \A u \in T : ~(n - u < n - t)
  BY <1>3, <1>2
<1> QED
  BY <1>4

LEMMA NewestType ==
  ASSUME NEW T \in SUBSET Times
  PROVE  Newest(T) \in Times
<1>1. CASE T = {}
  BY <1>1, PlacesType DEF Newest
<1>2. CASE T # {}
  <2>1. \E t \in T : \A u \in T : u <= t
    BY <1>2, LastTime, NumbersAssumption DEF Times
  <2> QED
    BY <1>2, <2>1 DEF Newest
<1> QED
  BY <1>1, <1>2

(* A step of a call keeps the types. *)
LEMMA StepType == ASSUME TypeOK, NEW c \in Calls, CallSound(c), Step(c) PROVE TypeOK'
<1>0. /\ calls[c] \in CallStates /\ inflight \in [Procs -> Pages \cup {None}]
      /\ calls[c].file \in Files \cup {None} /\ calls[c].parsed \in Nat /\ calls[c].seen \in Times
      /\ calls[c].todo \subseteq Files /\ calls[c].want \in Counts /\ calls[c].failed \in BOOLEAN
      /\ calls[c].pc \in Places
  BY DEF TypeOK, CallStates
<1>1. ASSUME StatAll(c) PROVE TypeOK'
  <2>1. {Mtime(f) : f \in Written} \in SUBSET Times
    BY MtimeType DEF Written
  <2>2. [calls[c] EXCEPT !.pc = "fresh", !.seen = Newest({Mtime(f) : f \in Written})] \in CallStates
    BY <2>1, <1>0, NewestType, PlacesType DEF CallStates
  <2>3. calls' \in [Calls -> CallStates] /\ inflight' \in [Procs -> Pages \cup {None}]
    BY <1>1, <2>2, <1>0, ReturnType, SetCallType DEF StatAll
  <2> QED
    BY <1>1, <2>3 DEF StatAll, TypeOK, dbVars
<1>2. ASSUME CheckFresh(c) PROVE TypeOK'
  <2>1. [calls[c] EXCEPT !.pc = "migrate", !.seen = 0] \in CallStates
    BY <1>0, PlacesType DEF CallStates
  <2>2. calls' \in [Calls -> CallStates] /\ inflight' \in [Procs -> Pages \cup {None}]
    BY <1>2, <2>1, <1>0, ReturnType, SetCallType DEF CheckFresh
  <2> QED
    BY <1>2, <2>2 DEF CheckFresh, TypeOK, dbVars
<1>3. ASSUME Migrate(c) PROVE TypeOK'
  <2>1. calls' \in [Calls -> CallStates] /\ inflight' \in [Procs -> Pages \cup {None}]
    BY <1>3, <1>0, ReturnType, GotoType DEF Migrate
  <2> QED
    BY <1>3, <2>1 DEF Migrate, TypeOK
<1>4. ASSUME ListFiles(c) PROVE TypeOK'
  <2>1. [calls[c] EXCEPT !.pc = "loop", !.todo = Written] \in CallStates
    BY <1>0, PlacesType DEF CallStates, Written
  <2> QED
    BY <1>4, <2>1, SetCallType DEF ListFiles, TypeOK, dbVars
<1>5. ASSUME EndLoop(c) PROVE TypeOK'
  BY <1>5, ReturnType DEF EndLoop, TypeOK, dbVars
<1>6. ASSUME NEW f \in Files, StatFile(c, f) PROVE TypeOK'
  <2>1. [calls[c] EXCEPT !.pc = "gate", !.todo = @ \ {f}, !.file = f, !.seen = Mtime(f)] \in CallStates
    BY <1>0, PlacesType, MtimeType DEF CallStates
  <2> QED
    BY <1>6, <2>1, SetCallType DEF StatFile, TypeOK, dbVars
<1>7. ASSUME CheckFile(c) PROVE TypeOK'
  <2>1. calls' \in [Calls -> CallStates]
    BY <1>7, <1>0, BetweenType, SetCallType, GotoType DEF CheckFile
  <2> QED
    BY <1>7, <2>1 DEF CheckFile, TypeOK, dbVars
<1>8. ASSUME ParseFile(c), calls[c].file \in Files PROVE TypeOK'
  <2>1. [calls[c] EXCEPT !.pc = "write", !.parsed = Len(transcripts[calls[c].file])] \in CallStates
    BY <1>0, <1>8, PlacesType, TranscriptType DEF CallStates
  <2> QED
    BY <1>8, <2>1, SetCallType DEF ParseFile, TypeOK, dbVars
<1>9. ASSUME WriteSession(c), calls[c].file \in Files PROVE TypeOK'
  <2>1. /\ calls' \in [Calls -> CallStates]
        /\ stored' = [stored EXCEPT ![calls[c].file] = IF calls[c].parsed > @ THEN calls[c].parsed ELSE @]
        /\ counted' = [g \in Files |-> IF g = calls[c].file THEN calls[c].parsed
                                       ELSE IF g \in Same(calls[c].file) THEN 0 ELSE counted[g]]
        /\ ingestedAt' = [ingestedAt EXCEPT ![SessionOf[calls[c].file]] = now]
    BY <1>9, GotoType DEF WriteSession
  <2>2. stored' \in Counts /\ counted' \in Counts
    BY <2>1, <1>0 DEF TypeOK, Counts
  <2>3. ingestedAt' \in [Sessions -> Times]
    BY <2>1 DEF TypeOK
  <2> QED
    BY <1>9, <2>1, <2>2, <2>3 DEF WriteSession, TypeOK
<1>10. ASSUME ReconcileSession(c) PROVE TypeOK'
  <2>1. calls' \in [Calls -> CallStates]
    BY <1>10, GotoType DEF ReconcileSession
  <2>2. Reconciled(calls[c].file) \in Counts
    BY DEF TypeOK, Counts, Reconciled
  <2> QED
    BY <1>10, <2>1, <2>2 DEF ReconcileSession, TypeOK
<1>11. ASSUME RecordFile(c) PROVE TypeOK'
  <2>1. calls' \in [Calls -> CallStates]
    BY <1>11, <1>0, BetweenType, SetCallType DEF RecordFile
  <2> QED
    BY <1>11, <2>1, <1>0 DEF RecordFile, TypeOK
<1>12. ASSUME SkipFile(c) PROVE TypeOK'
  <2>1. calls' \in [Calls -> CallStates]
    BY <1>12, <1>0, BetweenType, SetCallType DEF SkipFile
  <2>2. calls[c].pc = "reconcile" => calls[c].file \in Files
    BY DEF CallSound, Held
  <2>3. ToReconcile({c}) \subseteq Sessions
    BY <2>2, CallsAssumption DEF ToReconcile
  <2> QED
    BY <1>12, <2>1, <2>3 DEF SkipFile, TypeOK, dbVars
<1>13. ParseFile(c) \/ WriteSession(c) => calls[c].file \in Files
  BY DEF ParseFile, WriteSession, CallSound, Held
<1> QED
  BY <1>1, <1>2, <1>3, <1>4, <1>5, <1>6, <1>7, <1>8, <1>9, <1>10, <1>11, <1>12, <1>13 DEF Step

(* Every other step keeps them too. *)
LEMMA TypeNext ==
  ASSUME TypeOK, \A c \in Calls : CallSound(c), Next
  PROVE  TypeOK'
<1>1. ASSUME NEW c \in Calls, BeginPage(c) PROVE TypeOK'
  <2>1. /\ [Fresh EXCEPT !.pc = "wait", !.want = OnDisk] \in CallStates
        /\ [Fresh EXCEPT !.pc = "stat", !.want = OnDisk] \in CallStates
    BY FreshType, OnDiskType, PlacesType DEF CallStates
  <2>2. calls' \in [Calls -> CallStates]
    BY <1>1, <2>1, SetCallType DEF BeginPage
  <2>3. inflight' \in [Procs -> Pages \cup {None}]
    BY <1>1 DEF BeginPage, TypeOK
  <2> QED
    BY <1>1, <2>2, <2>3 DEF BeginPage, TypeOK, dbVars
<1>2. ASSUME NEW c \in Calls, BeginIngest(c) PROVE TypeOK'
  <2>1. [Fresh EXCEPT !.pc = "migrate", !.want = OnDisk] \in CallStates
    BY FreshType, OnDiskType, PlacesType DEF CallStates
  <2> QED
    BY <1>2, <2>1, SetCallType DEF BeginIngest, TypeOK, dbVars
<1>3. ASSUME NEW c \in Calls, NEW f \in Written, BeginWatch(c, f) PROVE TypeOK'
  <2> DEFINE W == [[g \in Files |-> 0] EXCEPT ![f] = Len(transcripts[f])]
  <2>1. f \in Files /\ Len(transcripts[f]) \in Nat
    BY TranscriptType DEF Written
  <2>2. W \in Counts
    BY <2>1 DEF Counts
  <2>3. [Fresh EXCEPT !.pc = "loop", !.todo = {f}, !.want = W] \in CallStates
    <3> HIDE DEF W
    <3> QED
      BY <2>1, <2>2, FreshType, PlacesType DEF CallStates
  <2> QED
    BY <1>3, <2>3, SetCallType DEF BeginWatch, TypeOK, dbVars
<1>4. ASSUME NEW f \in Files, Append1(f) PROVE TypeOK'
  <2>1. transcripts[f] \in Seq(Times) /\ now \in Times
    BY DEF TypeOK
  <2>2. Append(transcripts[f], now) \in Seq(Times)
    BY <2>1
  <2>3. transcripts' \in [Files -> Seq(Times)]
    BY <1>4, <2>2 DEF Append1, TypeOK
  <2> QED
    BY <1>4, <2>3 DEF Append1, TypeOK, dbVars
<1>5. ASSUME NEW p \in Procs, Crash(p) PROVE TypeOK'
  <2>1. [Fresh EXCEPT !.pc = "dead"] \in CallStates
    BY FreshType, PlacesType DEF CallStates
  <2>2. calls' \in [Calls -> CallStates]
    BY <1>5, <2>1 DEF Crash, TypeOK
  <2>3. \A c \in Calls : calls[c].pc = "reconcile" => calls[c].file \in Files
    BY DEF CallSound, Held
  <2>4. ToReconcile({c \in Calls : ProcOf[c] = p}) \subseteq Sessions
    BY <2>3, CallsAssumption DEF ToReconcile
  <2> QED
    BY <1>5, <2>2, <2>4 DEF Crash, TypeOK, dbVars
<1>6. ASSUME NEW p \in Procs, Restart(p) PROVE TypeOK'
  BY <1>6, FreshType DEF Restart, TypeOK
<1>7. CASE Tick
  BY <1>7, NumbersAssumption DEF Tick, TypeOK, dbVars, Times
<1> QED
  BY <1>1, <1>2, <1>3, <1>4, <1>5, <1>6, <1>7, StepType DEF Next

-----------------------------------------------------------------------------
(* The gate.                                                                *)

LEMMA CallType ==
  ASSUME TypeOK, NEW c \in Calls
  PROVE  /\ calls[c] \in CallStates /\ calls[c].pc \in Places /\ calls[c].todo \subseteq Files
         /\ calls[c].file \in Files \cup {None} /\ calls[c].failed \in BOOLEAN
         /\ calls[c].seen \in Nat /\ calls[c].parsed \in Nat
         /\ \A f \in Files : calls[c].want[f] \in Nat /\ stored[f] \in Nat /\ recorded[f] \in Nat
  BY NumbersAssumption DEF TypeOK, CallStates, Counts, Times

(* A call that does nothing has nothing to answer for. *)
LEMMA QuietSound ==
  ASSUME NEW c \in Calls, calls'[c].pc \in {"idle", "wait", "dead"}
  PROVE  CallSound(c)' /\ CallOwes(c)'
  BY DEF CallSound, CallOwes, Held, InLoop

(* What a step of a call does to the tables and to the other calls. *)
LEMMA StepShape ==
  ASSUME TypeOK, NEW c \in Calls, Step(c)
  PROVE  /\ transcripts' = transcripts
         /\ \A f \in Files : stored'[f] \in Nat /\ stored[f] <= stored'[f]
         /\ \A d \in Calls \ {c} : calls'[d] = calls[d] \/ calls'[d] = Fresh
         /\ \A f \in Files : recorded'[f] = recorded[f]
                            \/ (RecordFile(c) /\ f = calls[c].file /\ recorded'[f] = calls[c].seen)
<1>1. /\ calls[c].parsed \in Nat
      /\ \A f \in Files : stored[f] \in Nat
  BY CallType
<1>2. transcripts' = transcripts
  BY DEF Step, StatAll, CheckFresh, Migrate, ListFiles, EndLoop, StatFile, CheckFile, ParseFile,
         WriteSession, ReconcileSession, RecordFile, SkipFile
<1>3. \A f \in Files : stored'[f] \in Nat /\ stored[f] <= stored'[f]
  <2>1. CASE WriteSession(c)
    BY <1>1, <2>1 DEF WriteSession, TypeOK, Counts
  <2>2. CASE stored' = stored
    BY <1>1, <2>2
  <2> QED
    BY <2>1, <2>2 DEF Step, StatAll, CheckFresh, Migrate, ListFiles, EndLoop, StatFile, CheckFile,
         ParseFile, ReconcileSession, RecordFile, SkipFile, dbVars
<1>4. \A d \in Calls \ {c} : calls'[d] = calls[d] \/ calls'[d] = Fresh
  <2>1. CASE \E call : SetCall(c, call)
    BY <2>1 DEF SetCall, TypeOK
  <2>2. CASE Return(c)
    BY <2>2 DEF Return
  <2> QED
    BY <2>1, <2>2 DEF Step, StatAll, CheckFresh, Migrate, ListFiles, EndLoop, StatFile, CheckFile,
         ParseFile, WriteSession, ReconcileSession, RecordFile, SkipFile, Goto
<1>5. \A f \in Files : recorded'[f] = recorded[f]
                      \/ (RecordFile(c) /\ f = calls[c].file /\ recorded'[f] = calls[c].seen)
  <2>1. CASE RecordFile(c)
    BY <2>1 DEF RecordFile, TypeOK
  <2>2. CASE recorded' = recorded
    BY <2>2
  <2> QED
    BY <2>1, <2>2 DEF Step, StatAll, CheckFresh, Migrate, ListFiles, EndLoop, StatFile, CheckFile,
         ParseFile, WriteSession, ReconcileSession, SkipFile, dbVars
<1> QED
  BY <1>2, <1>3, <1>4, <1>5

LEMMA MtimeAfter ==
  ASSUME TypeOK', NEW f \in Files
  PROVE  Mtime(f)' \in Nat
<1> DEFINE t == transcripts'[f]
<1>1. t \in Seq(Times) /\ Times \subseteq Nat /\ 0 \in Nat
  BY NumbersAssumption DEF TypeOK, Times
<1>2. t # <<>> => t[Len(t)] \in Times
  <2> HIDE DEF t
  <2> QED
    BY <1>1
<1> QED
  BY <1>1, <1>2 DEF Mtime

(* A call that a step leaves alone stays sound while transcripts and what is *)
(* stored of them grow.                                                     *)
LEMMA KeptSound ==
  ASSUME TypeOK, TypeOK', NEW d \in Calls, CallSound(d), CallOwes(d), calls'[d] = calls[d],
         \A f \in Files : /\ stored[f] <= stored'[f] /\ Mtime(f) <= Mtime(f)'
                          /\ Len(transcripts[f]) <= Len(transcripts'[f])
                          /\ \A m \in Nat : m <= Mtime(f) => LinesAt(f, m)' = LinesAt(f, m)
  PROVE  CallSound(d)' /\ CallOwes(d)'
<1>1. /\ calls[d].seen \in Nat /\ calls[d].parsed \in Nat
      /\ \A f \in Files : /\ calls[d].want[f] \in Nat /\ stored[f] \in Nat /\ stored'[f] \in Nat
                          /\ Mtime(f) \in Nat /\ Mtime(f)' \in Nat
                          /\ Len(transcripts[f]) \in Nat /\ Len(transcripts'[f]) \in Nat
                          /\ LinesAt(f, calls[d].seen) \in Nat
  <2>1. \A f \in Files : stored'[f] \in Nat
    BY DEF TypeOK, Counts
  <2>2. \A f \in Files : Mtime(f)' \in Nat
    BY MtimeAfter
  <2>3. \A f \in Files : Len(transcripts'[f]) \in Nat
    BY DEF TypeOK
  <2> QED
    BY <2>1, <2>2, <2>3, CallType, MtimeType, TranscriptType, LinesType
<1>2. CallSound(d)'
  BY <1>1 DEF CallSound, Held
<1>3. CallOwes(d)'
  <2>1. \A f \in Files : Owed(d, f) /\ CallSound(d) => Owed(d, f)'
    BY <1>1 DEF Owed, CallSound
  <2> QED
    BY <1>1, <2>1 DEF CallOwes
<1> QED
  BY <1>2, <1>3

(* The call that takes a step stays sound. *)
LEMMA StepSound ==
  ASSUME LocalInv, TypeOK', NEW c \in Calls, Step(c)
  PROVE  CallSound(c)' /\ CallOwes(c)'
<1> DEFINE g == calls[c].file
           s == calls[c].seen
<1>1. /\ TypeOK /\ CallSound(c) /\ CallOwes(c) /\ calls[c] \in CallStates
      /\ s \in Nat /\ calls[c].parsed \in Nat
      /\ \A f \in Files : /\ GateSound(f) /\ calls[c].want[f] \in Nat /\ stored[f] \in Nat
                          /\ recorded[f] \in Nat /\ Mtime(f) \in Nat
                          /\ Len(transcripts[f]) \in Nat /\ LinesAt(f, s) \in Nat
                          /\ LinesAt(f, Mtime(f)) = Len(transcripts[f])
  BY CallType, MtimeType, TranscriptType, LinesType, AllLines DEF LocalInv, GateSound
<1>2. /\ transcripts' = transcripts /\ calls' \in [Calls -> CallStates]
      /\ \A f \in Files : stored'[f] \in Nat /\ stored[f] <= stored'[f]
      /\ \A f, m : LinesAt(f, m)' = LinesAt(f, m) /\ Mtime(f)' = Mtime(f)
  BY <1>1, StepShape DEF TypeOK, LinesAt, Mtime
<1>3. \A call : SetCall(c, call) => calls'[c] = call
  BY <1>1 DEF SetCall, TypeOK
<1>4. CASE Return(c)
  BY <1>4, QuietSound DEF Return, Fresh
<1>5. CASE StatAll(c) /\ ~Return(c)
  <2>1. /\ calls'[c].pc = "fresh" /\ calls'[c].want = calls[c].want /\ calls[c].pc = "stat"
    BY <1>5, <1>1, <1>3 DEF StatAll, CallStates
  <2> QED
    BY <2>1, <1>1, <1>2 DEF CallSound, CallOwes, Held, InLoop
<1>6. CASE CheckFresh(c) /\ ~Return(c)
  <2>1. /\ calls'[c].pc = "migrate" /\ calls'[c].want = calls[c].want /\ calls[c].pc = "fresh"
    BY <1>6, <1>1, <1>3 DEF CheckFresh, CallStates
  <2> QED
    BY <2>1, <1>1, <1>2 DEF CallSound, CallOwes, Held, InLoop
<1>7. CASE Migrate(c) /\ ~Return(c)
  <2>1. /\ calls'[c].pc = "list" /\ calls'[c].want = calls[c].want /\ calls[c].pc = "migrate"
    BY <1>7, <1>1, <1>3 DEF Migrate, CallStates, Goto
  <2> QED
    BY <2>1, <1>1, <1>2 DEF CallSound, CallOwes, Held, InLoop
<1>8. CASE ListFiles(c)
  <2>1. /\ calls'[c].pc = "loop" /\ calls'[c].want = calls[c].want /\ calls[c].pc = "list"
        /\ calls'[c].todo = Written
    BY <1>8, <1>1, <1>3 DEF ListFiles, CallStates
  <2>2. \A f \in Files : f \notin Written => Len(transcripts[f]) = 0
    BY <1>1, TranscriptType DEF Written
  <2>3. \A f \in Files : f \in Written \/ calls[c].want[f] <= stored[f]
    BY <2>1, <2>2, <1>1 DEF CallOwes
  <2>4. \A f \in Files : Owed(c, f)'
    BY <2>1, <2>3, <1>1, <1>2 DEF Owed
  <2> QED
    BY <2>1, <2>4, <1>1, <1>2 DEF CallSound, CallOwes, Held, InLoop
<1>9. ASSUME NEW f \in Files, StatFile(c, f) PROVE CallSound(c)' /\ CallOwes(c)'
  <2>1. /\ calls'[c].pc = "gate" /\ calls'[c].want = calls[c].want /\ calls[c].pc = "loop"
        /\ calls'[c].todo = calls[c].todo \ {f} /\ calls'[c].file = f
        /\ calls'[c].seen = Mtime(f) /\ calls'[c].failed = calls[c].failed
    BY <1>9, <1>1, <1>3 DEF StatFile, CallStates
  <2>2. calls[c].want[f] <= LinesAt(f, Mtime(f))
    BY <2>1, <1>1 DEF CallOwes, InLoop
  <2>3. ASSUME NEW h \in Files PROVE Owed(c, h)'
    <3>1. Owed(c, h)
      BY <2>1, <1>1 DEF CallOwes, InLoop
    <3> QED
      BY <3>1, <2>1, <2>2, <1>1, <1>2 DEF Owed, Held
  <2> QED
    BY <2>1, <2>3, <1>1, <1>2 DEF CallSound, CallOwes, Held, InLoop
<1>10. CASE CheckFile(c)
  <2>1. calls[c].pc = "gate" /\ g \in Files
    BY <1>10, <1>1 DEF CheckFile, CallSound, Held
  <2>2. CASE recorded[g] # 0 /\ s <= recorded[g]
    <3>1. /\ calls'[c].pc = "loop" /\ calls'[c].want = calls[c].want
          /\ calls'[c].todo = calls[c].todo /\ calls'[c].failed = calls[c].failed
      BY <2>2, <1>10, <1>1, <1>3 DEF CheckFile, Between, CallStates
    <3>2. LinesAt(g, s) <= LinesAt(g, recorded[g])
      BY <2>1, <2>2, <1>1, LinesGrow
    <3>3. LinesAt(g, s) <= stored[g]
      <4>1. LinesAt(g, recorded[g]) \in Nat
        BY <2>1, <1>1, LinesType
      <4> QED
        BY <4>1, <3>2, <2>1, <1>1 DEF GateSound
    <3>4. ASSUME NEW h \in Files PROVE Owed(c, h)'
      <4>1. Owed(c, h)
        BY <2>1, <1>1 DEF CallOwes, InLoop
      <4> QED
        BY <4>1, <3>1, <3>3, <1>1, <1>2 DEF Owed
    <3> QED
      BY <3>1, <3>4, <2>1, <1>1, <1>2 DEF CallSound, CallOwes, Held, InLoop
  <2>3. CASE ~(recorded[g] # 0 /\ s <= recorded[g])
    <3>1. /\ calls'[c].pc = "parse" /\ calls'[c].want = calls[c].want
          /\ calls'[c].todo = calls[c].todo /\ calls'[c].failed = calls[c].failed
          /\ calls'[c].file = g /\ calls'[c].seen = s
      BY <2>3, <1>10, <1>1, <1>3 DEF CheckFile, Goto, CallStates
    <3>2. ASSUME NEW h \in Files PROVE Owed(c, h)'
      <4>1. Owed(c, h)
        BY <2>1, <1>1 DEF CallOwes, InLoop
      <4> QED
        BY <4>1, <3>1, <1>1, <1>2 DEF Owed, Held
    <3> QED
      BY <3>1, <3>2, <2>1, <1>1, <1>2 DEF CallSound, CallOwes, Held, InLoop
  <2> QED
    BY <2>2, <2>3
<1>11. CASE ParseFile(c) \/ WriteSession(c) \/ ReconcileSession(c)
  <2>1. /\ calls[c].pc \in {"parse", "write", "reconcile"} /\ g \in Files
        /\ s <= Mtime(g)
    BY <1>11, <1>1 DEF ParseFile, WriteSession, ReconcileSession, CallSound, Held
  <2>2. /\ calls'[c].want = calls[c].want /\ calls'[c].todo = calls[c].todo
        /\ calls'[c].failed = calls[c].failed /\ calls'[c].file = g /\ calls'[c].seen = s
        /\ calls'[c].pc \in {"write", "reconcile", "record"}
    <3>1. CASE ParseFile(c)
      BY <3>1, <1>1, <1>3 DEF ParseFile, CallStates
    <3>2. CASE WriteSession(c)
      BY <3>2, <1>1, <1>3 DEF WriteSession, Goto, CallStates
    <3>3. CASE ReconcileSession(c)
      BY <3>3, <1>1, <1>3 DEF ReconcileSession, Goto, CallStates
    <3> QED
      BY <3>1, <3>2, <3>3, <1>11
  <2>3. calls'[c].pc = "write" => LinesAt(g, s) <= calls'[c].parsed
    <3>1. LinesAt(g, s) <= Len(transcripts[g])
      BY <2>1, <1>1, LinesType
    <3> QED
      BY <3>1, <1>11, <1>1, <1>3 DEF ParseFile, WriteSession, ReconcileSession, Goto, CallStates
  <2>4. calls'[c].pc \in {"reconcile", "record"} => LinesAt(g, s) <= stored'[g]
    <3>1. CASE WriteSession(c)
      <4>1. LinesAt(g, s) <= calls[c].parsed /\ calls[c].parsed <= stored'[g]
        BY <3>1, <2>1, <1>1 DEF WriteSession, CallSound, Held, TypeOK, Counts
      <4> QED
        BY <4>1, <2>1, <1>1, <1>2
    <3>2. CASE ReconcileSession(c)
      BY <3>2, <2>1, <1>1, <1>2 DEF ReconcileSession, CallSound, Held
    <3>3. CASE ParseFile(c)
      BY <3>3, <1>1, <1>3 DEF ParseFile, CallStates
    <3> QED
      BY <3>1, <3>2, <3>3, <1>11
  <2>5. ASSUME NEW h \in Files PROVE Owed(c, h)'
    <3>1. Owed(c, h)
      BY <2>1, <1>1 DEF CallOwes, InLoop
    <3> QED
      BY <3>1, <2>1, <2>2, <1>1, <1>2 DEF Owed, Held
  <2> QED
    BY <2>1, <2>2, <2>3, <2>4, <2>5, <1>1, <1>2 DEF CallSound, CallOwes, Held, InLoop
<1>12. CASE RecordFile(c) \/ SkipFile(c)
  <2>1. /\ calls[c].pc \in Held /\ g \in Files
        /\ RecordFile(c) => LinesAt(g, s) <= stored[g]
    BY <1>12, <1>1 DEF RecordFile, SkipFile, CallSound, Held
  <2>2. /\ calls'[c].want = calls[c].want /\ calls'[c].todo = calls[c].todo
        /\ calls'[c].pc = "loop"
        /\ SkipFile(c) => calls'[c].failed = TRUE
        /\ RecordFile(c) => calls'[c].failed = calls[c].failed
    <3>1. CASE RecordFile(c)
      BY <3>1, <2>1, <1>1, <1>3 DEF RecordFile, SkipFile, Between, CallStates, Held
    <3>2. CASE SkipFile(c)
      BY <3>2, <1>1, <1>3 DEF RecordFile, SkipFile, Between, CallStates
    <3> QED
      BY <3>1, <3>2, <1>12
  <2>3. ASSUME NEW h \in Files PROVE Owed(c, h)'
    <3>1. Owed(c, h)
      BY <2>1, <1>1 DEF CallOwes, InLoop, Held
    <3> QED
      BY <3>1, <2>1, <2>2, <1>1, <1>2, <1>12 DEF Owed
  <2> QED
    BY <2>1, <2>2, <2>3, <1>1, <1>2 DEF CallSound, CallOwes, Held, InLoop
<1> QED
  BY <1>4, <1>5, <1>6, <1>7, <1>8, <1>9, <1>10, <1>11, <1>12 DEF Step, EndLoop

-----------------------------------------------------------------------------
(* The invariant.                                                           *)

LEMMA InvInit == Init => LocalInv
<1> SUFFICES ASSUME Init PROVE LocalInv
  OBVIOUS
<1>1. TypeOK
  BY TypeInit
<1>2. ASSUME NEW f \in Files PROVE GateSound(f)
  <2>1. transcripts[f] = <<>> /\ recorded[f] = 0 /\ stored[f] = 0
    BY DEF Init
  <2>2. LinesAt(f, 0) \in Nat /\ LinesAt(f, 0) <= 0
    BY <1>1, <2>1, LinesType, TranscriptType
  <2> QED
    BY <1>1, <2>1, <2>2, TranscriptType DEF GateSound, Ordered, Mtime
<1>3. \A c \in Calls : calls[c].pc = "idle"
  BY DEF Init, Fresh
<1> QED
  BY <1>1, <1>2, <1>3 DEF LocalInv, CallSound, CallOwes, DownSound, Held, InLoop

(* When transcripts and stored are left alone, so is the gate, and a call    *)
(* that changes only to rest stays sound.                                   *)
LEMMA RestSound ==
  ASSUME LocalInv, TypeOK', UNCHANGED <<transcripts, stored, recorded>>,
         NEW S \in SUBSET Calls,
         \A d \in Calls \ S : calls'[d] = calls[d] \/ calls'[d].pc \in {"idle", "wait", "dead"}
  PROVE  /\ \A f \in Files : GateSound(f)'
         /\ \A d \in Calls \ S : CallSound(d)' /\ CallOwes(d)'
<1>1. \A f, m : LinesAt(f, m)' = LinesAt(f, m) /\ Mtime(f)' = Mtime(f)
  BY DEF LinesAt, Mtime
<1>2. \A f \in Files : GateSound(f)'
  BY <1>1 DEF LocalInv, GateSound, Ordered
<1>3. \A f \in Files : /\ stored[f] \in Nat /\ Mtime(f) \in Nat
                      /\ Len(transcripts[f]) \in Nat
  BY MtimeType, TranscriptType DEF LocalInv, TypeOK, Counts
<1>4. \A f \in Files : /\ stored[f] <= stored'[f] /\ Mtime(f) <= Mtime(f)'
                      /\ Len(transcripts[f]) <= Len(transcripts'[f])
                      /\ \A m \in Nat : m <= Mtime(f) => LinesAt(f, m)' = LinesAt(f, m)
  BY <1>1, <1>3
<1>5. ASSUME NEW d \in Calls \ S PROVE CallSound(d)' /\ CallOwes(d)'
  BY <1>4, QuietSound, KeptSound DEF LocalInv
<1> QED
  BY <1>2, <1>5

(* The step of a call. *)
LEMMA InvStep ==
  ASSUME LocalInv, NEW c \in Calls, Step(c)
  PROVE  LocalInv'
<1>1. TypeOK /\ TypeOK'
  BY StepType DEF LocalInv
<1>2. /\ transcripts' = transcripts
      /\ \A f, m : LinesAt(f, m)' = LinesAt(f, m) /\ Mtime(f)' = Mtime(f)
      /\ \A f \in Files : /\ stored[f] \in Nat /\ stored'[f] \in Nat /\ stored[f] <= stored'[f]
                          /\ Mtime(f) \in Nat /\ Len(transcripts[f]) \in Nat
  BY <1>1, StepShape, MtimeType, TranscriptType DEF TypeOK, Counts, LinesAt, Mtime
<1>3. \A f \in Files : /\ stored[f] <= stored'[f] /\ Mtime(f) <= Mtime(f)'
                      /\ Len(transcripts[f]) <= Len(transcripts'[f])
                      /\ \A m \in Nat : m <= Mtime(f) => LinesAt(f, m)' = LinesAt(f, m)
  BY <1>2
<1>4. ASSUME NEW d \in Calls PROVE CallSound(d)' /\ CallOwes(d)'
  <2>1. CASE d = c
    BY <2>1, <1>1, StepSound
  <2>2. CASE d # c /\ calls'[d] = calls[d]
    BY <2>2, <1>1, <1>3, KeptSound DEF LocalInv
  <2>3. CASE d # c /\ calls'[d] = Fresh
    BY <2>3, QuietSound DEF Fresh
  <2> QED
    BY <2>1, <2>2, <2>3, <1>1, StepShape
<1>5. ASSUME NEW f \in Files PROVE GateSound(f)'
  <2>1. GateSound(f) /\ calls[c].seen \in Nat /\ recorded[f] \in Nat
    BY <1>1, CallType DEF LocalInv
  <2>2. CASE recorded'[f] = recorded[f]
    <3>1. LinesAt(f, recorded[f]) \in Nat
      BY <2>1, <1>1, LinesType
    <3> QED
      BY <2>1, <2>2, <3>1, <1>2 DEF GateSound, Ordered
  <2>3. CASE RecordFile(c) /\ f = calls[c].file /\ recorded'[f] = calls[c].seen
    <3>1. calls[c].seen <= Mtime(f) /\ LinesAt(f, calls[c].seen) <= stored[f]
      BY <2>3 DEF RecordFile, LocalInv, CallSound, Held
    <3>2. LinesAt(f, calls[c].seen) \in Nat
      BY <2>1, <1>1, LinesType
    <3> QED
      BY <2>1, <2>3, <3>1, <3>2, <1>2 DEF GateSound, Ordered
  <2> QED
    BY <2>2, <2>3, <1>1, StepShape
<1>6. DownSound'
  <2>1. calls[c].pc \notin {"idle", "wait", "dead"}
    BY DEF Step, StatAll, CheckFresh, Migrate, ListFiles, EndLoop, StatFile, CheckFile, ParseFile,
           WriteSession, ReconcileSession, RecordFile, SkipFile
  <2>2. calls'[c].pc # "dead"
    <3>1. /\ calls[c] \in CallStates
          /\ \A call : SetCall(c, call) => calls'[c] = call
      BY <1>1, CallType DEF SetCall, TypeOK
    <3>2. CASE Return(c)
      BY <3>2 DEF Return, Fresh
    <3>3. CASE CheckFile(c)
      BY <3>1, <3>3 DEF CheckFile, Between, Goto, CallStates
    <3>4. CASE ParseFile(c) \/ WriteSession(c) \/ ReconcileSession(c) \/ (Migrate(c) /\ ~Return(c))
      BY <3>1, <3>4 DEF ParseFile, WriteSession, ReconcileSession, Migrate, Goto, CallStates
    <3>5. CASE RecordFile(c)
      BY <3>1, <3>5 DEF RecordFile, Between, CallStates
    <3>6. CASE SkipFile(c)
      BY <3>1, <3>6 DEF SkipFile, Between, CallStates
    <3>7. CASE (StatAll(c) \/ CheckFresh(c)) /\ ~Return(c)
      BY <3>1, <3>7 DEF StatAll, CheckFresh, CallStates
    <3>8. CASE ListFiles(c) \/ \E f \in Files : StatFile(c, f)
      BY <3>1, <3>8 DEF ListFiles, StatFile, CallStates
    <3> QED
      BY <3>2, <3>3, <3>4, <3>5, <3>6, <3>7, <3>8 DEF Step, EndLoop
  <2>3. \A d \in Calls \ {c} : calls'[d].pc \in {calls[d].pc, "idle"}
    BY <1>1, StepShape DEF Fresh
  <2> QED
    BY <2>1, <2>2, <2>3 DEF LocalInv, DownSound
<1> QED
  BY <1>1, <1>4, <1>5, <1>6 DEF LocalInv

(* A call begins: its process is up. *)
LEMMA InvBegin ==
  ASSUME LocalInv, TypeOK', NEW c \in Calls,
         \/ BeginPage(c) \/ BeginIngest(c) \/ \E f \in Written : BeginWatch(c, f)
  PROVE  LocalInv'
<1>1. /\ TypeOK /\ UNCHANGED <<transcripts, stored, recorded>> /\ Idle(c) /\ Ready(c)
      /\ \A d \in Calls \ {c} : calls'[d] = calls[d]
  BY DEF LocalInv, TypeOK, BeginPage, BeginIngest, BeginWatch, SetCall, dbVars
<1>2. /\ \A f \in Files : GateSound(f)'
      /\ \A d \in Calls \ {c} : CallSound(d)' /\ CallOwes(d)'
  BY <1>1, RestSound, {c} \in SUBSET Calls
<1>3. /\ \A f \in Files : /\ stored[f] \in Nat /\ Len(transcripts[f]) \in Nat
                          /\ OnDisk[f] = Len(transcripts[f])
      /\ OnDisk \in Counts /\ Fresh \in CallStates
      /\ \A call : SetCall(c, call) => calls'[c] = call
  BY <1>1, TranscriptType, OnDiskType, FreshType DEF TypeOK, Counts, OnDisk, SetCall
<1>4. CallSound(c)' /\ CallOwes(c)' /\ calls'[c].pc # "dead"
  <2>1. CASE BeginPage(c) \/ BeginIngest(c)
    <3>1. calls'[c].pc \in {"wait", "stat", "migrate"} /\ calls'[c].want = OnDisk
      BY <2>1, <1>3 DEF BeginPage, BeginIngest, Fresh
    <3> QED
      BY <3>1, <1>1, <1>3 DEF CallSound, CallOwes, Held, InLoop
  <2>2. ASSUME NEW f \in Written, BeginWatch(c, f)
        PROVE CallSound(c)' /\ CallOwes(c)' /\ calls'[c].pc # "dead"
    <3> DEFINE W == [[g \in Files |-> 0] EXCEPT ![f] = Len(transcripts[f])]
    <3>1. f \in Files /\ W[f] = Len(transcripts[f]) /\ \A g \in Files \ {f} : W[g] = 0
      BY DEF Written
    <3>2. calls'[c].pc = "loop" /\ calls'[c].todo = {f} /\ calls'[c].want = W
      <4>1. calls'[c] = [Fresh EXCEPT !.pc = "loop", !.todo = {f}, !.want = W]
        BY <2>2, <1>3 DEF BeginWatch
      <4> HIDE DEF W
      <4> QED
        BY <4>1 DEF Fresh
    <3> HIDE DEF W
    <3>3. \A g \in Files : W[g] <= Len(transcripts'[g]) /\ (g = f \/ W[g] <= stored'[g])
      BY <3>1, <1>1, <1>3
    <3>4. \A g \in Files : Owed(c, g)'
      BY <3>2, <3>3 DEF Owed
    <3> QED
      BY <3>2, <3>3, <3>4 DEF CallSound, CallOwes, Held
  <2> QED
    BY <2>1, <2>2
<1>5. DownSound'
  <2>1. \A d \in Calls : ProcOf[d] = ProcOf[c] => calls[d].pc # "dead"
    BY <1>1 DEF Ready, Down
  <2> QED
    BY <2>1, <1>1, <1>4 DEF LocalInv, DownSound
<1> QED
  BY <1>2, <1>4, <1>5 DEF LocalInv

(* A turn is appended later than the mtime, so the lines at any time up to   *)
(* the mtime are the same.                                                  *)
LEMMA AppendKeeps ==
  ASSUME TypeOK, NEW f \in Files, Append1(f), NEW g \in Files, Ordered(g)
  PROVE  /\ Ordered(g)' /\ Mtime(g) <= Mtime(g)'
         /\ Len(transcripts[g]) <= Len(transcripts'[g])
         /\ \A m \in Nat : m <= Mtime(g) => LinesAt(g, m)' = LinesAt(g, m)
<1> DEFINE n == Len(transcripts[g])
<1>1. /\ n \in Nat /\ DOMAIN transcripts[g] = 1 .. n /\ Mtime(g) \in Nat /\ now \in Nat
      /\ transcripts[g] \in Seq(Times)
      /\ \A k \in 1 .. n : transcripts[g][k] \in Nat /\ transcripts[g][k] <= Mtime(g)
  <2>1. transcripts[g] \in Seq(Times) /\ now \in Nat
    BY NumbersAssumption DEF TypeOK, Times
  <2> QED
    BY <2>1, TranscriptType, MtimeType DEF Ordered
<1>2. CASE g # f
  <2>1. transcripts'[g] = transcripts[g]
    BY <1>2 DEF Append1, TypeOK
  <2> QED
    BY <2>1, <1>1 DEF Ordered, Mtime, LinesAt
<1>3. CASE g = f
  <2> DEFINE t == transcripts'[g]
  <2>1. t = Append(transcripts[g], now) /\ Mtime(g) < now
    BY <1>3, <1>1 DEF Append1, TypeOK
  <2>2. /\ Len(t) = n + 1 /\ DOMAIN t = 1 .. (n + 1) /\ t[n + 1] = now
        /\ \A k \in 1 .. n : t[k] = transcripts[g][k]
    BY <2>1, <1>1, now \in Times DEF TypeOK
  <2> HIDE DEF t
  <2>3. t # <<>> /\ Mtime(g)' = now
    <3>1. t # <<>>
      BY <2>2, <1>1
    <3> QED
      BY <3>1, <2>2 DEF Mtime, t
  <2>4. Ordered(g)'
    <3>1. \A k \in DOMAIN t : t[k] <= now
      BY <2>1, <2>2, <1>1
    <3> QED
      BY <3>1, <2>3 DEF Ordered, t
  <2>5. ASSUME NEW m \in Nat, m <= Mtime(g) PROVE LinesAt(g, m)' = LinesAt(g, m)
    <3>1. {k \in DOMAIN t : t[k] <= m} = {k \in DOMAIN transcripts[g] : transcripts[g][k] <= m}
      BY <2>5, <2>1, <2>2, <1>1
    <3> QED
      BY <3>1 DEF LinesAt, t
  <2> QED
    BY <2>1, <2>2, <2>3, <2>4, <2>5, <1>1 DEF t
<1> QED
  BY <1>2, <1>3

LEMMA InvNext == LocalInv /\ [Next]_vars => LocalInv'
<1> SUFFICES ASSUME LocalInv, [Next]_vars PROVE LocalInv'
  OBVIOUS
<1>1. TypeOK /\ \A c \in Calls : CallSound(c)
  BY DEF LocalInv
<1>2. ASSUME Next PROVE TypeOK'
  BY <1>1, <1>2, TypeNext
<1>3. CASE UNCHANGED vars
  <2>1. TypeOK' /\ UNCHANGED <<transcripts, stored, recorded, calls>>
    BY <1>1, <1>3 DEF TypeOK, vars, dbVars
  <2>2. /\ \A f \in Files : GateSound(f)'
        /\ \A d \in Calls : CallSound(d)' /\ CallOwes(d)'
    BY <2>1, RestSound, {} \in SUBSET Calls
  <2> QED
    BY <2>1, <2>2 DEF LocalInv, DownSound
<1>4. ASSUME NEW f \in Files, Append1(f) PROVE LocalInv'
  <2>1. TypeOK' /\ UNCHANGED <<calls, stored, recorded>>
    BY <1>2, <1>4 DEF Next, Append1, dbVars
  <2>2. ASSUME NEW g \in Files
        PROVE /\ Ordered(g)' /\ Mtime(g) <= Mtime(g)' /\ stored[g] <= stored'[g]
              /\ Len(transcripts[g]) <= Len(transcripts'[g])
              /\ \A m \in Nat : m <= Mtime(g) => LinesAt(g, m)' = LinesAt(g, m)
    <3>1. stored[g] \in Nat /\ Ordered(g)
      BY <1>1 DEF LocalInv, GateSound, TypeOK, Counts
    <3> QED
      BY <3>1, <2>1, <1>1, <1>4, AppendKeeps
  <2>3. ASSUME NEW g \in Files PROVE GateSound(g)'
    <3>1. /\ GateSound(g) /\ recorded[g] \in Nat /\ Mtime(g) \in Nat /\ Mtime(g)' \in Nat
      <4>1. Mtime(g)' \in Nat
        BY <2>1, MtimeAfter
      <4> QED
        BY <4>1, <1>1, MtimeType, NumbersAssumption DEF LocalInv, TypeOK, Times
    <3> QED
      BY <3>1, <2>1, <2>2 DEF GateSound
  <2>4. ASSUME NEW d \in Calls PROVE CallSound(d)' /\ CallOwes(d)'
    BY <2>1, <2>2, <1>1, KeptSound DEF LocalInv
  <2> QED
    BY <2>1, <2>3, <2>4 DEF LocalInv, DownSound
<1>5. ASSUME NEW p \in Procs, Crash(p) \/ Restart(p) PROVE LocalInv'
  <2>1. TypeOK' /\ UNCHANGED <<transcripts, stored, recorded>>
    BY <1>2, <1>5 DEF Next, Crash, Restart, dbVars
  <2>2. \A d \in Calls : /\ (ProcOf[d] # p => calls'[d] = calls[d])
                        /\ (ProcOf[d] = p => calls'[d].pc \in {"idle", "dead"})
    <3>1. CASE Restart(p)
      BY <3>1 DEF Restart, Fresh
    <3>2. CASE Crash(p)
      <4> SUFFICES ASSUME NEW d \in Calls
                   PROVE  /\ ProcOf[d] # p => calls'[d] = calls[d]
                          /\ ProcOf[d] = p => calls'[d].pc \in {"idle", "dead"}
        OBVIOUS
      <4>1. calls'[d] = IF ProcOf[d] = p /\ ~Idle(d)
                          THEN [Fresh EXCEPT !.pc = "dead"] ELSE calls[d]
        BY <3>2 DEF Crash
      <4> QED
        BY <4>1 DEF Fresh, Idle
    <3> QED
      BY <1>5, <3>1, <3>2
  <2>3. /\ \A f \in Files : GateSound(f)'
        /\ \A d \in Calls : CallSound(d)' /\ CallOwes(d)'
    <3>1. \A d \in Calls \ {} : calls'[d] = calls[d] \/ calls'[d].pc \in {"idle", "wait", "dead"}
      BY <2>2
    <3> QED
      BY <2>1, <3>1, RestSound, {} \in SUBSET Calls
  <2>4. ASSUME NEW c \in Calls, NEW d \in Calls, ProcOf[c] = ProcOf[d], calls'[c].pc = "dead"
        PROVE  calls'[d].pc \in {"idle", "dead"}
    <3>1. CASE ProcOf[c] = p
      BY <3>1, <2>2, <2>4
    <3>2. CASE ProcOf[c] # p
      BY <3>2, <2>2, <2>4 DEF LocalInv, DownSound
    <3> QED
      BY <3>1, <3>2
  <2>5. DownSound'
    BY <2>4 DEF DownSound
  <2> QED
    BY <2>1, <2>3, <2>5 DEF LocalInv
<1>6. CASE Tick
  <2>1. TypeOK' /\ UNCHANGED <<transcripts, stored, recorded, calls>>
    BY <1>2, <1>6 DEF Next, Tick, dbVars
  <2>2. /\ \A f \in Files : GateSound(f)'
        /\ \A d \in Calls : CallSound(d)' /\ CallOwes(d)'
    BY <2>1, RestSound, {} \in SUBSET Calls
  <2> QED
    BY <2>1, <2>2 DEF LocalInv, DownSound
<1> QED
  BY <1>2, <1>3, <1>4, <1>5, <1>6, InvBegin, InvStep DEF Next

-----------------------------------------------------------------------------
(* The results.                                                             *)

(* The tables and the calls of the ingest keep their shape. *)
THEOREM TypeCorrect == Spec => []TypeOK
<1>1. LocalInv => TypeOK
  BY DEF LocalInv
<1> QED
  BY <1>1, InvInit, InvNext, PTL DEF Spec

(* Whatever mtime is recorded for a transcript, all it held at that time is  *)
(* stored: the gate on the mtime never hides a turn.                        *)
THEOREM RecordedIsStoredAlways == Spec => []RecordedIsStored
<1>1. LocalInv => RecordedIsStored
  <2> SUFFICES ASSUME LocalInv, NEW f \in Files PROVE stored[f] >= LinesAt(f, recorded[f])
    BY DEF RecordedIsStored
  <2>1. /\ LinesAt(f, recorded[f]) <= stored[f] /\ stored[f] \in Nat
        /\ LinesAt(f, recorded[f]) \in Nat
    BY CallType, LinesType, NumbersAssumption DEF LocalInv, GateSound, TypeOK, Counts, Times
  <2> QED
    BY <2>1
<1> QED
  BY <1>1, InvInit, InvNext, PTL DEF Spec

(* An ingestAll or a file event that ends without an error has stored all    *)
(* the turns that were on disk when it began.                               *)
THEOREM IngestIsCompleteAlways == Spec => IngestIsComplete
<1> DEFINE Complete == \A c \in Calls : Ends(c, "loop") /\ ~calls[c].failed => Stores(c)
<1>1. LocalInv /\ [Next]_vars => [Complete]_vars
  <2> SUFFICES ASSUME LocalInv, Next, NEW c \in Calls, Ends(c, "loop"), ~calls[c].failed
               PROVE  Stores(c)
    OBVIOUS
  <2>1. EndLoop(c)
    <3>1. TypeOK /\ calls[c].pc = "loop" /\ calls'[c].pc = "idle" /\ calls[c] \in CallStates
      BY CallType DEF LocalInv, Ends
    <3>2. ASSUME NEW d \in Calls, d # c, Step(d) PROVE FALSE
      <4>1. CASE \E call : SetCall(d, call)
        BY <4>1, <3>1, <3>2 DEF SetCall, TypeOK
      <4>2. CASE Return(d)
        BY <4>2, <3>1, <3>2 DEF Return
      <4> QED
        BY <4>1, <4>2, <3>2 DEF Step, StatAll, CheckFresh, Migrate, ListFiles, EndLoop, StatFile,
           CheckFile, ParseFile, WriteSession, ReconcileSession, RecordFile, SkipFile, Goto
    <3>3. Step(c) => EndLoop(c)
      <4>1. ASSUME NEW f \in Files, StatFile(c, f) PROVE FALSE
        <5>1. calls'[c].pc = "gate"
          BY <4>1, <3>1 DEF StatFile, SetCall, TypeOK, CallStates
        <5> QED
          BY <5>1, <3>1
      <4> QED
        BY <4>1, <3>1 DEF Step, StatAll, CheckFresh, Migrate, ListFiles, CheckFile, ParseFile,
           WriteSession, ReconcileSession, RecordFile, SkipFile
    <3>4. ASSUME NEW d \in Calls,
                 BeginPage(d) \/ BeginIngest(d) \/ \E f \in Written : BeginWatch(d, f)
          PROVE FALSE
      <4>1. d # c /\ \E call : SetCall(d, call)
        BY <3>1, <3>4 DEF BeginPage, BeginIngest, BeginWatch, Idle
      <4> QED
        BY <4>1, <3>1 DEF SetCall, TypeOK
    <3>5. ASSUME NEW p \in Procs, Crash(p) PROVE FALSE
      BY <3>5, <3>1 DEF Crash, Fresh, Idle
    <3>6. ASSUME NEW p \in Procs, Restart(p) PROVE FALSE
      <4>1. PICK d \in Calls : ProcOf[d] = p /\ calls[d].pc = "dead"
        BY <3>6 DEF Restart, Down
      <4>2. ProcOf[c] = p
        BY <3>6, <3>1 DEF Restart
      <4> QED
        BY <4>1, <4>2, <3>1 DEF LocalInv, DownSound
    <3>7. ~Tick /\ \A f \in Files : ~Append1(f)
      BY <3>1 DEF Tick, Append1
    <3> QED
      BY <3>2, <3>3, <3>4, <3>5, <3>6, <3>7 DEF Next
  <2>2. \A f \in Files : Owed(c, f) /\ f \notin calls[c].todo
    BY <2>1 DEF LocalInv, CallOwes, EndLoop, InLoop
  <2>3. calls[c].pc \notin Held
    BY <2>1 DEF EndLoop, Held
  <2>4. \A f \in Files : calls[c].want[f] \in Nat /\ stored[f] \in Nat
    BY CallType DEF LocalInv
  <2> QED
    BY <2>2, <2>3, <2>4 DEF Owed, Stores
<1> QED
  BY <1>1, InvInit, InvNext, PTL DEF Spec, IngestIsComplete

(* A session whose reconciliation is owing: it did not happen, or is next. *)
LEMMA TornMeans ==
  ASSUME NEW s
  PROVE  Torn(s) <=> \/ s \in unreconciled
                     \/ \E c \in Calls : calls[c].pc = "reconcile" /\ SessionOf[calls[c].file] = s
BY DEF Torn, ToReconcile

(* Whatever fails and whichever process dies, a session's totals count the    *)
(* stored turns of all its files, but between the two transactions of         *)
(* writeSession, and after a call that threw or died there until the session  *)
(* is reconciled again.                                                     *)
THEOREM TotalsExactAlways == Spec => []TotalsExact
<1>1. Init => TotalsExact
  BY DEF Init, TotalsExact
<1>2. ASSUME LocalInv, TotalsExact, [Next]_vars PROVE TotalsExact'
  <2>1. TypeOK /\ \A c \in Calls : CallSound(c) /\ calls[c] \in CallStates
    BY <1>2, CallType DEF LocalInv
  <2>0. ASSUME unreconciled \subseteq unreconciled',
               \A c \in Calls : calls[c].pc = "reconcile" =>
                 \/ calls'[c].pc = "reconcile" /\ calls'[c].file = calls[c].file
                 \/ SessionOf[calls[c].file] \in unreconciled',
               NEW s, Torn(s)
        PROVE  Torn(s)'
    <3>1. s \in unreconciled' \/ \E c \in Calls : calls'[c].pc = "reconcile" /\ SessionOf[calls'[c].file] = s
      BY <2>0, TornMeans
    <3> QED
      BY <3>1 DEF Torn, ToReconcile
  <2>2. ASSUME UNCHANGED <<stored, counted>>, unreconciled \subseteq unreconciled',
               \A c \in Calls : calls[c].pc = "reconcile" =>
                 \/ calls'[c].pc = "reconcile" /\ calls'[c].file = calls[c].file
                 \/ SessionOf[calls[c].file] \in unreconciled'
        PROVE  TotalsExact'
    BY <1>2, <2>0, <2>2 DEF TotalsExact
  <2>3. CASE counted' = stored /\ stored' = stored
    BY <2>3 DEF TotalsExact
  <2>4. CASE UNCHANGED vars
    BY <2>2, <2>4 DEF vars, dbVars
  <2>5. ASSUME NEW c \in Calls, WriteSession(c) PROVE TotalsExact'
    <3> DEFINE g == calls[c].file
    <3>1. g \in Files /\ g # None /\ calls[c].pc = "write"
      BY <2>1, <2>5, CallsAssumption DEF WriteSession, CallSound, Held
    <3>2. /\ calls'[c].pc = "reconcile" /\ calls'[c].file = g
          /\ \A d \in Calls \ {c} : calls'[d] = calls[d]
          /\ unreconciled' = unreconciled
      BY <2>1, <2>5 DEF WriteSession, Goto, SetCall, TypeOK, CallStates
    <3>3. \A f \in Files : SessionOf[f] = SessionOf[g] => Torn(SessionOf[f])'
      BY <3>1, <3>2 DEF Torn, ToReconcile
    <3>4. \A f \in Files : Torn(SessionOf[f]) => Torn(SessionOf[f])'
      BY <3>1, <3>2, <2>0
    <3>5. \A f \in Files : SessionOf[f] # SessionOf[g] => counted'[f] = counted[f] /\ stored'[f] = stored[f]
      BY <2>5, <2>1 DEF WriteSession, Same, TypeOK, Counts
    <3> QED
      BY <3>3, <3>4, <3>5, <1>2 DEF TotalsExact
  <2>6. ASSUME NEW c \in Calls, ReconcileSession(c) PROVE TotalsExact'
    <3> DEFINE g == calls[c].file
    <3>1. g \in Files /\ calls[c].pc = "reconcile"
      BY <2>1, <2>6 DEF ReconcileSession, CallSound, Held
    <3>2. \A d \in Calls \ {c} : calls'[d] = calls[d]
      BY <2>1, <2>6 DEF ReconcileSession, Goto, SetCall, TypeOK
    <3>2a. unreconciled' = unreconciled \ {SessionOf[g]}
      BY <2>6 DEF ReconcileSession
    <3>3. \A f \in Files : SessionOf[f] = SessionOf[g] => counted'[f] = stored'[f]
      BY <2>6 DEF ReconcileSession, Reconciled, Same
    <3>4. \A f \in Files : SessionOf[f] # SessionOf[g] =>
                           counted'[f] = counted[f] /\ stored'[f] = stored[f]
      BY <2>6 DEF ReconcileSession, Reconciled, Same
    <3>5. ASSUME NEW f \in Files, SessionOf[f] # SessionOf[g], Torn(SessionOf[f])
          PROVE  Torn(SessionOf[f])'
      <4>1. CASE SessionOf[f] \in unreconciled
        BY <4>1, <3>5, <3>2a DEF Torn
      <4>2. ASSUME NEW d \in Calls, calls[d].pc = "reconcile", SessionOf[calls[d].file] = SessionOf[f]
            PROVE  Torn(SessionOf[f])'
        <5>1. calls'[d] = calls[d]
          BY <4>2, <3>5, <3>2
        <5> QED
          BY <4>2, <5>1 DEF Torn, ToReconcile
      <4> QED
        BY <4>1, <4>2, <3>5, TornMeans
    <3> QED
      BY <3>3, <3>4, <3>5, <1>2 DEF TotalsExact
  <2>7. ASSUME NEW c \in Calls, Step(c), ~WriteSession(c), ~ReconcileSession(c) PROVE TotalsExact'
    <3>1. CASE Migrate(c) /\ counted' = stored
      BY <2>3, <3>1 DEF Migrate
    <3>2. CASE ~(Migrate(c) /\ counted' = stored)
      <4>1. UNCHANGED <<stored, counted>> /\ unreconciled \subseteq unreconciled'
        <5>1. ASSUME NEW f \in Files, StatFile(c, f) PROVE UNCHANGED <<stored, counted, unreconciled>>
          BY <5>1 DEF StatFile, dbVars
        <5>2. Migrate(c) => UNCHANGED <<stored, counted, unreconciled>>
          BY <3>2 DEF Migrate
        <5>3. \/ StatAll(c) \/ CheckFresh(c) \/ ListFiles(c) \/ EndLoop(c)
              \/ CheckFile(c) \/ ParseFile(c) \/ RecordFile(c)
              => UNCHANGED <<stored, counted, unreconciled>>
          BY DEF StatAll, CheckFresh, ListFiles, EndLoop, CheckFile, ParseFile, RecordFile, dbVars
        <5>4. SkipFile(c) => UNCHANGED <<stored, counted>> /\ unreconciled \subseteq unreconciled'
          BY DEF SkipFile, dbVars
        <5> QED
          BY <5>1, <5>2, <5>3, <5>4, <2>7 DEF Step
      <4>2. calls[c].pc = "reconcile" => SessionOf[calls[c].file] \in unreconciled'
        <5>1. calls[c].pc = "reconcile" => SkipFile(c)
          BY <2>7 DEF Step, StatAll, CheckFresh, Migrate, ListFiles, EndLoop, StatFile, CheckFile,
             ParseFile, RecordFile
        <5>2. SkipFile(c) /\ calls[c].pc = "reconcile" => SessionOf[calls[c].file] \in unreconciled'
          BY DEF SkipFile, ToReconcile
        <5> QED
          BY <5>1, <5>2
      <4>3. \A d \in Calls \ {c} : calls[d].pc # "wait" => calls'[d] = calls[d]
        <5>1. CASE \E call : SetCall(c, call)
          BY <5>1, <2>1 DEF SetCall, TypeOK
        <5>2. CASE Return(c)
          BY <5>2 DEF Return
        <5> QED
          BY <5>1, <5>2, <2>7 DEF Step, StatAll, CheckFresh, Migrate, ListFiles, EndLoop, StatFile,
             CheckFile, ParseFile, RecordFile, SkipFile, Goto
      <4> QED
        BY <2>2, <4>1, <4>2, <4>3
    <3> QED
      BY <3>1, <3>2
  <2>8. ASSUME NEW c \in Calls,
               BeginPage(c) \/ BeginIngest(c) \/ \E f \in Written : BeginWatch(c, f)
        PROVE  TotalsExact'
    <3>1. /\ UNCHANGED <<stored, counted, unreconciled>> /\ calls[c].pc = "idle"
          /\ \A d \in Calls \ {c} : calls'[d] = calls[d]
      BY <2>1, <2>8 DEF BeginPage, BeginIngest, BeginWatch, SetCall, Idle, TypeOK, dbVars
    <3> QED
      BY <2>2, <3>1
  <2>9. ASSUME NEW p \in Procs, Crash(p) PROVE TotalsExact'
    <3>1. UNCHANGED <<stored, counted>> /\ unreconciled \subseteq unreconciled'
      BY <2>9 DEF Crash, dbVars
    <3>2. ASSUME NEW c \in Calls, calls[c].pc = "reconcile"
          PROVE  calls'[c] = calls[c] \/ SessionOf[calls[c].file] \in unreconciled'
      BY <3>2, <2>9 DEF Crash, ToReconcile
    <3> QED
      BY <2>2, <3>1, <3>2
  <2>10. ASSUME NEW p \in Procs, Restart(p) PROVE TotalsExact'
    BY <2>3, <2>10 DEF Restart
  <2>11. ASSUME Tick \/ \E f \in Files : Append1(f) PROVE TotalsExact'
    BY <2>2, <2>11 DEF Tick, Append1, dbVars
  <2> QED
    BY <1>2, <2>4, <2>5, <2>6, <2>7, <2>8, <2>9, <2>10, <2>11 DEF Next
<1> QED
  BY <1>1, <1>2, InvInit, InvNext, PTL DEF Spec

-----------------------------------------------------------------------------
(***************************************************************************)
(* WatchersAccounted for any number of registrations.                      *)
(*                                                                         *)
(* It is not inductive: a registration that finds no watcher running adds   *)
(* one, so that there must be room for it.  RoomToStart says there is: the   *)
(* crowd, the live watchers and the calls under way, is at most one more     *)
(* than the calls that overlapped, and no more than those when the next      *)
(* registration would stop nothing.                                        *)
(***************************************************************************)

StartStates == {"idle", "closing", "loading", "scanning", "ended"}
Crowd == attached \cup UnderWay

WatcherShape ==
  /\ starts \in [Registers -> StartStates]
  /\ running = attached
  /\ attached \subseteq {c \in Registers : starts[c] = "ended"}
  /\ overlapped \subseteq {c \in Registers : starts[c] # "idle"}
  /\ rootExists \in BOOLEAN

RoomToStart ==
  /\ IsFiniteSet(Crowd) /\ IsFiniteSet(overlapped)
  /\ Cardinality(Crowd) <= 1 + Cardinality(overlapped)
  /\ UnderWay = {} /\ handle \notin running => Cardinality(Crowd) <= Cardinality(overlapped)

OneAtATime ==
  overlapped = {} =>
    /\ attached \subseteq {handle}
    /\ \A c \in UnderWay : UnderWay = {c} /\ attached = {}

WatcherInv == WatcherShape /\ RoomToStart /\ OneAtATime

-----------------------------------------------------------------------------
(* Adding or taking away one element. *)
LEMMA OneMore ==
  ASSUME NEW S, IsFiniteSet(S), NEW x
  PROVE  /\ IsFiniteSet(S \cup {x}) /\ Cardinality(S \cup {x}) \in Nat
         /\ Cardinality(S \cup {x}) <= Cardinality(S) + 1
         /\ x \notin S => Cardinality(S \cup {x}) = Cardinality(S) + 1
         /\ IsFiniteSet(S \ {x}) /\ Cardinality(S \ {x}) \in Nat
         /\ x \in S => Cardinality(S \ {x}) = Cardinality(S) - 1
         /\ Cardinality(S) \in Nat
<1>1. Cardinality(S) \in Nat
  BY FS_CardinalityType
<1>2. /\ IsFiniteSet(S \cup {x})
      /\ Cardinality(S \cup {x}) = IF x \in S THEN Cardinality(S) ELSE Cardinality(S) + 1
  BY FS_AddElement
<1>3. /\ IsFiniteSet(S \ {x})
      /\ Cardinality(S \ {x}) = IF x \in S THEN Cardinality(S) - 1 ELSE Cardinality(S)
  BY FS_RemoveElement
<1>4. Cardinality(S \ {x}) \in Nat
  BY <1>3, FS_CardinalityType
<1> QED
  BY <1>1, <1>2, <1>3, <1>4

(* A registration that overlaps brings one more and counts as one more. *)
LEMMA OverlapIsCounted ==
  ASSUME NEW S, NEW T, NEW S1, IsFiniteSet(S), IsFiniteSet(T), NEW c, c \notin T,
         Cardinality(S) <= 1 + Cardinality(T), S1 \subseteq S \cup {c}
  PROVE  /\ IsFiniteSet(S1) /\ IsFiniteSet(T \cup {c})
         /\ Cardinality(S1) <= 1 + Cardinality(T \cup {c})
<1>1. /\ IsFiniteSet(S \cup {c}) /\ Cardinality(S \cup {c}) <= Cardinality(S) + 1
      /\ Cardinality(S \cup {c}) \in Nat /\ Cardinality(S) \in Nat
  BY OneMore
<1>2. /\ IsFiniteSet(T \cup {c}) /\ Cardinality(T \cup {c}) = Cardinality(T) + 1
      /\ Cardinality(T) \in Nat
  BY OneMore
<1>3. IsFiniteSet(S1) /\ Cardinality(S1) <= Cardinality(S \cup {c}) /\ Cardinality(S1) \in Nat
  BY <1>1, FS_Subset, FS_CardinalityType
<1> QED
  BY <1>1, <1>2, <1>3

-----------------------------------------------------------------------------
LEMMA WatcherInvInit == WatcherInit => WatcherInv
<1> SUFFICES ASSUME WatcherInit PROVE WatcherInv
  OBVIOUS
<1>1. UnderWay = {} /\ Crowd = {} /\ overlapped = {}
  BY DEF WatcherInit, UnderWay, Crowd
<1>2. WatcherShape
  BY DEF WatcherInit, WatcherShape, StartStates
<1>3. RoomToStart
  BY <1>1, FS_EmptySet DEF RoomToStart
<1>4. OneAtATime
  BY <1>1 DEF OneAtATime, WatcherInit
<1> QED
  BY <1>2, <1>3, <1>4 DEF WatcherInv

(* A registration. *)
LEMMA RegisterStep ==
  ASSUME WatcherInv, NEW c \in Registers, Register(c)
  PROVE  WatcherInv'
<1> USE DEF WatcherInv
<1>1. WatcherShape'
  BY WatcherAssumption DEF WatcherShape, StartStates, Register, StartWatcher, Stop, IsWatcherRunning
<1>2. c \notin overlapped /\ c \notin attached /\ c \notin UnderWay
  BY DEF WatcherShape, Register, UnderWay
<1>3. Crowd' \subseteq Crowd \cup {c} /\ UnderWay \subseteq UnderWay' /\ UnderWay' \subseteq UnderWay \cup {c}
      /\ attached' \subseteq attached
  BY DEF Crowd, UnderWay, WatcherShape, Register, StartWatcher, Stop, IsWatcherRunning
<1>4. CASE UnderWay # {}
  <2>1. overlapped' = overlapped \cup {c}
    BY <1>4 DEF Register
  <2>2. RoomToStart'
    <3>1. /\ IsFiniteSet(Crowd') /\ IsFiniteSet(overlapped')
          /\ Cardinality(Crowd') <= 1 + Cardinality(overlapped')
      BY <1>2, <1>3, <2>1, OverlapIsCounted DEF RoomToStart
    <3> QED
      BY <3>1, <1>3, <1>4 DEF RoomToStart
  <2>3. OneAtATime'
    BY <2>1 DEF OneAtATime
  <2> QED
    BY <1>1, <2>2, <2>3
<1>5. CASE UnderWay = {} /\ IsWatcherRunning
  <2>1. /\ UnderWay' = {c} /\ attached' = attached \ {handle} /\ overlapped' = overlapped
        /\ handle \in attached /\ handle' = handle
    BY <1>5 DEF Register, Stop, UnderWay, WatcherShape, IsWatcherRunning
  <2>2. Crowd = attached /\ Crowd' = (attached \ {handle}) \cup {c}
    BY <1>5, <2>1 DEF Crowd
  <2>3. RoomToStart'
    <3>1. /\ IsFiniteSet(attached) /\ Cardinality(attached) <= 1 + Cardinality(overlapped)
          /\ IsFiniteSet(overlapped)
      BY <2>2 DEF RoomToStart
    <3>2. /\ IsFiniteSet(attached \ {handle}) /\ Cardinality(attached) \in Nat
          /\ Cardinality(attached \ {handle}) = Cardinality(attached) - 1
      BY <3>1, <2>1, OneMore
    <3>3. /\ IsFiniteSet(Crowd') /\ Cardinality(Crowd') <= Cardinality(attached)
          /\ Cardinality(Crowd') \in Nat
      <4> DEFINE rest == attached \ {handle}
      <4>1. /\ IsFiniteSet(rest \cup {c}) /\ Cardinality(rest \cup {c}) <= Cardinality(rest) + 1
            /\ Cardinality(rest \cup {c}) \in Nat /\ Cardinality(rest) \in Nat
        BY <3>2, OneMore
      <4> QED
        BY <4>1, <3>2, <2>2
    <3>4. Cardinality(overlapped) \in Nat
      BY <3>1, FS_CardinalityType
    <3> QED
      BY <3>1, <3>2, <3>3, <3>4, <2>1 DEF RoomToStart
  <2>4. OneAtATime'
    BY <2>1, <1>5 DEF OneAtATime, UnderWay
  <2> QED
    BY <1>1, <2>3, <2>4
<1>6. CASE UnderWay = {} /\ ~IsWatcherRunning
  <2>1. /\ attached' = attached /\ overlapped' = overlapped /\ running' = running
        /\ UnderWay' \in {{}, {c}}
    BY <1>6, <1>3 DEF Register
  <2>2. /\ IsFiniteSet(Crowd) /\ IsFiniteSet(overlapped) /\ Crowd = attached
        /\ Cardinality(Crowd) <= Cardinality(overlapped)
    BY <1>6 DEF RoomToStart, Crowd, IsWatcherRunning
  <2>3. Cardinality(overlapped) \in Nat
    BY <2>2, FS_CardinalityType
  <2>4. RoomToStart'
    <3>1. CASE UnderWay' = {c}
      <4>1. Crowd' = Crowd \cup {c}
        BY <3>1, <2>1, <2>2 DEF Crowd
      <4>2. /\ IsFiniteSet(Crowd') /\ Cardinality(Crowd') <= Cardinality(Crowd) + 1
            /\ Cardinality(Crowd') \in Nat /\ Cardinality(Crowd) \in Nat
        BY <4>1, <2>2, OneMore
      <4> QED
        BY <4>2, <2>1, <2>2, <2>3, <3>1 DEF RoomToStart
    <3>2. CASE UnderWay' = {}
      <4>1. Crowd' = Crowd
        BY <3>2, <2>1, <2>2 DEF Crowd
      <4>2. Cardinality(Crowd) \in Nat
        BY <2>2, FS_CardinalityType
      <4> QED
        BY <4>1, <4>2, <2>1, <2>2, <2>3 DEF RoomToStart
    <3> QED
      BY <3>1, <3>2, <2>1
  <2>5. OneAtATime'
    <3>1. overlapped = {} => attached = {}
      BY <1>6 DEF OneAtATime, WatcherShape, IsWatcherRunning
    <3> QED
      BY <3>1, <2>1 DEF OneAtATime
  <2> QED
    BY <1>1, <2>4, <2>5
<1> QED
  BY <1>4, <1>5, <1>6

(* A call under way that ends without a watcher leaves room for the next.    *)
LEMMA StartEnds ==
  ASSUME WatcherInv, NEW c \in UnderWay, WatcherShape', UnderWay' = UnderWay \ {c},
         attached' = attached, overlapped' = overlapped
  PROVE  WatcherInv'
<1> USE DEF WatcherInv
<1>1. c \notin attached
  BY DEF UnderWay, WatcherShape
<1>2. /\ IsFiniteSet(Crowd) /\ IsFiniteSet(overlapped)
      /\ Cardinality(Crowd) <= 1 + Cardinality(overlapped)
      /\ c \in Crowd /\ Crowd' = Crowd \ {c}
  BY <1>1 DEF RoomToStart, Crowd
<1>3. /\ IsFiniteSet(Crowd \ {c}) /\ Cardinality(Crowd \ {c}) = Cardinality(Crowd) - 1
      /\ Cardinality(Crowd) \in Nat /\ Cardinality(overlapped) \in Nat
  BY <1>2, OneMore, FS_CardinalityType
<1>4. RoomToStart'
  BY <1>2, <1>3 DEF RoomToStart
<1>5. OneAtATime'
  BY DEF OneAtATime
<1> QED
  BY <1>4, <1>5

(* A call under way that goes on, or publishes its watcher, changes no count. *)
LEMMA StartGoesOn ==
  ASSUME WatcherInv, NEW c \in UnderWay, WatcherShape', Crowd' = Crowd,
         overlapped' = overlapped,
         \/ UnderWay' = UnderWay /\ attached' = attached
         \/ UnderWay' = UnderWay \ {c} /\ attached' = attached \cup {c} /\ handle' = c
  PROVE  WatcherInv'
<1> USE DEF WatcherInv
<1>1. RoomToStart'
  BY DEF RoomToStart, WatcherShape
<1>2. OneAtATime'
  BY DEF OneAtATime
<1> QED
  BY <1>1, <1>2

LEMMA WatcherInvStep == WatcherInv /\ [WatcherNext]_watcherVars => WatcherInv'
<1> SUFFICES ASSUME WatcherInv, [WatcherNext]_watcherVars PROVE WatcherInv'
  OBVIOUS
<1> USE DEF WatcherInv
<1>1. ASSUME NEW c \in Registers, Register(c) PROVE WatcherInv'
  BY <1>1, RegisterStep
<1>2. ASSUME NEW c \in Registers, Closed(c) PROVE WatcherInv'
  <2>1. c \in UnderWay
    BY <1>2 DEF Closed, UnderWay
  <2>2. WatcherShape' /\ attached' = attached /\ overlapped' = overlapped
    BY <1>2, WatcherAssumption DEF Closed, StartWatcher, WatcherShape, StartStates
  <2>3. CASE rootExists
    <3>1. UnderWay' = UnderWay
      BY <1>2, <2>3, WatcherAssumption DEF Closed, StartWatcher, WatcherShape, UnderWay
    <3>2. Crowd' = Crowd
      BY <3>1, <2>2 DEF Crowd
    <3> QED
      BY <2>1, <2>2, <3>1, <3>2, StartGoesOn
  <2>4. CASE ~rootExists
    <3>1. UnderWay' = UnderWay \ {c}
      BY <1>2, <2>4 DEF Closed, StartWatcher, WatcherShape, UnderWay
    <3> QED
      BY <2>1, <2>2, <3>1, StartEnds
  <2> QED
    BY <2>3, <2>4
<1>3. ASSUME NEW c \in Registers, Loaded(c) PROVE WatcherInv'
  <2>1. c \in UnderWay /\ UnderWay' = UnderWay
    BY <1>3 DEF Loaded, UnderWay, WatcherShape
  <2>2. WatcherShape' /\ attached' = attached /\ overlapped' = overlapped
    BY <1>3 DEF Loaded, WatcherShape, StartStates
  <2>3. Crowd' = Crowd
    BY <2>1, <2>2 DEF Crowd
  <2> QED
    BY <2>1, <2>2, <2>3, StartGoesOn
<1>4. ASSUME NEW c \in Registers, Scanned(c) PROVE WatcherInv'
  <2>1. c \in UnderWay /\ UnderWay' = UnderWay \ {c}
    BY <1>4 DEF Scanned, UnderWay, WatcherShape
  <2>2. WatcherShape'
    BY <1>4 DEF Scanned, WatcherShape, StartStates
  <2>3. attached' = attached \cup {c} /\ handle' = c /\ overlapped' = overlapped
    BY <1>4 DEF Scanned
  <2>4. Crowd' = Crowd
    BY <2>1, <2>3 DEF Crowd
  <2> QED
    BY <2>1, <2>2, <2>3, <2>4, StartGoesOn
<1>5. ASSUME NEW c \in Registers, StartFails(c) PROVE WatcherInv'
  <2>1. c \in UnderWay /\ UnderWay' = UnderWay \ {c}
    BY <1>5 DEF StartFails, UnderWay, WatcherShape
  <2>2. WatcherShape' /\ attached' = attached /\ overlapped' = overlapped
    BY <1>5 DEF StartFails, WatcherShape, StartStates
  <2> QED
    BY <2>1, <2>2, StartEnds
<1>6. ASSUME RootAppears \/ UNCHANGED watcherVars PROVE WatcherInv'
  <2>1. WatcherShape'
    BY <1>6 DEF RootAppears, watcherVars, WatcherShape
  <2>2. /\ UnderWay' = UnderWay /\ Crowd' = Crowd /\ attached' = attached
        /\ overlapped' = overlapped /\ handle' = handle /\ running' = running
    BY <1>6 DEF RootAppears, watcherVars, UnderWay, Crowd
  <2>3. RoomToStart' /\ OneAtATime'
    BY <2>2 DEF RoomToStart, OneAtATime
  <2> QED
    BY <2>1, <2>3
<1> QED
  BY <1>1, <1>2, <1>3, <1>4, <1>5, <1>6 DEF WatcherNext

(* The invariant says what watcher.ts:305 comes to. *)
LEMMA WatcherInvAccounts == WatcherInv => WatchersAccounted
<1> SUFFICES ASSUME WatcherInv PROVE WatchersAccounted
  OBVIOUS
<1> USE DEF WatcherInv
<1>1. Cardinality(attached) <= 1 + Cardinality(overlapped)
  <2>1. /\ IsFiniteSet(Crowd) /\ IsFiniteSet(overlapped) /\ attached \in SUBSET Crowd
        /\ Cardinality(Crowd) <= 1 + Cardinality(overlapped)
    BY DEF RoomToStart, Crowd
  <2>2. /\ Cardinality(attached) <= Cardinality(Crowd) /\ IsFiniteSet(attached)
    BY <2>1, FS_Subset
  <2>3. {Cardinality(attached), Cardinality(Crowd), Cardinality(overlapped)} \subseteq Nat
    BY <2>1, <2>2, FS_CardinalityType
  <2> QED
    BY <2>1, <2>2, <2>3
<1>2. overlapped = {} => attached = running \cap {handle}
  BY DEF OneAtATime, WatcherShape
<1> QED
  BY <1>1, <1>2 DEF WatchersAccounted

(* However many times register runs, the watchers that ingest are at most one *)
(* more than the calls that began while another was under way; without such   *)
(* calls there is one at most, and the handle the page gate trusts is its      *)
(* (watcher.ts:305).                                                         *)
THEOREM WatchersAccountedAlways == WatcherSpec => []WatchersAccounted
<1>1. WatcherInit => WatcherInv
  BY WatcherInvInit
<1>2. WatcherInv /\ [WatcherNext]_watcherVars => WatcherInv'
  BY WatcherInvStep
<1>3. WatcherInv => WatchersAccounted
  BY WatcherInvAccounts
<1> QED
  BY <1>1, <1>2, <1>3, PTL DEF WatcherSpec

-----------------------------------------------------------------------------
(* The sweep.  A commit and a merge keep the time at which they came, and the  *)
(* clock does not go back (Grows).  What a row, or an evaluation under way,   *)
(* says of the past therefore stays true (ToldKept, WorkKept), and only the   *)
(* steps that read, count, look up and write have to be looked at.           *)

AskedRow == [id : Chats, start : Nat, end : Nat]
AllPulls == UNION {PullsOf[c] : c \in Shas}
Instants == [Shas -> Nat \cup {None}]
Work == [row : AskedRow \cup {None}, asOf : Nat, found : SUBSET Shas, files : Nat, reverts : Nat,
         left : SUBSET Shas, prs : SUBSET AllPulls, failed : BOOLEAN]
Sweep == [pc : {"idle", "row", "count", "write", "done"}, since : Nat, rows : SUBSET AskedRow,
          todo : SUBSET AskedRow, work : Work]

GitTypeOK ==
  /\ clock \in Nat /\ madeAt \in Instants /\ mergedAt \in Instants
  /\ repo \in {"ok"} \cup Losses
  /\ ends \in [Chats -> Nat \cup {None}] /\ began \in [Chats -> Nat]
  /\ outcomes \in [Chats -> OutcomeRow \cup {None}]
  /\ gh \in [Sweepers -> [cached : SUBSET Shas, limitedUntil : Nat]]
  /\ sweeps \in [Sweepers -> Sweep]

(* Nothing is committed or merged in the future, and what gh has said is kept *)
(* only when it is final.                                                   *)
PastFit ==
  /\ \A c \in Shas : /\ madeAt[c] # None => madeAt[c] <= clock
                     /\ mergedAt[c] # None => mergedAt[c] <= clock
  /\ \A p \in Sweepers : \A c \in gh[p].cached : mergedAt[c] # None

CommitsIn(s, end) == {c \in Made \cap Mine : CommitTime(c) \in began[s] .. end}
Reverts(C) == {r \in Made : RevertOf[r] \in C}
PullsIn(C) == UNION {PullsOf[c] : c \in C}

(* What a row says of its session. *)
Told(s, o) ==
  IF o.status = "evaluated"
    THEN \E C \in UpTo(CommitsIn(s, o.end), madeAt, o.asOf, o.asOf) :
           /\ o.commits = Cardinality(C) /\ o.files <= Cardinality(C \ Binary)
           /\ o.reverts <= Cardinality(Reverts(C))
           /\ \/ o.prs = None
              \/ \E D \in UpTo(C, mergedAt, o.asOf, o.at) : o.prs = Cardinality(PullsIn(D))
    ELSE o.commits + o.files + o.reverts = 0 /\ o.prs = None

OutcomesFit ==
  \A s \in Chats : outcomes[s] # None =>
    /\ ends[s] # None /\ outcomes[s].asOf <= clock /\ outcomes[s].at <= clock
    /\ Told(s, outcomes[s])

(* What an evaluation knows before it counts, and before it writes: the       *)
(* commits it asked about are those merged and those that were not.          *)
WorkFits(work) ==
  /\ work.row \in AskedRow /\ work.asOf <= clock
  /\ work.found \in UpTo(CommitsIn(work.row.id, work.row.end), madeAt, work.asOf, work.asOf)
LookedUp(work, D) ==
  /\ \A c \in D : mergedAt[c] # None
  /\ \/ work.failed \/ ~LookupOn
     \/ \A c \in (work.found \ work.left) \ D : mergedAt[c] = None \/ mergedAt[c] >= work.asOf
CountFits(work) ==
  /\ work.files <= Cardinality(work.found \ Binary)
  /\ work.reverts <= Cardinality(Reverts(work.found))
  /\ work.left \subseteq work.found
  /\ \E D \in SUBSET (work.found \ work.left) : work.prs = PullsIn(D) /\ LookedUp(work, D)

(* A row that was asked for is of a session that is stored, and the rows that *)
(* are done with have been written since the sweep began.                   *)
RowsFit(sweep) ==
  /\ sweep.since <= clock /\ sweep.todo \subseteq sweep.rows
  /\ sweep.pc = "done" => sweep.todo = {}
  /\ \A row \in sweep.rows : row.start = began[row.id] /\ ends[row.id] # None
  /\ \A row \in sweep.rows \ sweep.todo :
       \/ row.id \in Throwing
       \/ outcomes[row.id] # None /\ outcomes[row.id].at >= sweep.since
SweepFits(sweep) ==
  /\ RowsFit(sweep)
  /\ sweep.pc \in {"count", "write"} => sweep.work.row \in sweep.todo /\ WorkFits(sweep.work)
  /\ sweep.pc = "count" => sweep.work.prs = {}
  /\ sweep.pc = "write" => CountFits(sweep.work)
SweepsFit == \A p \in Sweepers : SweepFits(sweeps[p])

GitInv == GitTypeOK /\ PastFit /\ OutcomesFit /\ SweepsFit

-----------------------------------------------------------------------------
LEMMA StepCases ==
  ASSUME [GitNext]_gitVars
  PROVE  \/ \E p \in Sweepers : SweepStep(p)
         \/ \E s \in Chats : StoreSession(s)
         \/ \E c \in Shas : MakeCommit(c) \/ MergePulls(c)
         \/ MoveRepo
         \/ TickSweep
         \/ UNCHANGED gitVars
BY DEF GitNext

LEMMA SweepCases ==
  ASSUME NEW p \in Sweepers, SweepStep(p)
  PROVE  \/ \E force \in BOOLEAN : BeginSweep(p, force)
         \/ \E row \in sweeps[p].todo : ReadCommits(p, row) \/ EvaluationThrows(p, row)
         \/ CountChanges(p)
         \/ \E c \in sweeps[p].work.left, answer \in Answers : LookUp(p, c, answer)
         \/ WriteOutcome(p)
         \/ EndSweep(p)
BY DEF SweepStep

(* The step of a sweep leaves the world as it is. *)
LEMMA SweepLeaves ==
  ASSUME NEW p \in Sweepers, SweepStep(p)
  PROVE  UNCHANGED <<clock, madeAt, mergedAt, repo, ends, began>>
BY SweepCases DEF BeginSweep, ReadCommits, EvaluationThrows, CountChanges, LookUp, WriteOutcome, EndSweep

(* What every step lets be: instants that are known, the time, and sessions    *)
(* that are stored.                                                         *)
Known(at, next) ==
  \A c \in Shas : IF at[c] # None THEN next[c] = at[c] ELSE next[c] \in {None, clock}
Grows ==
  /\ clock <= clock' /\ Known(madeAt, madeAt') /\ Known(mergedAt, mergedAt')
  /\ \A s \in Chats : ends[s] # None => ends'[s] # None /\ began'[s] = began[s]

LEMMA StepGrows ==
  ASSUME GitTypeOK, [GitNext]_gitVars
  PROVE  Grows
<1>0. clock \in Nat /\ MaxSweepNow \in Nat /\ None \notin Nat
  BY GitAssumption DEF GitTypeOK
<1>1. ASSUME NEW p \in Sweepers, SweepStep(p) PROVE Grows
  BY <1>0, <1>1, SweepLeaves DEF Grows, Known
<1>2. ASSUME NEW s \in Chats, StoreSession(s) PROVE Grows
  <2>1. PICK t \in {t \in 2 .. clock : ends[s] = None \/ ends[s] < t} :
          /\ ends' = [ends EXCEPT ![s] = t]
          /\ began' = IF ends[s] = None THEN [began EXCEPT ![s] = t] ELSE began
    BY <1>2 DEF StoreSession
  <2>2. t # None
    BY <1>0
  <2> QED BY <1>0, <1>2, <2>1, <2>2 DEF StoreSession, Grows, Known, GitTypeOK
<1>3. ASSUME NEW c \in Shas, MakeCommit(c) PROVE Grows
  BY <1>0, <1>3 DEF MakeCommit, Grows, Known, GitTypeOK, Instants
<1>4. ASSUME NEW c \in Shas, MergePulls(c) PROVE Grows
  BY <1>0, <1>4 DEF MergePulls, Grows, Known, GitTypeOK, Instants
<1>5. CASE MoveRepo
  BY <1>0, <1>5 DEF MoveRepo, Grows, Known
<1>6. CASE TickSweep
  BY <1>0, <1>6 DEF TickSweep, Grows, Known
<1>7. CASE UNCHANGED gitVars
  BY <1>0, <1>7 DEF gitVars, Grows, Known
<1> QED BY <1>1, <1>2, <1>3, <1>4, <1>5, <1>6, <1>7, StepCases

-----------------------------------------------------------------------------
(* What was true of the past stays true.                                    *)

LEMMA UpToKept ==
  ASSUME NEW at \in Instants, NEW next \in Instants, clock \in Nat, Known(at, next),
         NEW C \in SUBSET Shas, NEW from \in Nat, from <= clock, NEW to,
         NEW D \in UpTo(C, at, from, to)
  PROVE  D \in UpTo(C, next, from, to)
<1>1. ASSUME NEW c \in D PROVE next[c] # None /\ next[c] <= to
  BY <1>1 DEF UpTo, Known
<1>2. ASSUME NEW c \in C \ D PROVE next[c] = None \/ next[c] >= from
  BY <1>2 DEF UpTo, Known, Instants
<1> QED BY <1>1, <1>2 DEF UpTo

LEMMA CommitsKept ==
  ASSUME GitTypeOK, Grows, NEW s \in Chats, ends[s] # None, NEW end, NEW t \in Nat, t <= clock,
         NEW C \in UpTo(CommitsIn(s, end), madeAt, t, t)
  PROVE  /\ C \in SUBSET Shas
         /\ (C \in UpTo(CommitsIn(s, end), madeAt, t, t))'
<1>1. ASSUME NEW c \in C PROVE c \in CommitsIn(s, end)' /\ madeAt'[c] = madeAt[c]
  BY <1>1 DEF UpTo, CommitsIn, Made, CommitTime, Grows, Known
<1>2. ASSUME NEW c \in CommitsIn(s, end)', c \notin C
      PROVE  madeAt'[c] = None \/ madeAt'[c] >= t
  <2>1. c \in Shas /\ c \in Mine /\ CommitTime(c)' \in began'[s] .. end
    BY <1>2 DEF CommitsIn, Made
  <2>2. CASE madeAt[c] = None
    BY <2>1, <2>2 DEF Grows, Known, GitTypeOK
  <2>3. CASE madeAt[c] # None
    <3>1. madeAt'[c] = madeAt[c] /\ began'[s] = began[s]
      BY <2>1, <2>3 DEF Grows, Known
    <3>2. c \in CommitsIn(s, end)
      BY <2>1, <2>3, <3>1 DEF CommitsIn, Made, CommitTime
    <3> QED BY <1>2, <3>1, <3>2 DEF UpTo
  <2> QED BY <2>2, <2>3
<1>3. C \in SUBSET Shas
  BY DEF UpTo, CommitsIn, Made
<1>4. \A c \in C : madeAt'[c] # None /\ madeAt'[c] <= t
  BY <1>1 DEF UpTo
<1> QED BY <1>1, <1>2, <1>3, <1>4 DEF UpTo

LEMMA RevertsKept ==
  ASSUME Grows, NEW C
  PROVE  /\ Reverts(C) \subseteq Reverts(C)' /\ IsFiniteSet(Reverts(C)')
         /\ Cardinality(Reverts(C)) \in Nat /\ Cardinality(Reverts(C)') \in Nat
         /\ Cardinality(Reverts(C)) <= Cardinality(Reverts(C)')
<1>1. Reverts(C) \subseteq Reverts(C)'
  BY DEF Reverts, Made, Grows, Known
<1>2. Reverts(C) \in SUBSET Shas /\ Reverts(C)' \in SUBSET Shas
  BY DEF Reverts, Made
<1>3. IsFiniteSet(Reverts(C)) /\ IsFiniteSet(Reverts(C)')
  BY <1>2, FS_Subset, GitAssumption
<1> QED BY <1>1, <1>3, FS_Subset, FS_CardinalityType

LEMMA ToldKept ==
  ASSUME GitTypeOK, GitTypeOK', Grows, NEW s \in Chats, ends[s] # None,
         NEW o \in OutcomeRow, o.asOf <= clock, Told(s, o)
  PROVE  Told(s, o)'
<1>1. CASE o.status # "evaluated"
  BY <1>1 DEF Told
<1>2. CASE o.status = "evaluated"
  <2>0. o.asOf \in Nat /\ o.reverts \in Nat
    BY DEF OutcomeRow
  <2>1. PICK C \in UpTo(CommitsIn(s, o.end), madeAt, o.asOf, o.asOf) :
          /\ o.commits = Cardinality(C) /\ o.files <= Cardinality(C \ Binary)
          /\ o.reverts <= Cardinality(Reverts(C))
          /\ \/ o.prs = None
             \/ \E D \in UpTo(C, mergedAt, o.asOf, o.at) : o.prs = Cardinality(PullsIn(D))
    BY <1>2 DEF Told
  <2>2. C \in SUBSET Shas /\ (C \in UpTo(CommitsIn(s, o.end), madeAt, o.asOf, o.asOf))'
    BY <2>0, CommitsKept
  <2>3. o.reverts <= Cardinality(Reverts(C)')
    BY <2>0, <2>1, RevertsKept
  <2>4. o.prs = None \/ \E D \in UpTo(C, mergedAt', o.asOf, o.at) : o.prs = Cardinality(PullsIn(D))
    <3>1. \A D \in UpTo(C, mergedAt, o.asOf, o.at) : D \in UpTo(C, mergedAt', o.asOf, o.at)
      BY <2>0, <2>2, UpToKept DEF Grows, GitTypeOK
    <3> QED BY <2>1, <3>1
  <2> QED BY <1>2, <2>1, <2>2, <2>3, <2>4 DEF Told
<1> QED BY <1>1, <1>2

-----------------------------------------------------------------------------
(* Types.                                                                   *)

LEMMA Finite ==
  /\ \A C \in SUBSET Shas : IsFiniteSet(C) /\ Cardinality(C) \in Nat
  /\ \A C \in SUBSET Shas : \A D \in SUBSET C : Cardinality(D) <= Cardinality(C)
  /\ IsFiniteSet(AllPulls)
<1>1. \A C \in SUBSET Shas : IsFiniteSet(C)
  BY FS_Subset, GitAssumption
<1>2. IsFiniteSet({PullsOf[c] : c \in Shas})
  <2> DEFINE f == [c \in Shas |-> PullsOf[c]]
  <2>1. f \in Surjection(Shas, {PullsOf[c] : c \in Shas})
    BY Fun_IsSurj
  <2> QED BY <2>1, FS_Surjection, GitAssumption
<1>3. IsFiniteSet(AllPulls)
  BY <1>2, FS_UNION, GitAssumption DEF AllPulls
<1> QED BY <1>1, <1>3, FS_Subset, FS_CardinalityType

LEMMA WorkTyped ==
  ASSUME NEW work \in Work
  PROVE  /\ FilesChanged(work.found) \in Nat /\ CountReverts(work.found) \in Nat
         /\ CountReverts(work.found) <= Cardinality(Reverts(work.found))
         /\ Cardinality(work.found) \in Nat /\ Cardinality(work.prs) \in Nat
<1> DEFINE reverts == {r \in Made : \E c \in work.found :
      RevertOf[r] = c /\ CommitTime(r) \in CommitTime(c) .. (CommitTime(c) + RevertWindow)}
<1>1. work.found \in SUBSET Shas /\ work.found \ Binary \in SUBSET Shas
  BY DEF Work
<1>2. Reverts(work.found) \in SUBSET Shas /\ reverts \in SUBSET Reverts(work.found)
  BY DEF Reverts, Made
<1>3. work.prs \in SUBSET AllPulls
  BY DEF Work
<1>4. Cardinality(work.prs) \in Nat
  BY <1>3, Finite, FS_Subset, FS_CardinalityType
<1>5. Cardinality(reverts) \in Nat /\ Cardinality(reverts) <= Cardinality(Reverts(work.found))
  BY <1>2, Finite
<1> QED BY <1>1, <1>4, <1>5, Finite DEF FilesChanged, CountReverts

LEMMA RowsTyped ==
  ASSUME GitTypeOK, NEW work \in Work, NEW row \in AskedRow
  PROVE  /\ repo # "ok" => StatusOnly(repo, row) \in OutcomeRow \ {None}
         /\ work.row \in AskedRow => Evaluated(work) \in OutcomeRow \ {None}
<1>1. repo # "ok" => StatusOnly(repo, row) \in OutcomeRow
  BY DEF StatusOnly, OutcomeRow, AskedRow, GitTypeOK
<1>2. MergedPrCount(work) \in Nat \cup {None}
  BY WorkTyped DEF MergedPrCount
<1>3. work.row \in AskedRow => Evaluated(work) \in OutcomeRow
  BY <1>2, WorkTyped DEF Evaluated, OutcomeRow, Work, AskedRow, GitTypeOK
<1> QED BY <1>1, <1>3, GitAssumption

LEMMA NoWorkTyped == NoWork \in Work /\ NoSweep \in Sweep
BY DEF NoWork, NoSweep, Work, Sweep

(* A row that is done with. *)
LEMMA AfterRowTyped ==
  ASSUME NEW sweep \in Sweep, NEW row
  PROVE  /\ AfterRow(sweep, row) \in Sweep
         /\ AfterRow(sweep, row).since = sweep.since /\ AfterRow(sweep, row).rows = sweep.rows
         /\ AfterRow(sweep, row).todo = sweep.todo \ {row}
         /\ AfterRow(sweep, row).pc = IF sweep.todo = {row} THEN "done" ELSE "row"
<1>1. PICK pc \in {"row", "done"} : pc = IF sweep.todo = {row} THEN "done" ELSE "row"
  OBVIOUS
<1>2. AfterRow(sweep, row) = [sweep EXCEPT !.pc = pc, !.todo = @ \ {row}, !.work = NoWork]
  BY <1>1 DEF AfterRow
<1>3. AfterRow(sweep, row) \in Sweep
  BY <1>2, NoWorkTyped DEF Sweep
<1>4. /\ AfterRow(sweep, row).since = sweep.since /\ AfterRow(sweep, row).rows = sweep.rows
      /\ AfterRow(sweep, row).todo = sweep.todo \ {row} /\ AfterRow(sweep, row).pc = pc
  BY <1>2 DEF Sweep
<1> QED BY <1>1, <1>3, <1>4

(* A row that is written is written now. *)
RowWritten ==
  \A s \in Chats : outcomes'[s] = outcomes[s] \/ (outcomes'[s] # None /\ outcomes'[s].at = clock)

(* What a step of a sweep does to its record and to the rows. *)
LEMMA SweepTyped ==
  ASSUME GitTypeOK, SweepsFit, NEW p \in Sweepers, SweepStep(p)
  PROVE  /\ \E sweep \in Sweep : sweeps' = [sweeps EXCEPT ![p] = sweep]
         /\ outcomes' \in [Chats -> OutcomeRow \cup {None}] /\ RowWritten
         /\ gh' \in [Sweepers -> [cached : SUBSET Shas, limitedUntil : Nat]]
<1>0. sweeps[p] \in Sweep /\ sweeps[p].work \in Work /\ clock \in Nat
  BY DEF GitTypeOK, Sweep
<1>1. ASSUME NEW force \in BOOLEAN, BeginSweep(p, force)
      PROVE  \E sweep \in Sweep : sweeps' = [sweeps EXCEPT ![p] = sweep]
  <2>1. PICK rows :
          /\ rows = {[id |-> s, start |-> began[s], end |-> ends[s]] :
                 s \in {s \in Chats : Outdated(s) /\ (force \/ ends[s] + SweepWindow >= clock)}}
          /\ sweeps' = [sweeps EXCEPT ![p] = [NoSweep EXCEPT !.pc = "row", !.since = clock,
                                        !.rows = rows, !.todo = rows]]
    BY <1>1 DEF BeginSweep
  <2>2. rows \subseteq AskedRow
    BY <2>1 DEF AskedRow, GitTypeOK, Outdated
  <2> QED BY <1>0, <2>1, <2>2, NoWorkTyped DEF Sweep
<1>2. ASSUME NEW row \in sweeps[p].todo, ReadCommits(p, row)
      PROVE  /\ \E sweep \in Sweep : sweeps' = [sweeps EXCEPT ![p] = sweep]
             /\ outcomes' \in [Chats -> OutcomeRow \cup {None}] /\ RowWritten
  <2>0. row \in AskedRow
    BY <1>0 DEF Sweep
  <2>1. CASE repo = "ok"
    <3>1. PICK work : /\ work = [NoWork EXCEPT !.row = row, !.asOf = clock,
                                !.found = EnumerateSessionCommits(row.start, row.end)]
                      /\ SetWork(p, "count", work) /\ outcomes' = outcomes
      BY <1>2, <2>1 DEF ReadCommits
    <3>2. EnumerateSessionCommits(row.start, row.end) \in SUBSET Shas
      BY DEF EnumerateSessionCommits, Made
    <3>3. work \in Work
      BY <1>0, <2>0, <3>1, <3>2, NoWorkTyped DEF Work
    <3> QED BY <1>0, <3>1, <3>3 DEF SetWork, GitTypeOK, Sweep, RowWritten
  <2>2. CASE repo # "ok"
    <3>1. /\ sweeps' = [sweeps EXCEPT ![p] = AfterRow(sweeps[p], row)]
          /\ outcomes' = [outcomes EXCEPT ![row.id] = StatusOnly(repo, row)]
      BY <1>2, <2>2 DEF ReadCommits
    <3>2. StatusOnly(repo, row) \in OutcomeRow \ {None}
      BY <1>0, <2>0, <2>2, RowsTyped
    <3>3. StatusOnly(repo, row) # None /\ StatusOnly(repo, row).at = clock
      BY <3>2 DEF StatusOnly
    <3>4. RowWritten
      BY <3>1, <3>3 DEF RowWritten, GitTypeOK
    <3> QED BY <1>0, <3>1, <3>2, <3>4, AfterRowTyped DEF GitTypeOK
  <2> QED BY <2>1, <2>2
<1>3. ASSUME NEW row \in sweeps[p].todo, EvaluationThrows(p, row)
      PROVE  \E sweep \in Sweep : sweeps' = [sweeps EXCEPT ![p] = sweep]
  BY <1>0, <1>3, AfterRowTyped DEF EvaluationThrows
<1>4. ASSUME CountChanges(p)
      PROVE  \E sweep \in Sweep : sweeps' = [sweeps EXCEPT ![p] = sweep]
  <2>1. PICK files \in 0 .. FilesChanged(sweeps[p].work.found),
             reverts \in 0 .. CountReverts(sweeps[p].work.found) :
          SetWork(p, "write", [sweeps[p].work EXCEPT !.files = files, !.reverts = reverts, !.failed = Gone,
                                 !.left = IF LookupOn /\ ~Gone THEN sweeps[p].work.found ELSE {}])
    BY <1>4 DEF CountChanges
  <2>2. PICK failed \in BOOLEAN : failed = Gone
    BY DEF Gone
  <2>3. PICK left \in SUBSET Shas : left = IF LookupOn /\ ~Gone THEN sweeps[p].work.found ELSE {}
    BY <1>0 DEF Work
  <2>4. PICK work : /\ work = [sweeps[p].work EXCEPT !.files = files, !.reverts = reverts,
                                                     !.failed = failed, !.left = left]
                    /\ SetWork(p, "write", work)
    BY <2>1, <2>2, <2>3
  <2>5. files \in Nat /\ reverts \in Nat
    BY <1>0, WorkTyped
  <2>6. work \in Work
    BY <1>0, <2>4, <2>5 DEF Work
  <2> QED BY <1>0, <2>4, <2>6 DEF SetWork, Sweep
<1>5. ASSUME NEW c \in sweeps[p].work.left, NEW answer \in Answers, LookUp(p, c, answer)
      PROVE  /\ \E sweep \in Sweep : sweeps' = [sweeps EXCEPT ![p] = sweep]
             /\ gh' \in [Sweepers -> [cached : SUBSET Shas, limitedUntil : Nat]]
  <2>1. PICK result : result = LookupMergedPrCount(gh[p], c, answer)
    OBVIOUS
  <2>2. c \in Shas /\ gh[p] \in [cached : SUBSET Shas, limitedUntil : Nat] /\ LimitWindow \in Nat
    BY <1>0, GitAssumption DEF Work, GitTypeOK
  <2>3. result.prs \in SUBSET AllPulls /\ result.gh \in [cached : SUBSET Shas, limitedUntil : Nat]
    BY <1>0, <2>1, <2>2 DEF LookupMergedPrCount, AllPulls, Answers
  <2>4. PICK failed \in BOOLEAN : failed = (sweeps[p].work.failed \/ result.status \notin Counted)
    OBVIOUS
  <2>5. PICK work : /\ work = [sweeps[p].work EXCEPT !.left = @ \ {c}, !.prs = @ \cup result.prs,
                                                     !.failed = failed]
                    /\ SetWork(p, "write", work)
    BY <1>5, <2>1, <2>4 DEF LookUp
  <2>6. work \in Work
    BY <1>0, <2>3, <2>5 DEF Work
  <2>7. gh' = [gh EXCEPT ![p] = result.gh]
    BY <1>5, <2>1 DEF LookUp
  <2> QED BY <1>0, <2>3, <2>5, <2>6, <2>7 DEF SetWork, Sweep, GitTypeOK
<1>6. ASSUME WriteOutcome(p)
      PROVE  /\ \E sweep \in Sweep : sweeps' = [sweeps EXCEPT ![p] = sweep]
             /\ outcomes' \in [Chats -> OutcomeRow \cup {None}] /\ RowWritten
  <2>1. PICK work \in Work :
          /\ work = sweeps[p].work /\ outcomes' = [outcomes EXCEPT ![work.row.id] = Evaluated(work)]
          /\ sweeps' = [sweeps EXCEPT ![p] = AfterRow(sweeps[p], work.row)]
    BY <1>0, <1>6 DEF WriteOutcome
  <2>2. work.row \in AskedRow
    BY <1>6, <2>1 DEF WriteOutcome, SweepsFit, SweepFits, WorkFits
  <2>3. Evaluated(work) \in OutcomeRow \ {None}
    BY <2>1, <2>2, RowsTyped
  <2>4. Evaluated(work) # None /\ Evaluated(work).at = clock
    BY <2>3 DEF Evaluated
  <2>5. RowWritten
    BY <2>1, <2>4 DEF RowWritten, GitTypeOK
  <2> QED BY <1>0, <2>1, <2>2, <2>3, <2>5, AfterRowTyped DEF GitTypeOK, AskedRow
<1>7. CASE EndSweep(p)
  BY <1>7, NoWorkTyped DEF EndSweep, GitTypeOK, RowWritten
<1>8. CASE \E row \in sweeps[p].todo : ReadCommits(p, row) \/ EvaluationThrows(p, row)
  <2>1. CASE \E row \in sweeps[p].todo : ReadCommits(p, row)
    BY <1>2, <2>1 DEF ReadCommits, GitTypeOK
  <2>2. CASE \E row \in sweeps[p].todo : EvaluationThrows(p, row)
    BY <1>3, <2>2 DEF EvaluationThrows, GitTypeOK, RowWritten
  <2> QED BY <1>8, <2>1, <2>2
<1>9. CASE \E c \in sweeps[p].work.left, answer \in Answers : LookUp(p, c, answer)
  BY <1>5, <1>9 DEF LookUp, GitTypeOK, RowWritten
<1> QED BY <1>1, <1>4, <1>6, <1>7, <1>8, <1>9, SweepCases
        DEF BeginSweep, CountChanges, WriteOutcome, EndSweep, GitTypeOK, RowWritten

LEMMA TypeStep ==
  ASSUME GitTypeOK, SweepsFit, [GitNext]_gitVars
  PROVE  GitTypeOK'
<1>0. clock \in Nat /\ None \notin Nat
  BY GitAssumption DEF GitTypeOK
<1>1. ASSUME NEW p \in Sweepers, SweepStep(p) PROVE GitTypeOK'
  BY <1>1, SweepLeaves, SweepTyped DEF GitTypeOK
<1>2. ASSUME NEW s \in Chats, StoreSession(s) PROVE GitTypeOK'
  <2>1. PICK t \in {t \in 2 .. clock : ends[s] = None \/ ends[s] < t} :
          /\ ends' = [ends EXCEPT ![s] = t]
          /\ began' = IF ends[s] = None THEN [began EXCEPT ![s] = t] ELSE began
    BY <1>2 DEF StoreSession
  <2>2. t \in Nat
    BY <1>0
  <2> QED BY <1>2, <2>1, <2>2 DEF StoreSession, GitTypeOK
<1>3. ASSUME NEW c \in Shas, MakeCommit(c) PROVE GitTypeOK'
  BY <1>3 DEF MakeCommit, GitTypeOK, Instants
<1>4. ASSUME NEW c \in Shas, MergePulls(c) PROVE GitTypeOK'
  BY <1>4 DEF MergePulls, GitTypeOK, Instants
<1>5. CASE MoveRepo
  BY <1>5 DEF MoveRepo, GitTypeOK
<1>6. CASE TickSweep
  BY <1>6 DEF TickSweep, GitTypeOK
<1>7. CASE UNCHANGED gitVars
  BY <1>7 DEF gitVars, GitTypeOK
<1> QED BY <1>1, <1>2, <1>3, <1>4, <1>5, <1>6, <1>7, StepCases

LEMMA PastStep ==
  ASSUME GitTypeOK, SweepsFit, PastFit, [GitNext]_gitVars
  PROVE  PastFit'
<1>1. Grows /\ GitTypeOK' /\ None \notin Nat
  BY StepGrows, TypeStep, GitAssumption
<1>2. ASSUME NEW c \in Shas
      PROVE  /\ madeAt'[c] # None => madeAt'[c] <= clock'
             /\ mergedAt'[c] # None => mergedAt'[c] <= clock'
  BY <1>1, <1>2 DEF Grows, Known, PastFit, GitTypeOK, Instants
<1>3. ASSUME NEW p \in Sweepers, NEW c \in gh'[p].cached PROVE mergedAt'[c] # None
  <2>1. c \in Shas
    BY <1>1 DEF GitTypeOK
  <2>2. c \in gh[p].cached \/ mergedAt[c] # None
    <3>1. CASE \E q \in Sweepers : \E d \in sweeps[q].work.left, answer \in Answers : LookUp(q, d, answer)
      <4>0. PICK q \in Sweepers :
              \E d \in sweeps[q].work.left, answer \in Answers : LookUp(q, d, answer)
        BY <3>1
      <4>1. PICK d \in sweeps[q].work.left, answer \in Answers : LookUp(q, d, answer)
        BY <4>0
      <4>2. gh' = [gh EXCEPT ![q] = LookupMergedPrCount(gh[q], d, answer).gh]
        BY <4>1 DEF LookUp
      <4>3. LookupMergedPrCount(gh[q], d, answer).gh.cached \subseteq
              gh[q].cached \cup {e \in {d} : mergedAt[e] # None}
        BY DEF LookupMergedPrCount, GitTypeOK, Answers
      <4> QED BY <1>3, <4>2, <4>3 DEF GitTypeOK
    <3>2. CASE gh' = gh
      BY <1>3, <3>2
    <3>3. (\E q \in Sweepers : SweepStep(q)) =>
            \/ \E q \in Sweepers : \E d \in sweeps[q].work.left, answer \in Answers : LookUp(q, d, answer)
            \/ gh' = gh
      BY SweepCases DEF BeginSweep, ReadCommits, EvaluationThrows, CountChanges, WriteOutcome, EndSweep
    <3> QED BY <3>1, <3>2, <3>3, StepCases
            DEF StoreSession, MakeCommit, MergePulls, MoveRepo, TickSweep, gitVars
  <2>3. mergedAt[c] # None
    BY <2>2 DEF PastFit
  <2> QED BY <1>1, <2>1, <2>3 DEF Grows, Known
<1> QED BY <1>2, <1>3 DEF PastFit

LEMMA StepWritten ==
  ASSUME GitTypeOK, SweepsFit, [GitNext]_gitVars
  PROVE  RowWritten
<1>1. ASSUME NEW p \in Sweepers, SweepStep(p) PROVE RowWritten
  BY <1>1, SweepTyped
<1>2. CASE outcomes' = outcomes
  BY <1>2 DEF RowWritten
<1> QED BY <1>1, <1>2, StepCases DEF StoreSession, MakeCommit, MergePulls, MoveRepo, TickSweep, gitVars

-----------------------------------------------------------------------------
(* The sweeps.                                                              *)

(* What holds of a record holds of the variable that has it. *)
LEMMA Named ==
  ASSUME NEW p \in Sweepers, NEW sweep, sweep = sweeps'[p], SweepFits(sweep)'
  PROVE  SweepFits(sweeps[p])'
BY DEF SweepFits, RowsFit, WorkFits, CountFits, LookedUp, CommitsIn, Reverts, Made, CommitTime

LEMMA RowsKept ==
  ASSUME GitTypeOK, GitTypeOK', Grows, RowWritten, NEW sweep \in Sweep, RowsFit(sweep)
  PROVE  RowsFit(sweep)'
<1>1. sweep.since \in Nat /\ clock \in Nat /\ clock' \in Nat /\ clock' >= clock
  BY DEF Sweep, GitTypeOK, Grows
<1>2. \A row \in sweep.rows : row.id \in Chats
  BY DEF Sweep, AskedRow
<1>3. sweep.since <= clock'
  BY <1>1 DEF RowsFit, Grows, GitTypeOK
<1>4. \A row \in sweep.rows : row.start = began'[row.id] /\ ends'[row.id] # None
  BY <1>2 DEF RowsFit, Grows
<1>5. \A row \in sweep.rows \ sweep.todo :
        row.id \in Throwing \/ (outcomes'[row.id] # None /\ outcomes'[row.id].at >= sweep.since)
  BY <1>1, <1>2 DEF RowsFit, RowWritten
<1> QED BY <1>3, <1>4, <1>5 DEF RowsFit

LEMMA WorkKept ==
  ASSUME GitTypeOK, GitTypeOK', Grows, NEW work \in Work, WorkFits(work), ends[work.row.id] # None
  PROVE  WorkFits(work)' /\ (CountFits(work) => CountFits(work)')
<1>0. /\ work.row \in AskedRow /\ work.row.id \in Chats /\ work.asOf \in Nat
      /\ work.asOf <= clock /\ work.asOf <= clock' /\ clock \in Nat /\ clock' \in Nat
  BY DEF WorkFits, Work, AskedRow, Grows, GitTypeOK
<1>1. WorkFits(work)'
  <2>1. (work.found \in UpTo(CommitsIn(work.row.id, work.row.end), madeAt, work.asOf, work.asOf))'
    BY <1>0, CommitsKept DEF WorkFits
  <2> QED BY <1>0, <2>1 DEF WorkFits
<1>2. ASSUME CountFits(work) PROVE CountFits(work)'
  <2>1. PICK D \in SUBSET (work.found \ work.left) : work.prs = PullsIn(D) /\ LookedUp(work, D)
    BY <1>2 DEF CountFits
  <2>2. D \in SUBSET Shas /\ work.found \in SUBSET Shas
    BY DEF Work
  <2>3. LookedUp(work, D)'
    BY <1>0, <2>1, <2>2 DEF LookedUp, Grows, Known, GitTypeOK
  <2>4. work.reverts <= Cardinality(Reverts(work.found)')
    <3>1. work.reverts \in Nat
      BY DEF Work
    <3> QED BY <1>2, <3>1, RevertsKept DEF CountFits
  <2> QED BY <1>2, <2>1, <2>3, <2>4 DEF CountFits
<1> QED BY <1>1, <1>2

LEMMA SweepKept ==
  ASSUME GitTypeOK, GitTypeOK', Grows, RowWritten, NEW sweep \in Sweep, SweepFits(sweep)
  PROVE  SweepFits(sweep)'
<1>1. RowsFit(sweep)'
  BY RowsKept DEF SweepFits
<1>2. ASSUME sweep.pc \in {"count", "write"}
      PROVE  WorkFits(sweep.work)' /\ (CountFits(sweep.work) => CountFits(sweep.work)')
  <2>1. sweep.work \in Work /\ WorkFits(sweep.work) /\ ends[sweep.work.row.id] # None
    BY <1>2 DEF SweepFits, RowsFit, Sweep
  <2> QED BY <2>1, WorkKept
<1> QED BY <1>1, <1>2 DEF SweepFits

(* A row that has been written, or whose evaluation throws, is done with. *)
LEMMA AfterRowFits ==
  ASSUME GitTypeOK, GitTypeOK', Grows, RowWritten, NEW sweep \in Sweep, SweepFits(sweep),
         NEW row \in sweep.todo,
         row.id \in Throwing \/ (outcomes'[row.id] # None /\ outcomes'[row.id].at = clock)
  PROVE  SweepFits(AfterRow(sweep, row))'
<1>1. PICK next : next = AfterRow(sweep, row)
  OBVIOUS
<1>2. /\ next.since = sweep.since /\ next.rows = sweep.rows /\ next.todo = sweep.todo \ {row}
      /\ next.pc = (IF sweep.todo = {row} THEN "done" ELSE "row")
  BY <1>1, AfterRowTyped
<1>3. RowsFit(sweep) /\ RowsFit(sweep)' /\ sweep.since \in Nat /\ clock \in Nat
  BY RowsKept DEF SweepFits, Sweep, GitTypeOK
<1>4. RowsFit(next)'
  BY <1>2, <1>3 DEF RowsFit
<1>5. SweepFits(next)'
  BY <1>2, <1>4 DEF SweepFits
<1> QED BY <1>1, <1>5

(* What gh answers, now or from the cache. *)
LEMMA LookUpAnswers ==
  ASSUME GitTypeOK, PastFit, NEW p \in Sweepers, NEW c \in Shas, NEW answer \in Answers,
         NEW result, result = LookupMergedPrCount(gh[p], c, answer)
  PROVE  \/ result.prs = PullsOf[c] /\ mergedAt[c] # None
         \/ result.prs = {} /\ (mergedAt[c] = None \/ result.status \notin Counted)
<1>1. c \in gh[p].cached => mergedAt[c] # None
  BY DEF PastFit
<1>2. CASE c \in gh[p].cached
  BY <1>1, <1>2 DEF LookupMergedPrCount
<1>3. CASE c \notin gh[p].cached /\ clock < gh[p].limitedUntil
  BY <1>3 DEF LookupMergedPrCount, Counted
<1>4. CASE c \notin gh[p].cached /\ ~(clock < gh[p].limitedUntil)
  BY <1>4 DEF LookupMergedPrCount, Counted, Answers
<1> QED BY <1>2, <1>3, <1>4

(* The evaluation goes on: nothing has been counted, or looked up, yet. *)
LEMMA CountStarts ==
  ASSUME GitTypeOK, NEW p \in Sweepers, CountChanges(p), NEW sweep \in Sweep, sweep = sweeps[p],
         SweepFits(sweep)
  PROVE  \E work \in Work : /\ sweeps'[p] = [sweep EXCEPT !.pc = "write", !.work = work]
                           /\ work.row = sweep.work.row /\ WorkFits(work) /\ CountFits(work)
<1>0. /\ sweep.work \in Work /\ sweep.pc = "count" /\ WorkFits(sweep.work) /\ sweep.work.prs = {}
      /\ FilesChanged(sweep.work.found) \in Nat /\ CountReverts(sweep.work.found) \in Nat
  BY WorkTyped DEF Sweep, SweepFits, CountChanges
<1>1. PICK files \in 0 .. FilesChanged(sweep.work.found), reverts \in 0 .. CountReverts(sweep.work.found) :
        SetWork(p, "write", [sweep.work EXCEPT !.files = files, !.reverts = reverts, !.failed = Gone,
                               !.left = IF LookupOn /\ ~Gone THEN sweep.work.found ELSE {}])
  BY DEF CountChanges
<1>2. PICK failed \in BOOLEAN : failed = Gone
  BY DEF Gone
<1>3. PICK left : left = IF LookupOn /\ ~Gone THEN sweep.work.found ELSE {}
  OBVIOUS
<1>4. PICK work : work = [sweep.work EXCEPT !.files = files, !.reverts = reverts,
                                           !.failed = failed, !.left = left]
  OBVIOUS
<1>5. /\ work.row = sweep.work.row /\ work.asOf = sweep.work.asOf /\ work.found = sweep.work.found
      /\ work.prs = {} /\ work.files = files /\ work.reverts = reverts
      /\ work.failed = failed /\ work.left = left
  BY <1>0, <1>4 DEF Work
<1>6. work \in Work
  <2>1. files \in Nat /\ reverts \in Nat /\ left \in SUBSET Shas
    BY <1>0, <1>3 DEF Work
  <2> QED BY <1>0, <1>4, <2>1 DEF Work
<1>7. sweeps'[p] = [sweep EXCEPT !.pc = "write", !.work = work]
  BY <1>1, <1>2, <1>3, <1>4 DEF SetWork, GitTypeOK
<1>8. WorkFits(work)
  BY <1>0, <1>5 DEF WorkFits
<1>9. CountFits(work)
  <2>1. work.files <= Cardinality(work.found \ Binary)
    BY <1>0, <1>5 DEF FilesChanged
  <2>2. work.reverts <= Cardinality(Reverts(work.found))
    <3>1. reverts \in Nat /\ reverts <= CountReverts(sweep.work.found)
      BY <1>0
    <3>2. Reverts(work.found) \in SUBSET Shas
      BY DEF Reverts, Made
    <3> QED BY <1>0, <1>5, <3>1, <3>2, WorkTyped, Finite
  <2>3. work.left \subseteq work.found
    BY <1>3, <1>5
  <2>4. PullsIn({}) = {}
    BY DEF PullsIn
  <2>5. LookedUp(work, {})
    BY <1>2, <1>3, <1>5 DEF LookedUp
  <2> QED BY <1>5, <2>1, <2>2, <2>3, <2>4, <2>5 DEF CountFits
<1> QED BY <1>5, <1>6, <1>7, <1>8, <1>9

LEMMA LookUpGoesOn ==
  ASSUME GitTypeOK, PastFit, NEW p \in Sweepers, NEW sweep \in Sweep, sweep = sweeps[p],
         SweepFits(sweep), NEW c \in sweep.work.left, NEW answer \in Answers, LookUp(p, c, answer)
  PROVE  \E work \in Work : /\ sweeps'[p] = [sweep EXCEPT !.pc = "write", !.work = work]
                           /\ work.row = sweep.work.row /\ WorkFits(work) /\ CountFits(work)
<1>0. /\ sweep.work \in Work /\ sweep.pc = "write" /\ WorkFits(sweep.work) /\ CountFits(sweep.work)
      /\ c \in Shas
  BY DEF Sweep, SweepFits, LookUp, Work
<1>1. PICK result : result = LookupMergedPrCount(gh[p], c, answer)
  OBVIOUS
<1>2. PICK failed \in BOOLEAN : failed = (sweep.work.failed \/ result.status \notin Counted)
  OBVIOUS
<1>3. PICK work : work = [sweep.work EXCEPT !.left = @ \ {c}, !.prs = @ \cup result.prs, !.failed = failed]
  OBVIOUS
<1>4. /\ work.row = sweep.work.row /\ work.asOf = sweep.work.asOf /\ work.found = sweep.work.found
      /\ work.files = sweep.work.files /\ work.reverts = sweep.work.reverts
      /\ work.prs = sweep.work.prs \cup result.prs /\ work.failed = failed
      /\ work.left = sweep.work.left \ {c}
  BY <1>0, <1>3 DEF Work
<1>5. \/ result.prs = PullsOf[c] /\ mergedAt[c] # None
      \/ result.prs = {} /\ (mergedAt[c] = None \/ result.status \notin Counted)
  BY <1>0, <1>1, LookUpAnswers
<1>6. work \in Work
  <2>1. result.prs \in SUBSET AllPulls
    BY <1>0, <1>5 DEF AllPulls
  <2> QED BY <1>0, <1>3, <2>1 DEF Work
<1>7. sweeps'[p] = [sweep EXCEPT !.pc = "write", !.work = work]
  BY <1>1, <1>2, <1>3 DEF LookUp, SetWork, GitTypeOK
<1>8. WorkFits(work)
  BY <1>0, <1>4 DEF WorkFits
<1>9. CountFits(work)
  <2>1. PICK D \in SUBSET (sweep.work.found \ sweep.work.left) :
          sweep.work.prs = PullsIn(D) /\ LookedUp(sweep.work, D)
    BY <1>0 DEF CountFits
  <2>2. c \in work.found \ work.left /\ D \in SUBSET (work.found \ work.left)
        /\ work.found \ work.left = (sweep.work.found \ sweep.work.left) \cup {c}
    BY <1>0, <1>4 DEF CountFits
  <2>3. CASE result.prs = PullsOf[c] /\ mergedAt[c] # None
    <3>1. work.prs = PullsIn(D \cup {c})
      BY <1>4, <2>1, <2>3 DEF PullsIn
    <3>2. LookedUp(work, D \cup {c})
      BY <1>2, <1>4, <2>1, <2>2, <2>3 DEF LookedUp
    <3> QED BY <1>0, <1>4, <2>2, <3>1, <3>2 DEF CountFits
  <2>4. CASE result.prs = {} /\ (mergedAt[c] = None \/ result.status \notin Counted)
    <3>1. work.prs = PullsIn(D)
      BY <1>4, <2>1, <2>4
    <3>2. LookedUp(work, D)
      BY <1>2, <1>4, <2>1, <2>2, <2>4 DEF LookedUp
    <3> QED BY <1>0, <1>4, <2>2, <3>1, <3>2 DEF CountFits
  <2> QED BY <1>5, <2>3, <2>4
<1> QED BY <1>4, <1>6, <1>7, <1>8, <1>9

LEMMA SweepsStep ==
  ASSUME GitInv, [GitNext]_gitVars
  PROVE  SweepsFit'
<1> USE DEF GitInv
<1>0. GitTypeOK' /\ Grows /\ RowWritten
  BY TypeStep, StepGrows, StepWritten
<1>1. ASSUME NEW p \in Sweepers, sweeps'[p] = sweeps[p] PROVE SweepFits(sweeps[p])'
  <2>1. PICK sweep \in Sweep : sweep = sweeps[p]
    BY DEF GitTypeOK
  <2>2. SweepFits(sweep)'
    BY <1>0, <2>1, SweepKept DEF SweepsFit
  <2> QED BY <1>1, <2>1, <2>2, Named
<1>2. ASSUME NEW p \in Sweepers, SweepStep(p) PROVE SweepFits(sweeps[p])'
  <2>0. PICK sweep \in Sweep : sweep = sweeps[p] /\ SweepFits(sweep) /\ sweep.work \in Work
    BY DEF SweepsFit, GitTypeOK, Sweep
  <2>1. UNCHANGED <<clock, madeAt, mergedAt, repo, ends, began>> /\ clock \in Nat /\ clock <= clock
    BY <1>2, SweepLeaves DEF GitTypeOK
  <2>2. SweepFits(sweep)'
    BY <1>0, <2>0, SweepKept
  <2>3. ASSUME NEW force \in BOOLEAN, BeginSweep(p, force) PROVE SweepFits(sweeps[p])'
    <3>1. PICK next : next = sweeps'[p]
      OBVIOUS
    <3>2. PICK rows :
          /\ rows = {[id |-> s, start |-> began[s], end |-> ends[s]] :
                 s \in {s \in Chats : Outdated(s) /\ (force \/ ends[s] + SweepWindow >= clock)}}
          /\ next = [NoSweep EXCEPT !.pc = "row", !.since = clock, !.rows = rows, !.todo = rows]
      BY <2>3, <3>1 DEF BeginSweep, GitTypeOK
    <3>3. next.pc = "row" /\ next.since = clock /\ next.rows = rows /\ next.todo = rows
      BY <3>2 DEF NoSweep
    <3>4. \A row \in rows : row.start = began[row.id] /\ ends[row.id] # None
      BY <3>2 DEF Outdated
    <3>5. SweepFits(next)'
      BY <2>1, <3>3, <3>4 DEF SweepFits, RowsFit
    <3> QED BY <3>1, <3>5, Named
  <2>4. ASSUME NEW row \in sweeps[p].todo, ReadCommits(p, row), repo = "ok" PROVE SweepFits(sweeps[p])'
    <3>1. PICK next : next = sweeps'[p]
      OBVIOUS
    <3>2. PICK work :
            /\ work = [NoWork EXCEPT !.row = row, !.asOf = clock,
                                !.found = EnumerateSessionCommits(row.start, row.end)]
            /\ next = [sweep EXCEPT !.pc = "count", !.work = work]
      BY <2>0, <2>4, <3>1 DEF ReadCommits, SetWork, GitTypeOK
    <3>3. /\ work.row = row /\ work.asOf = clock /\ work.prs = {}
          /\ work.found = EnumerateSessionCommits(row.start, row.end)
      BY <3>2 DEF NoWork
    <3>4. row \in AskedRow /\ row \in sweep.todo /\ row.start = began[row.id]
      BY <2>0, <2>4 DEF Sweep, SweepFits, RowsFit
    <3>5. work.found = CommitsIn(row.id, row.end)
      BY <3>3, <3>4 DEF EnumerateSessionCommits, CommitsIn
    <3>6. work.found \in UpTo(CommitsIn(row.id, row.end), madeAt, clock, clock)
      BY <3>5 DEF PastFit, CommitsIn, Made, UpTo
    <3>7. WorkFits(work)
      BY <2>1, <3>3, <3>4, <3>6 DEF WorkFits
    <3>8. WorkFits(work)'
      BY <2>1, <3>7 DEF WorkFits, CommitsIn, Made, CommitTime
    <3>9. /\ next.pc = "count" /\ next.work = work /\ next.todo = sweep.todo
          /\ next.rows = sweep.rows /\ next.since = sweep.since
      BY <3>2 DEF Sweep
    <3>10. SweepFits(next)'
      BY <2>2, <3>3, <3>4, <3>8, <3>9 DEF SweepFits, RowsFit
    <3> QED BY <3>1, <3>10, Named
  <2>5. ASSUME NEW row \in sweeps[p].todo, ReadCommits(p, row), repo # "ok" PROVE SweepFits(sweeps[p])'
    <3>1. PICK next : next = AfterRow(sweep, row) /\ next = sweeps'[p]
      BY <2>0, <2>5 DEF ReadCommits, GitTypeOK
    <3>2. outcomes'[row.id] # None /\ outcomes'[row.id].at = clock
      <4>1. outcomes' = [outcomes EXCEPT ![row.id] = StatusOnly(repo, row)] /\ row \in AskedRow
        BY <2>0, <2>5 DEF ReadCommits, Sweep
      <4>2. StatusOnly(repo, row) \in OutcomeRow \ {None}
        BY <2>0, <2>5, <4>1, RowsTyped
      <4>3. outcomes'[row.id] = StatusOnly(repo, row)
        BY <4>1 DEF GitTypeOK, AskedRow
      <4> QED BY <4>2, <4>3 DEF StatusOnly
    <3>3. SweepFits(next)'
      BY <1>0, <2>0, <2>5, <3>1, <3>2, AfterRowFits
    <3> QED BY <3>1, <3>3, Named
  <2>6. ASSUME NEW row \in sweeps[p].todo, EvaluationThrows(p, row) PROVE SweepFits(sweeps[p])'
    <3>1. PICK next : next = AfterRow(sweep, row) /\ next = sweeps'[p]
      BY <2>0, <2>6 DEF EvaluationThrows, GitTypeOK
    <3>2. SweepFits(next)'
      BY <1>0, <2>0, <2>6, <3>1, AfterRowFits DEF EvaluationThrows
    <3> QED BY <3>1, <3>2, Named
  <2>7. ASSUME NEW work \in Work, sweeps'[p] = [sweep EXCEPT !.pc = "write", !.work = work],
               work.row = sweep.work.row, sweep.pc \in {"count", "write"},
               WorkFits(work), CountFits(work)
        PROVE  SweepFits(sweeps[p])'
    <3>1. PICK next : next = sweeps'[p]
      OBVIOUS
    <3>2. /\ next.pc = "write" /\ next.work = work /\ next.todo = sweep.todo
          /\ next.rows = sweep.rows /\ next.since = sweep.since
      BY <2>7, <3>1 DEF Sweep
    <3>3. WorkFits(work)' /\ CountFits(work)'
      <4>1. ends[work.row.id] # None
        BY <2>0, <2>7 DEF SweepFits, RowsFit
      <4> QED BY <1>0, <2>7, <4>1, WorkKept
    <3>4. SweepFits(next)'
      BY <2>0, <2>2, <2>7, <3>2, <3>3 DEF SweepFits, RowsFit
    <3> QED BY <3>1, <3>4, Named
  <2>8. ASSUME NEW c \in sweeps[p].work.left, NEW answer \in Answers, LookUp(p, c, answer)
        PROVE  SweepFits(sweeps[p])'
    BY <2>0, <2>7, <2>8, LookUpGoesOn DEF LookUp
  <2>9. CASE WriteOutcome(p)
    <3>1. PICK work \in Work : work = sweep.work /\ work.row \in sweep.todo /\ work.row \in AskedRow
      BY <2>0, <2>9 DEF WriteOutcome, SweepFits, WorkFits
    <3>2. PICK next : next = AfterRow(sweep, work.row) /\ next = sweeps'[p]
      BY <2>0, <2>9, <3>1 DEF WriteOutcome, GitTypeOK
    <3>3. outcomes'[work.row.id] = Evaluated(work)
      BY <2>0, <2>9, <3>1 DEF WriteOutcome, GitTypeOK, AskedRow
    <3>4. outcomes'[work.row.id] # None /\ outcomes'[work.row.id].at = clock
      BY <3>1, <3>3, RowsTyped DEF Evaluated
    <3>5. SweepFits(next)'
      BY <1>0, <2>0, <3>1, <3>2, <3>4, AfterRowFits
    <3> QED BY <3>2, <3>5, Named
  <2>10. CASE CountChanges(p)
    BY <2>0, <2>7, <2>10, CountStarts DEF CountChanges
  <2>11. CASE EndSweep(p)
    <3>1. PICK next : next = NoSweep /\ next = sweeps'[p]
      BY <2>11 DEF EndSweep, GitTypeOK
    <3>2. SweepFits(next)'
      BY <2>1, <3>1 DEF SweepFits, RowsFit, NoSweep
    <3> QED BY <3>1, <3>2, Named
  <2> QED BY <1>2, <2>3, <2>4, <2>5, <2>6, <2>8, <2>9, <2>10, <2>11, SweepCases
<1>3. ASSUME NEW p \in Sweepers, NEW q \in Sweepers, q # p, SweepStep(q) PROVE sweeps'[p] = sweeps[p]
  <2>1. PICK sweep \in Sweep : sweeps' = [sweeps EXCEPT ![q] = sweep]
    BY <1>3, SweepTyped
  <2> QED BY <1>3, <2>1 DEF GitTypeOK
<1>4. CASE sweeps' = sweeps
  BY <1>1, <1>4 DEF SweepsFit
<1>5. CASE \E q \in Sweepers : SweepStep(q)
  BY <1>1, <1>2, <1>3, <1>5 DEF SweepsFit
<1> QED BY <1>4, <1>5, StepCases DEF StoreSession, MakeCommit, MergePulls, MoveRepo, TickSweep, gitVars

-----------------------------------------------------------------------------
(* The rows.                                                                *)

(* What an evaluation writes is true when it writes it. *)
LEMMA WrittenTold ==
  ASSUME GitTypeOK, PastFit, NEW work \in Work, WorkFits(work), CountFits(work), work.left = {}
  PROVE  Told(work.row.id, Evaluated(work))
<1> DEFINE o == Evaluated(work)
<1>1. /\ o.status = "evaluated" /\ o.commits = Cardinality(work.found) /\ o.files = work.files
      /\ o.reverts = work.reverts /\ o.prs = MergedPrCount(work) /\ o.at = clock
      /\ o.asOf = work.asOf /\ o.end = work.row.end
  BY DEF Evaluated
<1>2. work.found \in UpTo(CommitsIn(work.row.id, o.end), madeAt, o.asOf, o.asOf)
  BY <1>1 DEF WorkFits
<1>3. o.prs = None \/ \E D \in UpTo(work.found, mergedAt, o.asOf, o.at) : o.prs = Cardinality(PullsIn(D))
  <2> SUFFICES ASSUME o.prs # None
               PROVE  \E D \in UpTo(work.found, mergedAt, o.asOf, o.at) : o.prs = Cardinality(PullsIn(D))
    OBVIOUS
  <2>1. LookupOn /\ ~work.failed /\ o.prs = Cardinality(work.prs)
    BY <1>1 DEF MergedPrCount
  <2>2. PICK D \in SUBSET (work.found \ work.left) : work.prs = PullsIn(D) /\ LookedUp(work, D)
    BY DEF CountFits
  <2>3. D \subseteq Shas
    BY DEF Work
  <2>4. D \in UpTo(work.found, mergedAt, o.asOf, o.at)
    BY <1>1, <2>1, <2>2, <2>3 DEF UpTo, LookedUp, PastFit
  <2> QED BY <2>1, <2>2, <2>4
<1>4. Told(work.row.id, o)
  <2> HIDE DEF o
  <2> QED BY <1>1, <1>2, <1>3 DEF CountFits, Told
<1> QED BY <1>4

LEMMA NewRow ==
  ASSUME GitInv, NEW p \in Sweepers, SweepStep(p), NEW s \in Chats, outcomes'[s] # outcomes[s]
  PROVE  /\ ends[s] # None /\ outcomes'[s].asOf <= clock /\ outcomes'[s].at <= clock
         /\ Told(s, outcomes'[s])
<1> USE DEF GitInv
<1>0. clock \in Nat /\ clock <= clock
  BY DEF GitTypeOK
<1>1. ASSUME NEW row \in sweeps[p].todo, ReadCommits(p, row), repo # "ok"
      PROVE  /\ ends[s] # None /\ outcomes'[s].asOf <= clock /\ outcomes'[s].at <= clock
             /\ Told(s, outcomes'[s])
  <2>1. row \in AskedRow /\ ends[row.id] # None
    BY DEF GitTypeOK, Sweep, SweepsFit, SweepFits, RowsFit
  <2>2. s = row.id /\ outcomes'[s] = StatusOnly(repo, row)
    BY <1>1, <2>1 DEF ReadCommits, GitTypeOK
  <2>3. Told(s, StatusOnly(repo, row))
    <3>1. StatusOnly(repo, row).status # "evaluated"
      BY <1>1, GitAssumption DEF StatusOnly, GitTypeOK
    <3> QED BY <3>1 DEF Told, StatusOnly
  <2> QED BY <1>0, <2>1, <2>2, <2>3 DEF StatusOnly
<1>2. ASSUME WriteOutcome(p)
      PROVE  /\ ends[s] # None /\ outcomes'[s].asOf <= clock /\ outcomes'[s].at <= clock
             /\ Told(s, outcomes'[s])
  <2>1. PICK work \in Work : work = sweeps[p].work /\ work.left = {}
    BY <1>2 DEF WriteOutcome, GitTypeOK, Sweep
  <2>2. WorkFits(work) /\ CountFits(work) /\ ends[work.row.id] # None
    BY <1>2, <2>1 DEF WriteOutcome, SweepsFit, SweepFits, RowsFit
  <2>3. s = work.row.id /\ outcomes'[s] = Evaluated(work)
    BY <1>2, <2>1, <2>2 DEF WriteOutcome, GitTypeOK, WorkFits, AskedRow
  <2> QED BY <1>0, <2>1, <2>2, <2>3, WrittenTold DEF Evaluated, WorkFits
<1> QED BY <1>1, <1>2, SweepCases
        DEF BeginSweep, ReadCommits, EvaluationThrows, CountChanges, LookUp, EndSweep

LEMMA OutcomesStep ==
  ASSUME GitInv, [GitNext]_gitVars
  PROVE  OutcomesFit'
<1> USE DEF GitInv
<1>0. GitTypeOK' /\ Grows /\ clock \in Nat /\ clock' \in Nat
  BY TypeStep, StepGrows DEF GitTypeOK
<1>1. ASSUME NEW s \in Chats, NEW o \in OutcomeRow, o = outcomes'[s],
             ends[s] # None, o.asOf <= clock, o.at <= clock, Told(s, o)
      PROVE  /\ ends'[s] # None /\ outcomes'[s].asOf <= clock' /\ outcomes'[s].at <= clock'
             /\ Told(s, outcomes[s])'
  <2>1. Told(s, o)'
    BY <1>0, <1>1, ToldKept
  <2>2. Told(s, outcomes[s])'
    BY <1>1, <2>1 DEF Told, CommitsIn, Reverts, Made, CommitTime
  <2>3. o.asOf \in Nat /\ o.at \in Nat
    BY DEF OutcomeRow
  <2> QED BY <1>0, <1>1, <2>2, <2>3 DEF Grows
<1>2. ASSUME NEW s \in Chats, outcomes'[s] # None
      PROVE  /\ ends'[s] # None /\ outcomes'[s].asOf <= clock' /\ outcomes'[s].at <= clock'
             /\ Told(s, outcomes[s])'
  <2>1. PICK o \in OutcomeRow : o = outcomes'[s]
    BY <1>0, <1>2 DEF GitTypeOK
  <2>2. CASE outcomes'[s] = outcomes[s]
    BY <1>1, <1>2, <2>1, <2>2 DEF OutcomesFit
  <2>3. CASE outcomes'[s] # outcomes[s]
    <3>1. \E p \in Sweepers : SweepStep(p)
      BY <2>3, StepCases DEF StoreSession, MakeCommit, MergePulls, MoveRepo, TickSweep, gitVars
    <3> QED BY <1>1, <2>1, <2>3, <3>1, NewRow
  <2> QED BY <2>2, <2>3
<1> QED BY <1>2 DEF OutcomesFit

LEMMA GitInvInit == GitInit => GitInv
<1> SUFFICES ASSUME GitInit PROVE GitInv
  OBVIOUS
<1>1. GitTypeOK
  BY NoWorkTyped DEF GitInit, GitTypeOK, Instants
<1>2. PastFit /\ OutcomesFit
  BY DEF GitInit, PastFit, OutcomesFit
<1>3. SweepsFit
  BY DEF GitInit, SweepsFit, SweepFits, RowsFit, NoSweep
<1> QED BY <1>1, <1>2, <1>3 DEF GitInv

LEMMA GitInvAlways == GitSpec => []GitInv
<1>1. GitInv /\ [GitNext]_gitVars => GitInv'
  BY TypeStep, PastStep, SweepsStep, OutcomesStep DEF GitInv
<1> QED BY <1>1, GitInvInit, PTL DEF GitSpec

-----------------------------------------------------------------------------
(* Every row says what the repository said when it was read: the commits of   *)
(* the session and no other, all their merged pull requests or none, and no  *)
(* numbers without a repository, whichever processes sweep at the same time  *)
(* (evaluateSessionOutcome, evaluator.ts).                                  *)
THEOREM OutcomesTruthfulAlways == GitSpec => []OutcomesTruthful
<1>1. GitInv => OutcomesTruthful
  BY DEF GitInv, OutcomesFit, Told, OutcomesTruthful, Within, CommitsIn, Reverts, PullsIn
<1> QED BY <1>1, GitInvAlways, PTL

(* A sweep that ends has evaluated every session it found outdated, although  *)
(* the evaluation of another session throws (writer.ts: one session's         *)
(* failure must not abort it).                                              *)
THEOREM SweepIsCompleteAlways == GitSpec => SweepIsComplete
<1> DEFINE Complete ==
      \A p \in Sweepers : sweeps[p].pc = "done" /\ sweeps'[p].pc = "idle" =>
        \A row \in sweeps[p].rows :
          \/ row.id \in Throwing
          \/ outcomes[row.id] # None /\ outcomes[row.id].at >= sweeps[p].since
<1>1. GitInv /\ [GitNext]_gitVars => [Complete]_gitVars
  BY DEF GitInv, SweepsFit, SweepFits, RowsFit
<1> QED BY <1>1, GitInvAlways, PTL DEF GitSpec, SweepIsComplete

-----------------------------------------------------------------------------
(* The local side as MCLocal composes it.                                   *)

(* A behaviour of the local side is one of the ingestion, of the sweep and of   *)
(* the watcher: they share no variable, and its focus restricts the steps.     *)
THEOREM LocalIsEach == LocalSpec => Spec /\ GitSpec /\ WatcherSpec
<1>1. LocalInit => Init /\ GitInit /\ WatcherInit
  BY DEF LocalInit
<1>2. [LocalNext]_<<vars, gitVars, watcherVars, focus, input>>
        => [Next]_vars /\ [GitNext]_gitVars /\ [WatcherNext]_watcherVars
  BY DEF LocalNext
<1> QED BY <1>1, <1>2, PTL DEF LocalSpec, Spec, GitSpec, WatcherSpec

(* What is proved of the three holds of the local side: what is recorded is     *)
(* stored, totals count what is stored, an ingest that ends stored what it      *)
(* found, the watchers are accounted for, and a sweep is complete and tells     *)
(* the truth.                                                              *)
THEOREM LocalKeepsPromises ==
  LocalSpec => /\ []TypeOK /\ []RecordedIsStored /\ []TotalsExact /\ IngestIsComplete
               /\ []OutcomesTruthful /\ SweepIsComplete /\ []WatchersAccounted
BY LocalIsEach, TypeCorrect, RecordedIsStoredAlways, TotalsExactAlways, IngestIsCompleteAlways,
   OutcomesTruthfulAlways, SweepIsCompleteAlways, WatchersAccountedAlways

-----------------------------------------------------------------------------
(* What the views of the local pages are given.                             *)

(* The views of a snapshot agree, whatever the database holds. *)
LEMMA DatabaseAgrees ==
  ASSUME NEW db, DatabaseFits(db), NoneIsNoAnswer PROVE OtelAgrees(db) /\ SnapshotAgrees(db)
<1>1. /\ LocalFits(db) /\ TurnsFit(db) /\ ScrapesFit(db) /\ OutcomeRowsFit(db)
      /\ RowsAreRecords(db) /\ FewTools(db)
  BY DEF DatabaseFits
<1>2. OtelAddsUp(db) /\ ChartCountsSamples(db)
  BY <1>1, OtelAlwaysAddsUp, ChartAlwaysCountsSamples
<1>3. WindowsAddUp(db) /\ CostsAgree(db) /\ OutcomesAddUp(db)
  BY <1>1, WindowsAlwaysAddUp, CostsAlwaysAgree, OutcomesAlwaysAddUp
<1>4. AggregatesAreMeans(db) /\ QuartilesApart(db)
  BY <1>1, AggregatesAreAlwaysMeans, QuartilesAlwaysApart
<1>5. ChartsAddUp(db) /\ SharesAddUp(db) /\ TrendsAreRates(db)
  BY <1>1, ChartsAlwaysAddUp, SharesAlwaysAddUp, TrendsAreAlwaysRates
<1>6. ASSUME NEW date \in {None, LocalDay(Now), LocalDay(Now) - 30}, NEW size \in 1 .. 2
      PROVE  PagesCoverSessions(db, date, size)
  <2>1. LocalDay(Now) \in Nat /\ LocalDay(Now) - 30 \in Nat
    BY DEF LocalDay, Now
  <2>2. date \in Nat \cup {None}
    BY <2>1
  <2>3. size \in Nat \ {0} /\ size <= 2
    OBVIOUS
  <2>4. Cardinality(db.sessions) \in Nat
    BY <1>1, FS_CardinalityType DEF LocalFits
  <2>5. Cardinality(db.sessions) + 2 <= MaxOffset
    BY DEF DatabaseFits
  <2>6. Cardinality(db.sessions) + size <= MaxOffset
    BY <2>3, <2>4, <2>5 DEF MaxOffset
  <2> QED BY <1>1, <2>2, <2>3, <2>6, PagesAlwaysCoverSessions
<1> QED BY <1>2, <1>3, <1>4, <1>5, <1>6 DEF OtelAgrees, SnapshotAgrees

(* What a form was given is kept by the tabs that save. *)
LEMMA SavesAgree ==
  ASSUME NEW i, InputFits(i), i.kind = "save"
  PROVE  SavesKeepTheRest(i.settings, i.rendered, i.window, i.value, i.at)
<1>1. /\ i.settings \in SettingsGiven /\ i.rendered \in SettingsGiven
      /\ i.window \in {"5h", "7d"} /\ i.value \in GivenOrNot /\ i.at \in GivenOrNot
  BY DEF InputFits
<1> QED BY <1>1, SavesAlwaysKeepTheRest DEF SettingsGiven

(* A search finds all, before and after its turns are written over. *)
LEMMA SearchesAgree ==
  ASSUME NEW i, InputFits(i), i.kind = "search", NoneIsNoAnswer,
         NEW old \in SUBSET {t \in i.index : t.n = 1}
  PROVE  SearchFindsAll(i.index, 100, i.raw, i.days, old, Reworded(old))
<1>1. SearchFits(i.index, i.raw, i.days, old, Reworded(old))
  BY DEF InputFits
<1> DEFINE today == 100
<1>2. today \in Int
  OBVIOUS
<1>3. SearchFindsAll(i.index, today, i.raw, i.days, old, Reworded(old))
  <2> HIDE DEF today
  <2> QED BY <1>1, <1>2, SearchAlwaysFindsAll
<1> QED BY <1>3

(* Whatever fits, agrees. *)
LEMMA FittingInputsAgree ==
  ASSUME InputFits(input), NoneIsNoAnswer PROVE LocalViewsAgree
<1>1. ASSUME input.kind \in {"snapshot", "otel"}
      PROVE  LET db == Snapshot(input.sessions, input.scrapes, input.calibrated)
             IN OtelAgrees(db) /\ SnapshotAgrees(db)
  <2> DEFINE db == Snapshot(input.sessions, input.scrapes, input.calibrated)
  <2>1. DatabaseFits(db)
    BY <1>1 DEF InputFits
  <2> HIDE DEF db
  <2>2. OtelAgrees(db) /\ SnapshotAgrees(db)
    BY <2>1, DatabaseAgrees
  <2> QED BY <2>2 DEF db
<1>2. input.kind = "percents" => PercentsAddUp(input.fractions, input.target)
  BY PercentsAlwaysAddUp DEF InputFits
<1>3. input.kind = "links" => LinksReachAll(input.total, input.pageSize)
  BY LinksAlwaysReachAll DEF InputFits
<1>4. input.kind = "usage" => RepairMatchesIngest(input.usage)
  BY RepairAlwaysMatchesIngest DEF InputFits
<1>5. input.kind = "score" => ScoresAreSound(input.signals)
  BY ScoresAreAlwaysSound DEF InputFits
<1>6. input.kind = "heat" => HeatmapCoversDays(input.points)
  BY HeatmapAlwaysCoversDays DEF InputFits
<1>7. input.kind = "fit" => FitIsSound(input.points)
  BY FitIsAlwaysSound DEF InputFits
<1>8. ASSUME input.kind = "quota"
      PROVE  ResetsAreAhead(input.db) /\ UsageIsOfCycle(input.db) /\ WeeksAddUp(input.db)
  <2>1. QuotaFits(input.db)
    BY <1>8 DEF InputFits
  <2>2. /\ input.db \in QuotaDb /\ IsFiniteSet(input.db.turns)
        /\ \A x \in input.db.turns : x.at <= input.db.now
    BY <2>1 DEF QuotaFits
  <2>3. WeeksAddUp(input.db)
    BY <2>1, WeeksAlwaysAddUp
  <2>4. ResetsAreAhead(input.db)
    BY <2>2, ResetsAreAlwaysAhead
  <2>5. UsageIsOfCycle(input.db)
    BY <2>2, UsageIsAlwaysOfCycle
  <2> QED BY <2>3, <2>4, <2>5
<1>9. input.kind = "save" =>
        SavesKeepTheRest(input.settings, input.rendered, input.window, input.value, input.at)
  BY SavesAgree
<1>10. input.kind = "search" =>
         \A old \in SUBSET {t \in input.index : t.n = 1} :
           SearchFindsAll(input.index, 100, input.raw, input.days, old, Reworded(old))
  BY SearchesAgree
<1>11. input.kind = "share" => RedactionHides(input.doc)
  BY RedactionAlwaysHides DEF InputFits
<1>12. /\ input.kind \in {"snapshot", "otel"} =>
            OtelAgrees(Snapshot(input.sessions, input.scrapes, input.calibrated))
       /\ input.kind = "snapshot" =>
            SnapshotAgrees(Snapshot(input.sessions, input.scrapes, input.calibrated))
  BY <1>1
<1> QED
  BY <1>2, <1>3, <1>4, <1>5, <1>6, <1>7, <1>8, <1>9, <1>10, <1>11, <1>12 DEF LocalViewsAgree

(* Whatever the local pages are given, what they show agrees: the input of a     *)
(* behaviour does not change, and the views of any snapshot, settings, search,   *)
(* text and chart that fit the tables do.                                    *)
THEOREM LocalViewsAlwaysAgree ==
  ASSUME NoneIsNoAnswer PROVE LocalSpec => []LocalViewsAgree
<1> DEFINE Given == input \in Inputs \cup {NoInput}
<1>1. LocalInit => Given
  BY DEF LocalInit
<1>2. Given /\ [LocalNext]_<<vars, gitVars, watcherVars, focus, input>> => Given'
  BY DEF LocalNext
<1>3. InputFits(NoInput)
  BY DEF InputFits, NoInput
<1>4. Given => InputFits(input)
  BY <1>3, InputsFit
<1>5. Given => LocalViewsAgree
  BY <1>4, FittingInputsAgree
<1> QED BY <1>1, <1>2, <1>5, PTL DEF LocalSpec
=============================================================================
