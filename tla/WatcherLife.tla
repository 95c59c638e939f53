---------------------------- MODULE WatcherLife ----------------------------
(***************************************************************************)
(* The life of the transcript watcher in one process of the dashboard:      *)
(* register (instrumentation.ts) runs at boot and again when the            *)
(* development server recompiles, and calls startWatcherIfEnabled and       *)
(* startWatcher (lib/ingest/watcher.ts).  The handle is published on        *)
(* globalThis.  A call gives way at three awaits: the close of the old      *)
(* watcher, the import of chokidar, and its initial scan.                   *)
(***************************************************************************)
EXTENDS Optional, Naturals, FiniteSets

CONSTANTS
  Registers,     \* invocations of register; a watcher is named for the one that opened it
  Env            \* the two flags: [watch, disabled]

ASSUME WatcherAssumption == None \notin Registers /\ Env \in [watch : BOOLEAN, disabled : BOOLEAN]

VARIABLES
  starts,        \* starts[c]: how far a call has come
  handle,        \* globalThis.__tokenfxWatcher: the watcher it stands for, or None
  running,       \* the handles that say so
  attached,      \* watchers whose events are ingested
  rootExists,    \* ~/.claude/projects is there
  overlapped     \* history: calls that began while another was under way

watcherVars == <<starts, handle, running, attached, rootExists, overlapped>>

ShouldStart == Env.watch /\ ~Env.disabled
UnderWay == {c \in Registers : starts[c] \in {"closing", "loading", "scanning"}}
IsWatcherRunning == handle \in running

WatcherInit ==
  /\ starts = [c \in Registers |-> "idle"]
  /\ handle = None /\ running = {} /\ attached = {}
  /\ rootExists \in BOOLEAN
  /\ overlapped = {}

(* startWatcher until its first await, with h on globalThis: a running one is *)
(* kept, and a missing root gets a handle that does not run.                *)
StartWatcher(c, h) ==
  /\ starts' = [starts EXCEPT ![c] = IF h \notin running /\ rootExists THEN "loading" ELSE "ended"]
  /\ handle' = IF h \in running \/ rootExists THEN h ELSE c

(* Mutant of Stop: the watcher is marked as stopped and not closed. *)
StopWithoutClose(h) == running' = running \ {h} /\ UNCHANGED attached

(* stop: the handle says so at once, and chokidar drops its listeners.      *)
Stop(h) == running' = running \ {h} /\ attached' = attached \ {h}

(* register, startWatcherIfEnabled: a running watcher is told to stop, and   *)
(* its close awaited.                                                       *)
Register(c) ==
  /\ starts[c] = "idle" /\ ShouldStart
  /\ overlapped' = IF UnderWay = {} THEN overlapped ELSE overlapped \cup {c}
  /\ IF IsWatcherRunning
       THEN /\ Stop(handle)
            /\ starts' = [starts EXCEPT ![c] = "closing"]
            /\ UNCHANGED handle
       ELSE StartWatcher(c, handle) /\ UNCHANGED <<running, attached>>
  /\ UNCHANGED rootExists

(* The close is over: whatever handle is published by now is forgotten.     *)
Closed(c) ==
  /\ starts[c] = "closing"
  /\ StartWatcher(c, None)
  /\ UNCHANGED <<running, attached, rootExists, overlapped>>

(* chokidar is imported and begins its scan. *)
Loaded(c) ==
  /\ starts[c] = "loading"
  /\ starts' = [starts EXCEPT ![c] = "scanning"]
  /\ UNCHANGED <<handle, running, attached, rootExists, overlapped>>

(* The scan is over: the handlers are attached and the handle published.    *)
Scanned(c) ==
  /\ starts[c] = "scanning"
  /\ starts' = [starts EXCEPT ![c] = "ended"]
  /\ attached' = attached \cup {c}
  /\ handle' = c
  /\ running' = running \cup {c}
  /\ UNCHANGED <<rootExists, overlapped>>

(* The import or the scan fails: register logs it, and nothing is published. *)
StartFails(c) ==
  /\ starts[c] \in {"loading", "scanning"}
  /\ starts' = [starts EXCEPT ![c] = "ended"]
  /\ UNCHANGED <<handle, running, attached, rootExists, overlapped>>

RootAppears ==
  /\ ~rootExists /\ rootExists' = TRUE
  /\ UNCHANGED <<starts, handle, running, attached, overlapped>>

WatcherNext ==
  \/ \E c \in Registers : Register(c) \/ Closed(c) \/ Loaded(c) \/ Scanned(c) \/ StartFails(c)
  \/ RootAppears

WatcherSpec == WatcherInit /\ [][WatcherNext]_watcherVars

-----------------------------------------------------------------------------
(* Properties.                                                              *)

(* watcher.ts:305: never two watchers on one tree.  Calls that overlap break *)
(* it, and no others: each one that began while another was under way       *)
(* leaves at most one watcher more, and without any the handle on           *)
(* globalThis, which the page-load gate trusts, tells whether one is live.  *)
WatchersAccounted ==
  /\ Cardinality(attached) <= 1 + Cardinality(overlapped)
  /\ overlapped = {} => attached = running \cap {handle}
=============================================================================
