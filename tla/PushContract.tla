---------------------------- MODULE PushContract ----------------------------
(***************************************************************************)
(* What the push pipeline promises, without runs, requests, retries or     *)
(* clocks: the local database is edited; the server comes to hold          *)
(* aggregates whose every part the database really had, sanitized and of   *)
(* the shape the server accepts; the reporter records as pushed only what  *)
(* the server received.  A payload is a function of its parts.  The        *)
(* contract does not promise that the parts are of the same moment: the    *)
(* reporter reads them in several SELECTs.  ReporterSync implements it.    *)
(***************************************************************************)
CONSTANTS Sessions, Payloads, Unsanitizable, Refused, None

VARIABLES
  current,    \* the aggregate the local database gives for a session
  produced,   \* the aggregates it ever gave
  held,       \* the aggregate the server holds
  received,   \* the aggregates the server ever held
  acked       \* the aggregate the reporter believes the server to hold

contractVars == <<current, produced, held, received, acked>>

(* Sets of items, at most one for a session. *)
Items == UNION {[S -> Payloads] : S \in SUBSET Sessions}

Init ==
  /\ current = [s \in Sessions |-> None]
  /\ produced = [s \in Sessions |-> {}]
  /\ held = [s \in Sessions |-> None]
  /\ received = [s \in Sessions |-> {}]
  /\ acked = [s \in Sessions |-> None]

(* The local database changes. *)
Edit(s, p) ==
  /\ current' = [current EXCEPT ![s] = p]
  /\ produced' = [produced EXCEPT ![s] = @ \cup {p}]
  /\ UNCHANGED <<held, received, acked>>

(* Every part of p was, at some moment, the one the database gave for s. *)
Genuine(s, p) == \A k \in DOMAIN p : \E q \in produced[s] : q[k] = p[k]

(* A value the server may be given for s. *)
Deliverable(s, p) == Genuine(s, p) /\ p \notin Unsanitizable \cup Refused

(* The server stores several items at once. *)
Deliver(items) ==
  /\ \A s \in DOMAIN items : Deliverable(s, items[s])
  /\ held' = [s \in Sessions |-> IF s \in DOMAIN items THEN items[s] ELSE held[s]]
  /\ received' = [s \in Sessions |-> IF s \in DOMAIN items
                                       THEN received[s] \cup {items[s]} ELSE received[s]]
  /\ UNCHANGED <<current, produced, acked>>

(* The reporter records several items as pushed: every one was received, or *)
(* is one the server refuses.                                               *)
Acknowledge(items) ==
  /\ \A s \in DOMAIN items :
       \/ items[s] \in received[s]
       \/ items[s] \in Refused /\ Genuine(s, items[s])
  /\ acked' = [s \in Sessions |-> IF s \in DOMAIN items THEN items[s] ELSE acked[s]]
  /\ UNCHANGED <<current, produced, held, received>>

Next ==
  \/ \E s \in Sessions, p \in Payloads : Edit(s, p)
  \/ \E items \in Items : Deliver(items) \/ Acknowledge(items)

Spec == Init /\ [][Next]_contractVars
=============================================================================
