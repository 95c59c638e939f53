----------------------------- MODULE RateLimits -----------------------------
(***************************************************************************)
(* The limiters of the server process: the sliding windows of              *)
(* lib/queries/rate-limit.ts, which the redeem and health routes and the   *)
(* sign-ins share; the fixed window of the ingest route; and the limit on  *)
(* the mails of lib/auth/pre-existing-binding-email.ts, which is read      *)
(* before an await and written after it.                                   *)
(*                                                                         *)
(* A call of a limiter is one step: it awaits nothing.  Time is in ticks,   *)
(* several to a second.  The timestamps of a list are appended in the order  *)
(* of time and never change, so that a list is the set of its hits: a hit is *)
(* the tick of Date.now() and a number that tells it from others of that     *)
(* tick; a mail is a hit of its own.                                        *)
(***************************************************************************)
EXTENDS Integers, FiniteSets

CONSTANTS
  RateCalls,       \* what may be asked: [route, ip, token, email, subject]
  Reporters,       \* machine ids of the ingest route
  Mails,           \* the mails to one address, each sent at most once
  DimensionLimit,  \* DimensionLimit[route][name]: a limit, and
  DimensionWindow, \*   its window in ticks
  IngestLimit, IngestWindow, MailLimit, MailWindow,
  TicksPerSecond,
  RateActors,      \* the sets of calls, reporters and mails that may come together
  MaxTick, MaxAdmitted,
  NoKey            \* a dimension that a call does not have

Dimensions == {"ip", "token", "email_hash", "sso_subject_hash"}
RateRoutes == {"redeem", "health", "sso"}
DimensionsOf == [redeem |-> {"ip", "token"}, health |-> {"ip"},
                 sso |-> {"ip", "email_hash", "sso_subject_hash"}]
(* Those that are looked at before another one. *)
Before == [ip |-> {}, token |-> {"ip"}, email_hash |-> {"ip", "token"},
           sso_subject_hash |-> {"ip", "token", "email_hash"}]
PRUNE_FACTOR == 2

RateKeys == UNION {{c.keys[d] : d \in Dimensions} : c \in RateCalls} \ {NoKey}

(* The dimensions a call has; a missing token or subject is none.            *)
Asked(c) == {d \in DimensionsOf[c.route] : c.keys[d] # NoKey}
Limit(c, d) == DimensionLimit[c.route][d]
Window(c, d) == DimensionWindow[c.route][d]

ASSUME RateAssumption ==
  /\ RateCalls \subseteq [route : RateRoutes, keys : [Dimensions -> RateKeys \cup {NoKey}]]
  /\ \A r \in RateRoutes, d \in Dimensions :
       DimensionLimit[r][d] \in Nat \ {0} /\ DimensionWindow[r][d] \in Nat \ {0}
  /\ RateActors \subseteq SUBSET (RateCalls \cup Reporters \cup Mails)
  /\ {IngestLimit, IngestWindow, MailLimit, MailWindow, TicksPerSecond} \subseteq Nat \ {0}
  /\ {MaxTick, MaxAdmitted} \subseteq Nat /\ IsFiniteSet(Mails)

(* Calls of different routes that share a key are limited alike: the redeem   *)
(* and health routes take ten a minute of a truncated address                *)
(* (redeem-invite/route.ts:87, health/route.ts:48); the sign-ins count what   *)
(* the proxy passes on, which is a whole address and so none of those        *)
(* (lib/util/ip.ts:25).                                                      *)
ASSUME SharedAssumption ==
  \A c, e \in RateCalls : \A d \in Asked(c) \cap Asked(e) :
    c.keys[d] = e.keys[d] => Limit(c, d) = Limit(e, d) /\ Window(c, d) = Window(e, d)

VARIABLES
  active,         \* the calls, reporters and mails of this behaviour
  tick,
  counters,       \* counters[d][k]: the hits kept for a key of a dimension
  admitted,       \* admitted[d][k]: the hits of all calls with the key that went through
  rateLimitBuckets, \* rateLimitBuckets[m]: [count, resetAt]
  ingested,       \* ingested[m]: the hits of the pushes of a reporter that went through
  rateLimitState, \* the mails whose timestamps are kept for the address
  mailing,        \* mailing[x]: where a mail is, what it read before the await, and when
  mailed,         \* the mails that were sent
  overlapped      \* two mails were under way at once

rateVars == <<active, tick, counters, admitted, rateLimitBuckets, ingested, rateLimitState,
              mailing, mailed, overlapped>>

RateInit ==
  /\ active \in RateActors
  /\ tick = 0
  /\ counters = [d \in Dimensions |-> [k \in RateKeys |-> {}]]
  /\ admitted = [d \in Dimensions |-> [k \in RateKeys |-> {}]]
  /\ rateLimitBuckets = [m \in Reporters |-> [count |-> 0, resetAt |-> -1]]
  /\ ingested = [m \in Reporters |-> {}]
  /\ rateLimitState = {}
  /\ mailing = [x \in Mails |-> [pc |-> "idle", history |-> {}, now |-> 0]]
  /\ mailed = {} /\ overlapped = FALSE

-----------------------------------------------------------------------------
(* checkRateLimits.                                                         *)

InWindow(hits, now, window) == {h \in hits : h.at > now - window}

Timestamps(c, d) == counters[d][c.keys[d]]
Windowed(c, d) == InWindow(Timestamps(c, d), tick, Window(c, d))
Pruned(c, d) ==
  IF Cardinality(Timestamps(c, d)) > PRUNE_FACTOR * Limit(c, d)
    THEN Windowed(c, d) ELSE Timestamps(c, d)

Exceeds(c, d) == Cardinality(Windowed(c, d)) >= Limit(c, d)
(* What becomes of the hits of a call's keys. *)
Store(hits, c, kept) ==
  [d \in Dimensions |->
    IF d \in Asked(c) THEN [hits[d] EXCEPT ![c.keys[d]] = kept[d]] ELSE hits[d]]
(* The next hit of a key. *)
Hit(hits) == [at |-> tick, no |-> Cardinality(hits)]

(* Mutant of RetryAfter: seconds are rounded down. *)
RetryAfterFloor(oldest, now, window) ==
  LET seconds == (window - (now - oldest)) \div TicksPerSecond
  IN IF seconds < 1 THEN 1 ELSE seconds

RetryAfter(oldest, now, window) ==
  LET remaining == IF window > now - oldest THEN window - (now - oldest) ELSE 0
      seconds == (remaining + TicksPerSecond - 1) \div TicksPerSecond
  IN IF seconds < 1 THEN 1 ELSE seconds

(* A call is charged to all of its dimensions.                              *)
Admit(c) ==
  /\ c \in active /\ \A d \in Asked(c) : ~Exceeds(c, d)
  /\ \A d \in Asked(c) : Cardinality(admitted[d][c.keys[d]]) < MaxAdmitted
  /\ LET hit == [d \in Asked(c) |-> Hit(admitted[d][c.keys[d]])]
     IN /\ counters' = Store(counters, c, [d \in Asked(c) |-> Pruned(c, d) \cup {hit[d]}])
        /\ admitted' = Store(admitted, c,
                             [d \in Asked(c) |-> admitted[d][c.keys[d]] \cup {hit[d]}])
  /\ UNCHANGED <<active, tick, rateLimitBuckets, ingested, rateLimitState, mailing, mailed,
                 overlapped>>

(* The first dimension that is exceeded.                                     *)
FirstExceeded(c, d) ==
  /\ d \in Asked(c) /\ Exceeds(c, d)
  /\ \A e \in Asked(c) \cap Before[d] : ~Exceeds(c, e)

(* Mutant of Refuse: a refused call is charged. *)
RefuseCharged(c, d) ==
  /\ c \in active /\ FirstExceeded(c, d)
  /\ counters' = Store(counters, c, [e \in Asked(c) |->
       IF e \in {d} \cup Before[d] THEN Pruned(c, e) \cup {Hit(Timestamps(c, e))}
                                  ELSE Timestamps(c, e)])
  /\ UNCHANGED <<active, tick, admitted, rateLimitBuckets, ingested, rateLimitState, mailing,
                 mailed, overlapped>>

(* Or to none: the dimensions looked at are only tidied.                     *)
Refuse(c, d) ==
  /\ c \in active /\ FirstExceeded(c, d)
  /\ counters' = Store(counters, c, [e \in Asked(c) |->
       IF e = d THEN Windowed(c, e)
       ELSE IF e \in Before[d] THEN Pruned(c, e) ELSE Timestamps(c, e)])
  /\ UNCHANGED <<active, tick, admitted, rateLimitBuckets, ingested, rateLimitState, mailing,
                 mailed, overlapped>>

-----------------------------------------------------------------------------
(* checkRateLimit of the ingest route.                                      *)

FreshBucket(m) == rateLimitBuckets[m].resetAt < tick
Ingest(m) ==
  /\ m \in active /\ Cardinality(ingested[m]) < MaxAdmitted
  /\ FreshBucket(m) \/ rateLimitBuckets[m].count < IngestLimit
  /\ rateLimitBuckets' = [rateLimitBuckets EXCEPT ![m] =
       IF FreshBucket(m) THEN [count |-> 1, resetAt |-> tick + IngestWindow]
                         ELSE [count |-> @.count + 1, resetAt |-> @.resetAt]]
  /\ ingested' = [ingested EXCEPT ![m] = @ \cup {Hit(@)}]
  /\ UNCHANGED <<active, tick, counters, admitted, rateLimitState, mailing, mailed, overlapped>>

-----------------------------------------------------------------------------
(* sendPreExistingBindingEmail.                                             *)

(* Mutant of History: > for >=. *)
HistoryOpen == {y \in rateLimitState : mailing[y].now > tick - MailWindow}

History == {y \in rateLimitState : mailing[y].now >= tick - MailWindow}
UnderWay(x) == mailing[x].pc = "sending"

BeginMail(x) ==
  /\ x \in active /\ mailing[x].pc = "idle"
  /\ \/ /\ Cardinality(History) < MailLimit
        /\ mailing' = [mailing EXCEPT ![x] = [pc |-> "sending", history |-> History, now |-> tick]]
        /\ overlapped' = (overlapped \/ \E y \in Mails : UnderWay(y))
        /\ UNCHANGED rateLimitState
     \/ /\ Cardinality(History) >= MailLimit
        /\ mailing' = [mailing EXCEPT ![x].pc = "done"]
        /\ rateLimitState' = History
        /\ UNCHANGED overlapped
  /\ UNCHANGED <<active, tick, counters, admitted, rateLimitBuckets, ingested, mailed>>

(* The history read before the await is stored; with the mail if it was sent. *)
EndMail(x, sent) ==
  /\ UnderWay(x)
  /\ rateLimitState' = mailing[x].history \cup (IF sent THEN {x} ELSE {})
  /\ mailed' = mailed \cup (IF sent THEN {x} ELSE {})
  /\ mailing' = [mailing EXCEPT ![x].pc = "done", ![x].history = {}]
  /\ UNCHANGED <<active, tick, counters, admitted, rateLimitBuckets, ingested, overlapped>>

NextTick ==
  /\ tick < MaxTick /\ tick' = tick + 1
  /\ UNCHANGED <<active, counters, admitted, rateLimitBuckets, ingested, rateLimitState, mailing,
                 mailed, overlapped>>

RateNext ==
  \/ \E c \in RateCalls : Admit(c) \/ \E d \in Dimensions : Refuse(c, d)
  \/ \E m \in Reporters : Ingest(m)
  \/ \E x \in Mails : BeginMail(x) \/ EndMail(x, TRUE) \/ EndMail(x, FALSE)
  \/ NextTick
RateSpec == RateInit /\ [][RateNext]_rateVars

-----------------------------------------------------------------------------
(* Properties.                                                              *)

Hits == [at : 0 .. MaxTick, no : Nat]
RateTypeOK ==
  /\ active \in RateActors /\ tick \in 0 .. MaxTick
  /\ counters \in [Dimensions -> [RateKeys -> SUBSET Hits]]
  /\ admitted \in [Dimensions -> [RateKeys -> SUBSET Hits]]
  /\ rateLimitBuckets \in [Reporters -> [count : 0 .. IngestLimit, resetAt : Int]]
  /\ ingested \in [Reporters -> SUBSET Hits]
  /\ rateLimitState \subseteq Mails /\ mailed \subseteq Mails /\ overlapped \in BOOLEAN
  /\ mailing \in [Mails -> [pc : {"idle", "sending", "done"}, history : SUBSET Mails,
                            now : 0 .. MaxTick]]

CountIn(hits, from, to) == Cardinality({h \in hits : from <= h.at /\ h.at <= to})

(* In every window of a dimension, at most its limit of calls goes through,   *)
(* whatever the routes that share the dimension prune, refuse or skip        *)
(* (rate-limit.ts:178-226).                                                  *)
SlidingHolds ==
  \A c \in RateCalls : \A d \in Asked(c) : \A t \in 0 .. tick :
    CountIn(admitted[d][c.keys[d]], t - Window(c, d) + 1, t) <= Limit(c, d)

(* A refused call costs nothing in any dimension, and an admitted one costs   *)
(* in each: what a counter holds of the current window is what was admitted   *)
(* in it, and it never holds more than twice the limit and one              *)
(* (rate-limit.ts:26).                                                      *)
CountersTrue ==
  \A c \in RateCalls : \A d \in Asked(c) :
    /\ Windowed(c, d) = InWindow(admitted[d][c.keys[d]], tick, Window(c, d))
    /\ Cardinality(Timestamps(c, d)) <= PRUNE_FACTOR * Limit(c, d) + 1

(* A call that waits as long as Retry-After says finds room in the dimension  *)
(* that refused it, if nothing else came (rate-limit.ts:138).                *)
Oldest(hits) == CHOOSE t \in {h.at : h \in hits} : \A h \in hits : t <= h.at
RetryAfterHonest ==
  \A c \in RateCalls : \A d \in Asked(c) :
    Exceeds(c, d) =>
      LET wait == TicksPerSecond * RetryAfter(Oldest(Windowed(c, d)), tick, Window(c, d))
      IN Cardinality(InWindow(Timestamps(c, d), tick + wait, Window(c, d))) < Limit(c, d)

(* Two full budgets of a reporter fit around a reset, and no more: in any     *)
(* window, at most twice the limit (ingest/route.ts:70).                      *)
FixedWindowTwice ==
  \A m \in Reporters : \A t \in 0 .. tick :
    CountIn(ingested[m], t - IngestWindow + 1, t) <= 2 * IngestLimit

(* Mails that do not overlap keep to the limit, although failed ones are not  *)
(* counted (pre-existing-binding-email.ts:81-137).  Those that overlap do not. *)
MailsLimited ==
  ~overlapped => \A t \in 0 .. tick :
    Cardinality({x \in mailed : t - MailWindow <= mailing[x].now /\ mailing[x].now <= t})
      <= MailLimit

(* No limiter lets more through than its window allows: the sliding ones their *)
(* limit, the fixed one of the ingest route twice it, the one of the mails its *)
(* limit unless two overlap (rate-limit.ts:178, app/api/ingest/route.ts:70).   *)
LimitsHold == SlidingHolds /\ FixedWindowTwice /\ MailsLimited
=============================================================================
