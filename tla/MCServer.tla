------------------------------ MODULE MCServer ------------------------------
(***************************************************************************)
(* The central server beside the ingest endpoint and the onboarding: its    *)
(* cron jobs, its administrators' operations, the console of its invites,   *)
(* its limiters, and what its guards and its views answer.  They share a     *)
(* process and the role of its connections, so that a behaviour has one      *)
(* focus: the requests of the other components do not come.  The guards and  *)
(* the views are functions; input is the request, or the snapshot of the     *)
(* database, they are given.                                               *)
(***************************************************************************)
EXTENDS CronJobs, AdminOps, InviteConsole, RateLimits, AccessGuards, TeamViews, TLC

VARIABLE focus

Focuses == {"cron", "admin", "console", "rate", "input"}
NoInput == [kind |-> "none"]

-----------------------------------------------------------------------------
(* Cron jobs: overlapping runs of one job, and of every other job with a     *)
(* prune.                                                                   *)

CONSTANTS o1, o2, t1, t2, t3, u1, u2, u3, u4, u5, s1, s2, m1, m2, c1, d1, k1, p1

TheTeams == {t1, t2, t3}
OrgOfTeam == [t \in TheTeams |-> IF t = t3 THEN o2 ELSE o1]
OrgOfUser == [u \in Users |-> IF u = u4 THEN o2 ELSE o1]
FirstTeam == [u \in Users |-> IF u = u4 THEN None ELSE t1]
SecondTeamless == [u \in Users |-> IF u \in {u2, u4} THEN None ELSE t1]
Jobs1 == (m1 :> "metrics") @@ (m2 :> "metrics") @@ (c1 :> "outcomes") @@ (d1 :> "detect")
           @@ (k1 :> "cleanup") @@ (p1 :> "prune")
CronSchedules == {{}, {m1, m2, s2}, {c1, p1, s1}, {c1, s1}, {p1, s1}, {d1, s1, s2}, {m1, s1, s2}, {k1}}
RollupSchedules == {{}, {m1, s1, s2}}
OneEach == (s1 :> u1) @@ (s2 :> u2)
SameDay == [s \in Sessions |-> 1]
FirstUser == [s \in Sessions |-> u1]
StartDays == (s1 :> 1) @@ (s2 :> 3)
EvaluatedAt == (s1 :> 1) @@ (s2 :> 2)

-----------------------------------------------------------------------------
(* Administrators: two of one organisation, one developer, and an            *)
(* administrator of another; u1 is the one who is also offboarded.           *)

CONSTANTS keyA, keyB, keyC, keyD, prefA, prefB, event1, event2

Ask(n, op, by, on, with) == [n |-> n, op |-> op, by |-> by, on |-> on, with |-> with]
Revoke1 == Ask(1, "revoke", u1, prefA, None)
Revoke2 == Ask(2, "revoke", u2, prefA, None)
Offboard1 == Ask(3, "offboard", u1, u3, None)
Offboard2 == Ask(4, "offboard", u2, u3, None)
OffboardAdmin == Ask(5, "offboard", u2, u1, None)
LateRedeem == Ask(6, "redeem", None, u3, keyC)
View1 == Ask(7, "drilldown", u1, u3, "other")
View2 == Ask(8, "drilldown", u1, u3, "other")
Dismiss1 == Ask(9, "dismiss", u1, u3, "dropoff-wow")
Ack1 == Ask(10, "ack", u1, event1, None)
Ack2 == Ask(11, "ack", u4, event1, None)
Demote == Ask(12, "role", u1, u2, "member")
Foreign == {Ask(13, "revoke", u4, prefA, None), Ask(14, "drilldown", u4, u3, "other"),
            Ask(15, "offboard", u4, u3, None), Ask(20, "drilldown", u4, u4, "training-check"),
            Ask(16, "dismiss", u4, u3, "dropoff-wow")}
Dismiss2 == Ask(17, "dismiss", u1, u3, "dropoff-wow")
View3 == Ask(18, "drilldown", u1, u3, "training-check")
View4 == Ask(21, "drilldown", u2, u3, "other")
RevokeB == Ask(19, "revoke", u1, prefB, None)
AllAsked == {Revoke1, Revoke2, Offboard1, Offboard2, OffboardAdmin, LateRedeem, View1, View2,
             Dismiss1, Ack1, Ack2, Demote, Dismiss2, View3, View4, RevokeB} \cup Foreign
AskedTogether ==
  {{}, {Revoke1, Revoke2, Offboard1, LateRedeem},
   {Offboard1, Offboard2, OffboardAdmin, LateRedeem},
   {View1, View2, View3, View4}, {View1, Offboard2}, {Dismiss1, Dismiss2, Ack1, Ack2},
   {Demote, Revoke2, Offboard2}, Foreign, {Revoke1} \cup {f \in Foreign : f.n = 13}, {RevokeB}}
(* Two administrators revoke one key. *)
RevokedTogether == {{}, {Revoke1, Revoke2}}
OwnerOfKey == (keyA :> u3) @@ (keyB :> u4) @@ (keyC :> u3) @@ (keyD :> u4)
PrefixOfKey == (keyA :> prefA) @@ (keyB :> prefA) @@ (keyC :> prefB) @@ (keyD :> prefB)
RolesAtFirst == [u \in Users |-> IF u = u3 THEN "member" ELSE "admin"]
OrgOfEvent == (event1 :> o1) @@ (event2 :> o2)
DayOfEvent == (event1 :> 1) @@ (event2 :> 1)

-----------------------------------------------------------------------------
(* Invites: submissions with one idempotency key, by two managers.           *)

CONSTANTS b1, b2, g1, g2, g3, q1, q2, form1

Submitter == (g1 :> b1) @@ (g2 :> b1) @@ (g3 :> b2)
OneForm == [s \in Submissions |-> form1]
RevokesFirst == [r \in Revocations |-> g1]
Submitted == {{}, {g1, g2}, {g1, q1, q2}, {g1, g3}}

-----------------------------------------------------------------------------
(* Limiters: two routes that share the addresses, sign-ins that share a       *)
(* subject, a reporter, and three mails to one address.                      *)

CONSTANTS ip1, ip2, val1, val2, rep1, x1, x2, x3

KeysOf(ip, token, email, subject) ==
  [d \in Dimensions |-> CASE d = "ip" -> ip [] d = "token" -> token
                          [] d = "email_hash" -> email [] OTHER -> subject]
RedeemWithToken == [route |-> "redeem", keys |-> KeysOf(ip1, val1, NoKey, NoKey)]
RedeemWithout == [route |-> "redeem", keys |-> KeysOf(ip1, NoKey, NoKey, NoKey)]
Health == [route |-> "health", keys |-> KeysOf(ip1, NoKey, NoKey, NoKey)]
SignInBoth == [route |-> "sso", keys |-> KeysOf(ip2, NoKey, val1, val2)]
SignInEmail == [route |-> "sso", keys |-> KeysOf(ip2, NoKey, val2, NoKey)]
LimitedCalls == {RedeemWithToken, RedeemWithout, Health, SignInBoth, SignInEmail}
Limits == [r \in RateRoutes |-> [d \in Dimensions |->
            IF r = "sso" THEN (IF d = "email_hash" THEN 1 ELSE 2)
            ELSE IF d = "token" THEN 1 ELSE 2]]
RateWindows == [r \in RateRoutes |-> [d \in Dimensions |-> IF r = "sso" /\ d # "ip" THEN 4 ELSE 3]]
Together == {{}, {RedeemWithToken, Health}, {RedeemWithout, Health}, {SignInBoth, SignInEmail},
             {rep1}, {x1, x2, x3}}

-----------------------------------------------------------------------------
(* Requests for the guards.                                                 *)

Origins == {NoHeader, "null", "garbage", "here", "there"}
InviteInputs ==
  [kind : {"invite"}, now : {5}, email : [local : {"ann", ""}, domain : {"x"}, ascii : BOOLEAN],
   i : [revokedAt : {NoHeader, 4, 6}, expiresAt : {4, 5, 6}, used : {0, 1, 2}, max : {1, 2},
        pattern : {NoHeader, Malformed} \cup [local : {"*", "ann", "bob"}, domain : {"x", "y"}]]]
OriginInputs ==
  [kind : {"origin"}, base : {"here"},
   r : [fetchSite : {NoHeader, "same-origin", "none", "same-site", "cross-site"},
        origin : Origins, referer : Origins \ {"null"}]]
CookieRows == {<<>>} \cup
  {<<[id |-> 1, role |-> a, org |-> "o", sso |-> NoHeader]>> : a \in AccessRoles \cup {"root"}} \cup
  {<<[id |-> 1, role |-> "root", org |-> "o", sso |-> NoHeader],
     [id |-> 2, role |-> a, org |-> "p", sso |-> "sub"]>> : a \in AccessRoles}
Envs == [node : {"production", "staging", "development", "test"}, e2eBypass : BOOLEAN,
         bypassAllowed : BOOLEAN, cronSecret : {"", "secret"}, authRequired : BOOLEAN]
LayerInputs ==
  [kind : {"layer"},
   env : {e \in Envs : e.node = "production" /\ ~e.e2eBypass /\ ~e.bypassAllowed /\ e.cronSecret = ""},
   r : [path : Paths, host : {NoHeader} \cup [name : {"localhost", "other"}, port : {0, 80}]],
   cookieRole : {NoHeader, "root"} \cup AccessRoles, rows : CookieRows]
SecretInputs == [kind : {"secret"}, env : Envs, provided : {NoHeader, "", "secret", "guess"}]

(* The guards are asked what they may be asked. *)
ASSUME GuardInputs ==
  (InviteInputs \cup OriginInputs \cup LayerInputs \cup SecretInputs) \subseteq GuardRequests

-----------------------------------------------------------------------------
(* Snapshots for the views: users with and without a team, and in two         *)
(* organisations; sessions on both sides of every window, with and without    *)
(* OTEL, at rates within and out of bounds.                                  *)

Now == 100
Person(u, org, team) == [id |-> u, org |-> org, team |-> team]
People == {Person(u1, o1, t1), Person(u2, o1, t1), Person(u3, o1, t2), Person(u4, o2, t3),
           Person(u5, o1, None)}
Row(u, s, ago, cost, otel, family, subagent) ==
  [user |-> u, session |-> s, startedOn |-> Now - ago, cost |-> cost, otelCost |-> otel,
   model |-> family, subagent |-> subagent, rating |-> IF ago = 0 THEN 1 ELSE None,
   hit |-> IF ago = 3 THEN None ELSE 70, project |-> family]
Catalogue ==
  {Row(u1, 1, 0, 2, None, "opus", 10), Row(u1, 2, 7, 4, 3, "opus", None),
   Row(u2, 3, 10, 6, None, "other", 0), Row(u2, 4, 29, 2, 9, "opus", 5),
   Row(u3, 5, 30, 4, 0, "sonnet", None), Row(u3, 6, 3, 8, None, "sonnet", 20),
   Row(u5, 7, 2, 4, 2, "haiku", 0), Row(u4, 8, 0, 2, None, "opus", 1),
   Row(u1, 9, 60, 4, 8, "opus", None)}
(* A session whose row is gone and whose calibration is not. *)
Forgotten == [Row(u2, 10, 90, 4, 2, "sonnet", None) EXCEPT !.startedOn = 0]
ToolRows ==
  {[user |-> u1, session |-> 1, tool |-> "Edit", count |-> 8],
   [user |-> u1, session |-> 2, tool |-> "Read", count |-> 1],
   [user |-> u2, session |-> 3, tool |-> "Bash", count |-> 2],
   [user |-> u3, session |-> 6, tool |-> "Task", count |-> 4],
   [user |-> u3, session |-> 6, tool |-> "Edit", count |-> 1],
   [user |-> u5, session |-> 7, tool |-> "WebFetch", count |-> 3]}
Rollup(t, ago, hit, good, composite, n) ==
  [org |-> o1, team |-> t, day |-> Now - ago, hit |-> hit, goodPct |-> good,
   composite |-> composite, sessions |-> n]
RollupRows == {Rollup(t1, 0, 70, 100, 60, 1), Rollup(t1, 29, None, 50, None, 2),
               Rollup(t2, 3, 40, 0, 30, 1), Rollup(t2, 30, 90, 100, 90, 5)}
Outcome(u, s, commits, added, reverts, merged) ==
  [user |-> u, session |-> s, commits |-> commits, added |-> added, reverts |-> reverts,
   merged |-> merged, status |-> "evaluated"]
OutcomeRows == {Outcome(u1, 1, 2, 10, 1, None), Outcome(u1, 9, 1, 4, 0, 1),
                Outcome(u3, 6, 0, 0, 0, 2)}
TeamOutcome(t, ago, commits, added, merged, cost) ==
  [org |-> o1, team |-> t, day |-> Now - ago, commits |-> commits, added |-> added,
   reverts |-> 0, tokens |-> 5, cost |-> cost, sessions |-> 1, merged |-> merged]
TeamOutcomeRows == {TeamOutcome(t1, 0, 2, 10, None, 2), TeamOutcome(t1, 29, 0, 0, 1, 3),
                    TeamOutcome(t2, 3, 0, 0, None, 8)}
Dismissed == {[org |-> o1, manager |-> u5, target |-> u3, kind |-> "spend-spike-wow", until |-> Now + 1],
              [org |-> o1, manager |-> u5, target |-> u2, kind |-> "dropoff-wow", until |-> Now],
              [org |-> o2, manager |-> u4, target |-> u2, kind |-> "dropoff-wow", until |-> Now + 1]}
MachineRows == {[user |-> u1, createdOn |-> 1, via |-> "manual-token"],
                [user |-> u1, createdOn |-> 2, via |-> "sso-auto"],
                [user |-> u3, createdOn |-> 2, via |-> "manual-token"]}
Logins == {[email |-> u1, outcome |-> "accepted-sso-auto", occurredOn |-> 3],
           [email |-> u2, outcome |-> "rejected-race", occurredOn |-> 4]}

Snapshot(sessions, forgotten) ==
  LET Started(t, d) == \E s \in sessions : \E u \in People :
                         u.id = s.user /\ u.team = t /\ s.startedOn = d
      counted == sessions \cup forgotten
  IN [now |-> Now, users |-> People, sessions |-> sessions, tools |-> ToolRows,
      teams |-> {[id |-> t, org |-> OrgOfTeam[t]] : t \in TheTeams},
      calibrations |-> [u \in {p.id : p \in People} |->
                          RecomputePerUserCalibration({s \in counted : s.user = u})],
      metrics |-> {m \in RollupRows : Started(m.team, m.day)},
      teamOutcomes |-> {r \in TeamOutcomeRows : Started(r.team, r.day)},
      outcomes |-> {o \in OutcomeRows : \E s \in sessions : s.session = o.session},
      dismissals |-> Dismissed, machines |-> MachineRows, authEvents |-> Logins]
ViewInputs == {[kind |-> "view", sessions |-> s, forgotten |-> f] :
                 s \in SUBSET Catalogue, f \in {{}, {Forgotten}}}

(* Each of them holds what the tables of the server may hold, and is short of  *)
(* the limits of the pages.                                                 *)
ASSUME SnapshotsFit ==
  \A i \in ViewInputs :
    LET db == Snapshot(i.sessions, i.forgotten)
    IN StoredFits(db) /\ \A t \in db.teams : NothingCutOff(db, t.id)

LogInputs ==
  {[kind |-> "log", log |-> l, hashes |-> h, pageSize |-> n, cap |-> c] :
     l \in UNION {[1 .. k -> [email : {u1, u4}, ok : BOOLEAN]] : k \in 0 .. 4},
     h \in {{}, {u1}}, n \in 1 .. 2, c \in {1, 3}}
SampleInputs ==
  {[kind |-> "sample", sample |-> [i \in 1 .. n |-> IF i <= k THEN high ELSE low]] :
     n \in {1, 4, 9, 10, 11, 12}, k \in 0 .. 3, high \in {1, 7, 50}, low \in {0, 1, 7}}
Inputs == InviteInputs \cup OriginInputs \cup LayerInputs \cup SecretInputs
            \cup ViewInputs \cup LogInputs \cup SampleInputs

-----------------------------------------------------------------------------
others == <<focus, input>>
adminOnly == <<asked, day, accountVars, auditVars, viewVars, alertVars, adminCalls, found>>
cronOnly == <<scheduled, today, sessionsAgg, rollups, anomalies, logged, ipsOn, cronRuns,
              cronCalls, cronFaults>>
serverVars == <<focus, input, role, cronOnly, adminOnly, consoleVars, rateVars>>

(* Roles differ for the jobs and the administrators only. *)
ServerInit ==
  /\ focus \in Focuses
  /\ CronInit /\ (focus = "cron") = (scheduled # {})
  /\ AdminInit /\ (focus = "admin") = (asked # {})
  /\ ConsoleInit /\ (focus = "console") = (due # {})
  /\ RateInit /\ (focus = "rate") = (active # {})
  /\ focus \notin {"cron", "admin"} => role = "owner"
  /\ input \in IF focus = "input" THEN Inputs ELSE {NoInput}

(* A component takes its steps; the others rest.  What is computed from an    *)
(* input takes none.  A prune and a rollup that overlap do not also fail.    *)
Undisturbed == {c1, p1} \subseteq scheduled => cronFaults' = 0
ServerNext ==
  /\ UNCHANGED others
  /\ \/ focus = "cron" /\ CronNext /\ Undisturbed /\ UNCHANGED <<adminOnly, consoleVars, rateVars>>
     \/ focus = "admin" /\ AdminNext /\ UNCHANGED <<cronOnly, consoleVars, rateVars>>
     \/ focus = "console" /\ ConsoleNext /\ UNCHANGED <<role, cronOnly, adminOnly, rateVars>>
     \/ focus = "rate" /\ RateNext /\ UNCHANGED <<role, cronOnly, adminOnly, consoleVars>>

ServerSpec == ServerInit /\ [][ServerNext]_serverVars /\ CronFairness

-----------------------------------------------------------------------------
(* Every variable of every component has its type, also while the steps of    *)
(* the others, with which the jobs share the role, are taken.                *)
ServerTypeOK == CronTypeOK /\ AdminTypeOK /\ ConsoleTypeOK /\ RateTypeOK

(* The order of the teams' names, which decides between equals. *)
TeamOrder == (t1 :> 1) @@ (t2 :> 2) @@ (t3 :> 3)
ASSUME TeamsOrdered == \A t \in TheTeams : TeamOrder[t] \in Int

(* The views of one snapshot tell the same story: costs, members, tools and     *)
(* outcomes add up from developers to teams to the organisation, alerts are    *)
(* those not dismissed, and exports hold what the pages show.                *)
ViewsAgree ==
  /\ input.kind = "view" =>
       LET db == Snapshot(input.sessions, input.forgotten)
           audit == [i \in 1 .. Cardinality(input.sessions) % 4 |-> i]
       IN SpendAgrees(db, audit) /\ TeamsAgree(db, TeamOrder)
  /\ input.kind = "log" =>
       \A all \in BOOLEAN :
         ExportsMatchPages(input.log, input.hashes, {e \in Range(input.log) : all \/ e.ok},
                           input.pageSize, input.cap)
  /\ input.kind = "sample" => SpikesNeedTen(input.sample)

=============================================================================
