---------------------------- MODULE ServerProofs ----------------------------
(***************************************************************************)
(* The server as MCServer composes it.  Every behaviour of it is one of each  *)
(* component, so that what is proved of a component holds of the server; the  *)
(* guards agree about every request that is made of it, and the views about    *)
(* every snapshot.                                                          *)
(***************************************************************************)
EXTENDS MCServer, ServerPartsProofs, ViewsProofs

(* No job and no administrator changes the role of the connections, the only  *)
(* variable that two components have in common.                              *)
LEMMA JobsKeepRole == CronNext => UNCHANGED role
<1>1. ASSUME NEW c \in CronCalls, StartCronRun(c) PROVE UNCHANGED role
  BY <1>1 DEF StartCronRun
<1>2. ASSUME NEW c \in CronCalls, CronStep(c) PROVE UNCHANGED role
  <2>1. CASE \/ ResolveWindowStarts(c) \/ SelectGroups(c) \/ UpsertGroups(c)
             \/ AnalyzeTeams(c) \/ InsertAnomaly(c) \/ ClearAuditIps(c)
    BY <2>1 DEF ResolveWindowStarts, SelectGroups, UpsertGroups, AnalyzeTeams, InsertAnomaly,
                ClearAuditIps
  <2>2. CASE \/ PruneNotifications(c) \/ PruneSessionGroup(c) \/ PruneTable(c) \/ PruneCronRuns(c)
             \/ FinishCronRun(c) \/ FailCronRun(c)
    BY <2>2 DEF PruneNotifications, PruneSessionGroup, PruneTable, PruneCronRuns,
                FinishCronRun, FailCronRun, EndRun
  <2> QED BY <1>2, <2>1, <2>2 DEF CronStep
<1>3. ASSUME NEW c \in CronCalls, CronThrow(c) \/ LoseCronRun(c) PROVE UNCHANGED role
  BY <1>3 DEF CronThrow, LoseCronRun, EndRun
<1>4. ASSUME NEW s \in Sessions, PushSession(s) PROVE UNCHANGED role
  BY <1>4 DEF PushSession
<1>5. CronCrash \/ NextDay => UNCHANGED role
  BY DEF CronCrash, NextDay
<1> QED BY <1>1, <1>2, <1>3, <1>4, <1>5 DEF CronNext

LEMMA AdministratorsKeepRole == AdminNext => UNCHANGED role
<1>1. ASSUME NEW c \in AdminCalls, AdminStep(c) PROVE UNCHANGED role
  <2>1. CASE \/ Authorise(c) \/ AdminFail(c) \/ FindMachine(c)
             \/ RevokeMachine(c) \/ FindUser(c)
    BY <2>1 DEF Authorise, AdminFail, FindMachine, RevokeMachine, FindUser
  <2>2. CASE \/ OffboardUser(c) \/ UpdateUserRole(c) \/ RedeemFindsUser(c)
             \/ RedeemInsertsMachine(c) \/ FindDeveloper(c)
    BY <2>2 DEF OffboardUser, UpdateUserRole, RedeemFindsUser, RedeemInsertsMachine, FindDeveloper
  <2>3. CASE \/ ViewDeveloper(c) \/ NotifyDeveloper(c) \/ DismissAnomaly(c) \/ AcknowledgeAlert(c)
    BY <2>3 DEF ViewDeveloper, NotifyDeveloper, DismissAnomaly, AcknowledgeAlert
  <2> QED BY <1>1, <2>1, <2>2, <2>3 DEF AdminStep
<1>2. NextAdminDay => UNCHANGED role
  BY DEF NextAdminDay
<1> QED BY <1>1, <1>2 DEF AdminNext

-----------------------------------------------------------------------------
(* A step of the server is a step of one component and none of the others.   *)
LEMMA ServerStepIsEach ==
  ASSUME [ServerNext]_serverVars
  PROVE  /\ [CronNext]_cronVars /\ [AdminNext]_adminVars
         /\ [ConsoleNext]_consoleVars /\ [RateNext]_rateVars /\ UNCHANGED input
<1>1. CASE UNCHANGED serverVars
  BY <1>1 DEF serverVars, cronOnly, adminOnly, cronVars, adminVars
<1>2. ASSUME ServerNext PROVE UNCHANGED input
  BY <1>2 DEF ServerNext, others
<1>3. CASE CronNext /\ UNCHANGED <<adminOnly, consoleVars, rateVars>> /\ UNCHANGED input
  BY <1>3, JobsKeepRole DEF adminOnly, adminVars, accountVars, auditVars, viewVars, alertVars
<1>4. CASE AdminNext /\ UNCHANGED <<cronOnly, consoleVars, rateVars>> /\ UNCHANGED input
  BY <1>4, AdministratorsKeepRole DEF cronOnly, cronVars
<1>5. CASE ConsoleNext /\ UNCHANGED <<role, cronOnly, adminOnly, rateVars>> /\ UNCHANGED input
  BY <1>5 DEF cronOnly, adminOnly, cronVars, adminVars
<1>6. CASE RateNext /\ UNCHANGED <<role, cronOnly, adminOnly, consoleVars>> /\ UNCHANGED input
  BY <1>6 DEF cronOnly, adminOnly, cronVars, adminVars
<1> QED BY <1>1, <1>2, <1>3, <1>4, <1>5, <1>6 DEF ServerNext

(* What the server does, seen with the eyes of one of its components, is what  *)
(* that component may do: the steps of the others are stutters to it.        *)
THEOREM ServerIsEach == ServerSpec => CronSpec /\ AdminSpec /\ ConsoleSpec /\ RateSpec
<1>1. ServerInit => CronInit /\ AdminInit /\ ConsoleInit /\ RateInit
  BY DEF ServerInit
<1>2. [ServerNext]_serverVars => /\ [CronNext]_cronVars /\ [AdminNext]_adminVars
                                 /\ [ConsoleNext]_consoleVars /\ [RateNext]_rateVars
  BY ServerStepIsEach
<1> QED BY <1>1, <1>2, PTL DEF ServerSpec, CronSpec, AdminSpec, ConsoleSpec, RateSpec

(* Every variable of the server has its type, in every interleaving of the     *)
(* components' steps.                                                        *)
THEOREM ServerTypeCorrect == ServerSpec => []ServerTypeOK
<1>1. CronTypeOK /\ AdminTypeOK /\ ConsoleTypeOK /\ RateTypeOK => ServerTypeOK
  BY DEF ServerTypeOK
<1> QED BY <1>1, ServerIsEach, CronTypeCorrect, AdminTypeCorrect, ConsoleTypeCorrect,
           RateTypeCorrect, PTL

(* The server keeps the promises of its jobs, its administrators, its console  *)
(* and its limiters: the invariants of CronJobs, AdminOps, InviteConsole and   *)
(* RateLimits, and what a job may remove.                                    *)
THEOREM ServerKeepsPromises ==
  ServerSpec =>
    /\ []PruneLeavesNothing /\ RecentRowsKept
    /\ [](DepartedKeysAreLate /\ AuditMatches /\ ViewsAreAudited /\ TenantsApart)
    /\ [](TokensAudited /\ RetryIsAnswered /\ UrlShownShortly)
    /\ [](LimitsHold /\ CountersTrue /\ RetryAfterHonest)
<1>1. CronSpec => []PruneLeavesNothing /\ RecentRowsKept
  BY PruneLeavesNothingAlways, RecentRowsKeptAlways
<1>2. AdminSpec => [](DepartedKeysAreLate /\ AuditMatches /\ ViewsAreAudited /\ TenantsApart)
  BY DepartedKeysAreLateAlways, AuditMatchesAlways, ViewsAreAuditedAlways, TenantsApartAlways, PTL
<1>3. ConsoleSpec => [](TokensAudited /\ RetryIsAnswered /\ UrlShownShortly)
  BY TokensAuditedAlways, RetryIsAnsweredAlways, UrlShownShortlyAlways, PTL
<1>4. RateSpec => [](LimitsHold /\ CountersTrue /\ RetryAfterHonest)
  BY LimitsHoldAlways, CountersTrueAlways, RetryAfterHonestAlways, PTL
<1> QED BY <1>1, <1>2, <1>3, <1>4, ServerIsEach

-----------------------------------------------------------------------------
(* The request of a behaviour that is made of a guard is one it may be asked. *)
LEMMA GuardInputsFit ==
  ASSUME input \in Inputs \cup {NoInput}, input.kind \in {"invite", "origin", "layer", "secret"}
  PROVE  input \in GuardRequests
<1>1. /\ input \in ViewInputs => input.kind = "view"
      /\ input \in LogInputs => input.kind = "log"
      /\ input \in SampleInputs => input.kind = "sample"
      /\ input = NoInput => input.kind = "none"
  BY DEF ViewInputs, LogInputs, SampleInputs, NoInput
<1> QED BY <1>1, GuardInputs DEF Inputs

(* Whatever the guards of the server are asked, they answer alike where they   *)
(* look at the same thing.                                                   *)
THEOREM ServerGuardsAgree == ServerSpec => []GuardsAgree
<1> DEFINE Given == input \in Inputs \cup {NoInput}
<1>1. ServerInit => Given
  BY DEF ServerInit
<1>2. Given /\ [ServerNext]_serverVars => Given'
  BY ServerStepIsEach
<1>3. Given => GuardsAgree
  BY GuardInputsFit, GuardsAlwaysAgree DEF GuardsAgree
<1> QED BY <1>1, <1>2, <1>3, PTL DEF ServerSpec

-----------------------------------------------------------------------------
(* The rows of the snapshots are finitely many, so that a count of theirs is a  *)
(* number.                                                                   *)
LEMMA CatalogueFinite == IsFiniteSet(Catalogue)
<1>1. ASSUME NEW a, NEW b, NEW S, IsFiniteSet(S) PROVE IsFiniteSet((S \cup {a}) \cup {b})
  <2> DEFINE T == S \cup {a}
  <2>1. IsFiniteSet(T)
    BY <1>1, FS_AddElement
  <2> HIDE DEF T
  <2>2. IsFiniteSet(T \cup {b})
    BY <2>1, FS_AddElement
  <2> QED BY <2>2 DEF T
<1>2. ASSUME NEW a, NEW b, NEW c, NEW d, NEW e, NEW f, NEW g, NEW h, NEW i
      PROVE  IsFiniteSet({a, b, c, d, e, f, g, h, i})
  <2> DEFINE A == ({i} \cup {a}) \cup {b}
             B == (A \cup {c}) \cup {d}
             C == (B \cup {e}) \cup {f}
             D == (C \cup {g}) \cup {h}
  <2>1. IsFiniteSet({i})
    BY FS_Singleton
  <2>2. IsFiniteSet(A)
    BY <1>1, <2>1
  <2>3. IsFiniteSet(B)
    <3> HIDE DEF A
    <3> QED BY <1>1, <2>2
  <2>4. IsFiniteSet(C)
    <3> HIDE DEF B
    <3> QED BY <1>1, <2>3
  <2>5. IsFiniteSet(D)
    <3> HIDE DEF C
    <3> QED BY <1>1, <2>4
  <2>6. {a, b, c, d, e, f, g, h, i} = D
    OBVIOUS
  <2> HIDE DEF D
  <2> QED BY <2>5, <2>6
<1> QED BY <1>2 DEF Catalogue

(* The rates of a snapshot are those an ingest of its sessions would leave.    *)
LEMMA SnapshotRatesFit ==
  ASSUME NEW i \in ViewInputs
  PROVE  LET db == Snapshot(i.sessions, i.forgotten)
         IN \A u \in MemberIds(db.users) : RatesFit(db.calibrations[u])
<1> DEFINE db == Snapshot(i.sessions, i.forgotten)
           counted == i.sessions \cup i.forgotten
<1>1. /\ db.sessions = i.sessions /\ db.users = People
      /\ db.calibrations = [u \in {p.id : p \in People} |->
                              RecomputePerUserCalibration({s \in counted : s.user = u})]
  BY DEF Snapshot
<1>2. \A s \in i.sessions : CostedRow(s)
  <2>1. StoredFits(db)
    BY SnapshotsFit
  <2> HIDE DEF db
  <2>2. \A s \in db.sessions : CostedRow(s)
    BY <2>1 DEF StoredFits, CostedRow
  <2> QED BY <1>1, <2>2
<1>3. i.sessions \subseteq Catalogue /\ i.forgotten \subseteq {Forgotten}
  BY DEF ViewInputs
<1>4. CostedRow(Forgotten)
  BY DEF Forgotten, Row, CostedRow
<1>5. IsFiniteSet(counted)
  BY <1>3, CatalogueFinite, FS_Singleton, FS_Subset, FS_Union
<1>6. \A s \in counted : CostedRow(s)
  BY <1>2, <1>3, <1>4
<1> HIDE DEF counted
<1>7. ASSUME NEW u PROVE RatesFit(RecomputePerUserCalibration({s \in counted : s.user = u}))
  <2> DEFINE own == {s \in counted : s.user = u}
  <2>1. IsFiniteSet(own) /\ \A s \in own : CostedRow(s)
    BY <1>5, <1>6, FS_Subset
  <2> HIDE DEF own
  <2>2. RatesFit(RecomputePerUserCalibration(own))
    BY <2>1, RecomputedFits
  <2> QED BY <2>2 DEF own
<1>8. MemberIds(db.users) = {p.id : p \in People}
  BY <1>1 DEF MemberIds
<1> HIDE DEF db
<1>9. ASSUME NEW u \in MemberIds(db.users) PROVE RatesFit(db.calibrations[u])
  <2>1. db.calibrations[u] = RecomputePerUserCalibration({s \in counted : s.user = u})
    BY <1>1, <1>8
  <2> QED BY <1>7, <2>1
<1> QED BY <1>9 DEF db

LEMMA SnapshotsAgree ==
  ASSUME NEW i \in ViewInputs, NoneIsNoAnswer
  PROVE  SpendAgrees(Snapshot(i.sessions, i.forgotten),
                     [n \in 1 .. Cardinality(i.sessions) % 4 |-> n])
         /\ TeamsAgree(Snapshot(i.sessions, i.forgotten), TeamOrder)
<1> DEFINE db == Snapshot(i.sessions, i.forgotten)
           rows == Cardinality(i.sessions) % 4
<1>1. SnapshotFits(db) /\ \A t \in db.teams : NothingCutOff(db, t.id)
  BY SnapshotsFit, SnapshotRatesFit DEF SnapshotFits
<1>2. \A t \in db.teams : TeamOrder[t.id] \in Int
  <2>1. db.teams = {[id |-> t, org |-> OrgOfTeam[t]] : t \in TheTeams}
    BY DEF Snapshot
  <2> QED BY <2>1, TeamsOrdered
<1>3. rows \in Nat
  <2>1. i.sessions \subseteq Catalogue
    BY DEF ViewInputs
  <2>2. Cardinality(i.sessions) \in Nat
    BY <2>1, CatalogueFinite, FS_Subset, FS_CardinalityType
  <2> QED BY <2>2
<1>4. [n \in 1 .. rows |-> n] \in Seq(Int)
  <2> HIDE DEF rows
  <2> QED BY <1>3, IsASeq
<1>5. SpendAgrees(db, [n \in 1 .. rows |-> n])
  <2> HIDE DEF db, rows
  <2> QED BY <1>1, <1>4, SpendAlwaysAgrees
<1>6. TeamsAgree(db, TeamOrder)
  <2> HIDE DEF db
  <2> QED BY <1>1, <1>2, TeamsAlwaysAgree
<1> QED BY <1>5, <1>6

LEMMA LogsAgree ==
  ASSUME NEW i \in LogInputs, NEW matching, NoneIsNoAnswer
  PROVE  ExportsMatchPages(i.log, i.hashes, matching, i.pageSize, i.cap)
<1> DEFINE Rows == [email : {u1, u4}, ok : BOOLEAN]
<1>1. PICK l \in UNION {[1 .. k -> Rows] : k \in 0 .. 4}, h \in {{}, {u1}}, n \in 1 .. 2, c \in {1, 3} :
        i = [kind |-> "log", log |-> l, hashes |-> h, pageSize |-> n, cap |-> c]
  BY DEF LogInputs
<1>2. i.log = l /\ i.hashes = h /\ i.pageSize = n /\ i.cap = c
  BY <1>1
<1>3. l \in Seq(Rows)
  <2>1. PICK k \in 0 .. 4 : l \in [1 .. k -> Rows]
    OBVIOUS
  <2> HIDE DEF Rows
  <2>2. k \in Nat
    OBVIOUS
  <2>3. l \in UNION {[1 .. q -> Rows] : q \in Nat}
    BY <2>1, <2>2
  <2>4. Seq(Rows) = UNION {[1 .. q -> Rows] : q \in Nat}
    BY SeqDef
  <2> QED BY <2>3, <2>4
<1>4. n \in Nat \ {0} /\ c \in Nat \ {0} /\ c <= (MAX_PAGE + 1) * n
  <2>1. n \in Nat \ {0} /\ c \in Nat \ {0} /\ c <= 3
    OBVIOUS
  <2>2. CASE n = 1
    BY <2>1, <2>2 DEF MAX_PAGE
  <2>3. CASE n = 2
    BY <2>1, <2>3 DEF MAX_PAGE
  <2> QED BY <2>2, <2>3
<1>5. ExportsMatchPages(l, h, matching, n, c)
  <2> HIDE DEF Rows
  <2> QED BY <1>3, <1>4, ExportsAlwaysMatchPages
<1> QED BY <1>2, <1>5

LEMMA SamplesAgree ==
  ASSUME NEW i \in SampleInputs
  PROVE  SpikesNeedTen(i.sample)
<1>1. PICK n \in {1, 4, 9, 10, 11, 12}, k \in 0 .. 3, high \in {1, 7, 50}, low \in {0, 1, 7} :
        i = [kind |-> "sample", sample |-> [j \in 1 .. n |-> IF j <= k THEN high ELSE low]]
  BY DEF SampleInputs
<1>2. i.sample = [j \in 1 .. n |-> IF j <= k THEN high ELSE low]
  BY <1>1
<1>3. i.sample \in [1 .. n -> Int]
  BY <1>2
<1>4. IsFiniteSet(1 .. n)
  BY FS_Interval
<1> QED BY <1>3, <1>4, SpikesAlwaysNeedTen

(* The request of a behaviour that is made of a view is one of those above.   *)
LEMMA ViewInputsFit ==
  ASSUME input \in Inputs \cup {NoInput}
  PROVE  /\ input.kind = "view" => input \in ViewInputs
         /\ input.kind = "log" => input \in LogInputs
         /\ input.kind = "sample" => input \in SampleInputs
<1>1. /\ input \in InviteInputs => input.kind = "invite"
      /\ input \in OriginInputs => input.kind = "origin"
      /\ input \in LayerInputs => input.kind = "layer"
      /\ input \in SecretInputs => input.kind = "secret"
  BY DEF InviteInputs, OriginInputs, LayerInputs, SecretInputs
<1>2. /\ input \in ViewInputs => input.kind = "view"
      /\ input \in LogInputs => input.kind = "log"
      /\ input \in SampleInputs => input.kind = "sample"
      /\ input = NoInput => input.kind = "none"
  BY DEF ViewInputs, LogInputs, SampleInputs, NoInput
<1> QED BY <1>1, <1>2 DEF Inputs

(* Whatever the views of the server are asked, they tell the same story.       *)
THEOREM ServerViewsAgree ==
  ASSUME NoneIsNoAnswer
  PROVE  ServerSpec => []ViewsAgree
<1> DEFINE Given == input \in Inputs \cup {NoInput}
<1>1. ServerInit => Given
  BY DEF ServerInit
<1>2. Given /\ [ServerNext]_serverVars => Given'
  BY ServerStepIsEach
<1>3. Given => ViewsAgree
  BY ViewInputsFit, SnapshotsAgree, LogsAgree, SamplesAgree DEF ViewsAgree
<1> QED BY <1>1, <1>2, <1>3, PTL DEF ServerSpec
=============================================================================
