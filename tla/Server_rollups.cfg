SPECIFICATION ServerSpec
CONSTANTS
  o1 = o1 o2 = o2 t1 = t1 t2 = t2 t3 = t3
  u1 = u1 u2 = u2 u3 = u3 u4 = u4 u5 = u5
  s1 = s1 s2 = s2 m1 = m1 m2 = m2 c1 = c1 d1 = d1 k1 = k1 p1 = p1
  keyA = keyA keyB = keyB keyC = keyC keyD = keyD prefA = prefA prefB = prefB
  event1 = event1 event2 = event2
  b1 = b1 b2 = b2 g1 = g1 g2 = g2 g3 = g3 q1 = q1 q2 = q2 form1 = form1
  ip1 = ip1 ip2 = ip2 val1 = val1 val2 = val2 rep1 = rep1 x1 = x1 x2 = x2 x3 = x3
  None = None NoInvite = NoInvite NoKey = NoKey NoHeader = NoHeader
  Orgs = {o1, o2} Teams = {t1, t2, t3} Users = {u1, u2, u3, u4} Sessions = {s1, s2}
  TeamOrg <- OrgOfTeam OrgOf <- OrgOfUser TeamOf <- SecondTeamless
  CronCalls = {m1, m2, c1, d1, k1, p1}
  JobOf <- Jobs1 Schedules <- RollupSchedules OwnerOf <- OneEach
  StartedOn <- SameDay EvaluatedFrom <- EvaluatedAt
  MinActiveDevs = 1 WeekDays = 1 MonthDays = 3 RollingDays = 1 BackfillDays = 2
  RetentionDays = 2 IpDays = 1 NotificationDays = 1
  LoggedTables = {"onboarding_redemption_log", "manager_drilldown_audit", "manager_notifications"}
  LoggedJobs = {"prune"}
  MaxCronFaults = 1 MaxDay = 4 MaxVersion = 2
  AdminCalls <- AllAsked AdminSchedules <- AskedTogether
  Keys = {keyA, keyB, keyC, keyD} KeyOwner <- OwnerOfKey PrefixOf <- PrefixOfKey
  FirstRoles <- RolesAtFirst LiveAtFirst = {keyA, keyB, keyD}
  AutoEvents = {event1, event2} EventOrg <- OrgOfEvent EventOn <- DayOfEvent
  NotifyOff = {o2} DismissDays = 2 BannerDays = 1 AdminDays = 2
  Submissions = {g1, g2, g3} Revocations = {q1, q2} ConsoleSchedules <- Submitted
  SubmitterOf <- Submitter SubmissionKey <- OneForm RevokeTarget <- RevokesFirst
  ConsoleManagers = {b1} CacheMinutes = 1 CookieMinutes = 1 MaxMinute = 2 MaxRestarts = 1
  RateCalls <- LimitedCalls Reporters = {rep1} Mails = {x1, x2, x3}
  DimensionLimit <- Limits DimensionWindow <- RateWindows RateActors <- Together
  IngestLimit = 2 IngestWindow = 2 MailLimit = 1 MailWindow = 2
  TicksPerSecond = 2 MaxTick = 7 MaxAdmitted = 6
  PublicDomains = {"x"}
PROPERTIES RollupsCatchUp
CHECK_DEADLOCK FALSE
