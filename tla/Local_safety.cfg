SPECIFICATION LocalSpec
CONSTANTS
  f1 = f1
  f2 = f2
  s1 = s1
  s2 = s2
  server = server
  cli = cli
  page1 = page1
  ingest1 = ingest1
  watch1 = watch1
  h1 = h1
  h2 = h2
  sha1 = sha1
  sha2 = sha2
  None = None
  Files = {f1, f2}
  Sessions = {s1}
  SessionOf <- OneSession
  Procs = {server, cli}
  Pages = {page1}
  Ingests = {ingest1}
  Watches = {watch1}
  ProcOf <- Placement
  Failures = {"migrate", "write", "reconcile"}
  Crashes = {cli}
  MaxLines <- TwoAndOne
  MaxNow = 2
  Chats = {h1, h2}
  Sweepers = {server, cli}
  Shas = {sha1, sha2}
  Mine = {sha1, sha2}
  Binary = {sha1}
  RevertOf <- Reverted
  PullsOf <- Pulls
  LookupOn = TRUE
  Losses = {"cwd-missing"}
  Throwing = {h2}
  SweepWindow = 0
  RevertWindow = 2
  LimitWindow = 1
  MaxSweepNow = 3
  Registers = {r1, r2, r3}
  Env <- WatchMode
  Focuses = {"pages", "events", "backfill", "race", "sweep", "watch", "input"}
INVARIANTS TypeOK RecordedIsStored TotalsExact OutcomesTruthful WatchersAccounted LocalViewsAgree
PROPERTIES IngestIsComplete SweepIsComplete
CHECK_DEADLOCK FALSE
