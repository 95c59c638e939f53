SPECIFICATION LocalSpec
CONSTANTS
  f1 = f1
  f2 = f2
  s1 = s1
  s2 = s2
  server = server
  cli = cli
  page1 = page1
  ingest1 = ingest1
  watch1 = watch1
  h1 = h1
  h2 = h2
  sha1 = sha1
  sha2 = sha2
  None = None
  Files = {f1, f2}
  Sessions = {s1, s2}
  SessionOf <- TwoSessions
  Procs = {server}
  Pages = {page1}
  Ingests = {}
  Watches = {}
  ProcOf <- Placement
  Failures = {}
  Crashes = {}
  MaxLines <- TwoAndOne
  MaxNow = 3
  Chats = {h1, h2}
  Sweepers = {server, cli}
  Shas = {sha1, sha2}
  Mine = {sha1, sha2}
  Binary = {sha1}
  RevertOf <- Reverted
  PullsOf <- Pulls
  LookupOn = TRUE
  Losses = {"cwd-missing"}
  Throwing = {h2}
  SweepWindow = 0
  RevertWindow = 2
  LimitWindow = 1
  MaxSweepNow = 3
  Registers = {r1, r2, r3}
  Env <- WatchMode
  Focuses = {"pages"}
PROPERTIES PageIsFresh
CHECK_DEADLOCK FALSE
