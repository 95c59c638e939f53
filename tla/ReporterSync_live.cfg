SPECIFICATION FairSpec
CONSTANTS
  Sessions = {s1, s2}
  Values = {v1, v2}
  Unrated = v1
  Odd = v2
  Reads <- ReadRatings
  Unsanitizable <- NoPayloads
  Refused <- NoPayloads
  None = None
  Runners = {r1}
  Requests = {q1}
  Writers = {"ingest", "rating"}
  BatchSize = 1
  MaxAttempts = 1
  QueueMax = 1
  Overlap = 0
  MaxNow = 1
  MaxEdits = 2
  Quiet = TRUE
  ReplyLoss = TRUE
PROPERTIES ChangeIsAcknowledged
CHECK_DEADLOCK FALSE
