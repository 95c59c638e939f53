SPECIFICATION Spec
CONSTANTS
  Sessions = {s1}
  Values = {v1, v2}
  Unrated = v1
  Odd = v2
  Reads <- ReadTools
  Unsanitizable <- NoPayloads
  Refused <- NoPayloads
  None = None
  Runners = {r1}
  Requests = {q1}
  Writers = {"ingest"}
  BatchSize = 1
  MaxAttempts = 2
  QueueMax = 2
  Overlap = 0
  MaxNow = 3
  MaxEdits = 3
  Quiet = FALSE
  ReplyLoss = FALSE
INVARIANTS NoLostUpdate
CHECK_DEADLOCK FALSE
