SPECIFICATION Spec
CONSTANTS
  Sessions = {s1}
  Values = {v1, v2}
  Unrated = v1
  Odd = v2
  Reads <- ReadTools
  Unsanitizable <- NoPayloads
  Refused <- NoPayloads
  None = None
  Runners = {r1, r2}
  Requests = {q1, q2}
  Writers = {"ingest", "outcome", "otel"}
  BatchSize = 1
  MaxAttempts = 2
  QueueMax = 1
  Overlap = 0
  MaxNow = 0
  MaxEdits = 2
  Quiet = FALSE
  ReplyLoss = TRUE
SYMMETRY FullSymmetry
INVARIANTS TypeOK MarkedWasStored
PROPERTIES ImplementsContract
CHECK_DEADLOCK FALSE
