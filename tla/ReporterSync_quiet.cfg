SPECIFICATION Spec
CONSTANTS
  Sessions = {s1, s2, s3}
  Values = {v1, v2, v3}
  Unrated = v1
  Odd = v3
  Reads <- ReadRatings
  Unsanitizable <- OddRow
  Refused <- OddRating
  None = None
  Runners = {r1}
  Requests = {q1}
  Writers = {"ingest", "rating"}
  BatchSize = 2
  MaxAttempts = 1
  QueueMax = 1
  Overlap = 0
  MaxNow = 2
  MaxEdits = 3
  Quiet = TRUE
  ReplyLoss = FALSE
SYMMETRY SessionSymmetry
INVARIANTS NoLostUpdate Agreement 
CHECK_DEADLOCK FALSE
