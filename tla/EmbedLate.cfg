\* One worker that stays up, one that may be killed or be late for ever.
SPECIFICATION FairSpec
CONSTANTS
  a = a
  b = b
  w1 = w1
  w2 = w2
  Images = {a}
  Workers = {w1, w2}
  Reliable = {w1}
  PERMITS = 2
  CONCURRENCY = 2
  MAX_ATTEMPT = 2
  RECLAIM_AFTER = 1
PROPERTIES AllSettle
