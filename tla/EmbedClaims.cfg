\* Two workers that may be killed, fail or be late at any point.
SPECIFICATION Spec
CONSTANTS
  a = a
  b = b
  w1 = w1
  w2 = w2
  Images = {a, b}
  Workers = {w1, w2}
  Reliable = {}
  PERMITS = 2
  CONCURRENCY = 2
  MAX_ATTEMPT = 1
  RECLAIM_AFTER = 1
SYMMETRY ClaimSymmetry
INVARIANTS TypeOK CompletedIsWhole Exclusive WritesAreDisjoint
PROPERTIES CompletedStays
