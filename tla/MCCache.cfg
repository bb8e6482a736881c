CONSTANTS
  Source = {a, b}
  Reader = {r1, r2}
  Session = {s1, s2, s3}
  NoSession = NoSession
  Free = Free
  Requests <- MCRequests
  Costs = {1, 2}
  Limits = {0, 2}
  MaxEntries = 2
  MaxVersion = 1
SPECIFICATION CacheSpec
SYMMETRY Symmetric
INVARIANTS CacheInv
PROPERTIES PicturesHonoured
