CONSTANTS
  r1 = r1  r2 = r2  r3 = r3
  k1 = k1  k2 = k2
  e1 = e1  e2 = e2  e3 = e3
  NoFetch = NoFetch
  Readers = {r1, r2, r3}
  Keys = {k1, k2}
  Fetches = {e1, e2, e3}
  Key <- SharedKey
  CanAbort = {r1, r2}
  MaxReads <- SharedMaxReads
  MaxFailures = 2
  Size <- SharedSize
  Hashes <- OneHash
  MaxCacheBytes = 2
SPECIFICATION Spec
CHECK_DEADLOCK FALSE
INVARIANT VerifiedCountsChecks
