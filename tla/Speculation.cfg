CONSTANTS
  r1 = r1  r2 = r2  r3 = r3
  all = all  part = part
  NoRead = NoRead
  Reads = {r1, r2, r3}
  Ranges = {all, part}
  RangeOf <- SharedRange
  Lookups <- SharedLookups
  Leaves = {1, 2, 3}
  Covers <- AllAndPart
  Whole <- AllAndPart
  Matching = {{}, {1}, {1, 2, 3}}
  MaxCached = 2
  Kept = {{}}
  CanAbort = {r1}
  Faults = {"lookup", "run"}
SPECIFICATION Spec
CHECK_DEADLOCK FALSE
INVARIANT TypeOK
INVARIANT Verified
INVARIANT OneVerdict
