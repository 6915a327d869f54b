CONSTANTS
  r1 = r1  r2 = r2  r3 = r3
  all = all  part = part
  NoRead = NoRead
  Reads = {r1, r2}
  Ranges = {all, part}
  RangeOf <- TwoRange
  Lookups <- TwoLookups
  Leaves = {1, 2}
  Covers <- TwoCovers
  Whole <- TwoWhole
  Matching = {{}, {1}, {2}, {1, 2}}
  MaxCached = 2
  Kept = {{}, {1}}
  CanAbort = {r1}
  Faults = {}
SPECIFICATION FairSpec
CHECK_DEADLOCK FALSE
INVARIANT NoIdleBody
PROPERTY EveryBodyIsJudged
PROPERTY SpeculationIsHarmless
