CONSTANTS
  c1 = c1  c2 = c2
  l1 = l1  l2 = l2  l3 = l3
  f1 = f1  f2 = f2  f3 = f3
  NoLoc = NoLoc
  Cids = {c1}
  Locs = {l1, l2, l3}
  Fetches = {f1, f2}
  CustomRouter = TRUE
  Configured <- RouterConfigured
  Hinted <- RouterHinted
  WellFormed = {l2, l3}
  MaxLocatedValues = 4
  Call <- RouterCall
  MaxFailedLocations = 2
  MaxCalls <- RouterMaxCalls
  Honest <- RouterHonest
  Reliable <- RouterReliable
SPECIFICATION FairSpec
CHECK_DEADLOCK FALSE
PROPERTY EveryCallEnds
