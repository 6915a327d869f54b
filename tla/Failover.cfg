CONSTANTS
  c1 = c1  c2 = c2
  l1 = l1  l2 = l2  l3 = l3
  f1 = f1  f2 = f2  f3 = f3
  NoLoc = NoLoc
  Cids = {c1, c2}
  Locs = {l1, l2, l3}
  Fetches = {f1, f2, f3}
  CustomRouter = FALSE
  Configured <- SharedConfigured
  Hinted <- SharedHinted
  WellFormed = {l1, l2, l3}
  MaxLocatedValues = 3
  Call <- SharedCall
  MaxFailedLocations = 3
  MaxCalls <- SharedMaxCalls
  Honest <- SharedHonest
  Reliable <- SharedReliable
SPECIFICATION Spec
CHECK_DEADLOCK FALSE
INVARIANT TypeOK
INVARIANT HonestNeverBanned
INVARIANT WaitersAreServed
PROPERTY OrderOfLocations
PROPERTY NeverGivesUpEarly
