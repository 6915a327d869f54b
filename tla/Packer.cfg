CONSTANTS
  Jobs <- MixedJobs
  Fanout = 2
  Chunk = 2
  HasherSlice = 2
  Ahead = 2
  StepBytes = 3
  StepLeaves = 2
  CarQueue = 2
  MaxU64 = 31
SPECIFICATION Spec
CHECK_DEADLOCK FALSE
INVARIANT RootIsTrue
INVARIANT CarIsTheDag
PROPERTY EndsWithItsCause
