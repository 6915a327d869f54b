\* Two reads of any path of a bundle, two proof hosts that may lie or be down, two loads.
CONSTANTS
    p1 = p1  p2 = p2  p3 = p3  p4 = p4
    a = a  b = b  big = big  same = same
    r1 = r1  r2 = r2  l1 = l1  l2 = l2
    Contents = {a, b, big, same}
    Size <- Sizes
    Paths = {p1, p2, p3, p4}
    WalkPlace <- Walked
    KeyPlace <- Keyed
    WellNamed <- Good
    ManifestCap = 3
    RawCap = 4
    InlineCap = 3
    Directories <- Dirs
    Reads = {r1, r2}
    Locs = {l1, l2}
    OtherCars <- Lies
    MaxFile = 4
    MaxLoads = 2
SPECIFICATION Spec
INVARIANT OnlyTheFile
INVARIANT PackedIsAccepted
INVARIANT RootIsRetriedOnce
CHECK_DEADLOCK FALSE
