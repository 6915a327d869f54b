\* Two asks of one client's router, on each of four pages, each of
\* which may be closed, with documents that may fail and be fetched again.
CONSTANTS
    anchor = anchor  map = map
    d0 = d0  d1 = d1  d2 = d2  d3 = d3
    b1 = b1  b2 = b2  b3 = b3  q = q
    l1 = l1  l2 = l2  l3 = l3
    u1 = u1  u2 = u2  x = x  e = e
    null = null  s1 = s1  s2 = s2
    Streams <- BothStreams
    Anchor = anchor
    Ranged = TRUE
    Pages <- Pages4
    BesideAnchor <- Directory
    Document <- Circle
    NotAnObject = null
    Valid <- AllBut
    Root <- ProofBase
    NoRoot = "none"
    MaxDocs = 3
    MaxUrls = 2
    Lines <- IndexLines
    MaxLines = 2
SPECIFICATION Spec
INVARIANT TypeOK
INVARIANT NothingLost
PROPERTY EmptyHandedAtTheEnd
PROPERTY Served
CHECK_DEADLOCK FALSE
