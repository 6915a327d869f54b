\* Two reads of the same range, which may begin before or after the open ends,
\* and two opens.
CONSTANTS
    r1 = r1
    r2 = r2
    Reads = {r1, r2}
    Signalled = {r1}
    RangeOf <- OneRange
    FirstContent = TRUE
    MaxOpens = 2
SPECIFICATION Spec
INVARIANT TypeOK
INVARIANT EarlyNeverHurts
INVARIANT RetryIsFresh
PROPERTY AllSettle
CHECK_DEADLOCK FALSE
