--------------------------- MODULE MCSpeculation ---------------------------
(***************************************************************************)
(* Small instances of Speculation: two reads of a range that share a body, *)
(* and a third read that fills the cache beside them.                      *)
(***************************************************************************)
EXTENDS Speculation, TLC

CONSTANTS r1, r2, r3, all, part

\* Two cold reads of the whole file, and a warm one of its middle leaf, which
\* splits what they miss into two runs.
SharedRange == (r1 :> all) @@ (r2 :> all) @@ (r3 :> part)
SharedLookups == (r1 :> {"cold"}) @@ (r2 :> {"cold"}) @@ (r3 :> {"warm"})
AllAndPart == (all :> {1, 2, 3}) @@ (part :> {2})

\* Two reads of a range that begins inside the first leaf, alone, for
\* liveness; earlier reads may have left that leaf in the cache.
TwoRange == (r1 :> all) @@ (r2 :> all)
TwoLookups == (r1 :> {"cold"}) @@ (r2 :> {"warm", "cold"})
TwoCovers == (all :> {1, 2}) @@ (part :> {1})
TwoWhole == (all :> {2}) @@ (part :> {1})

=============================================================================
