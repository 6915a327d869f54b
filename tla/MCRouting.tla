------------------------------ MODULE MCRouting ------------------------------
(***************************************************************************)
(* Four pages of a ranged  file.  On the first only a proof location is    *)
(* configured, and the map is asked for twice: the documents beside the    *)
(* anchor's locations name one another in a circle, one of them twice,     *)
(* only the second names the map, and a fourth is past the cap.  The       *)
(* second page has a source with a query string and names a document; on   *)
(* the third nothing is configured; the fourth has a plain source.         *)
(***************************************************************************)
EXTENDS Fisl, TLC

CONSTANTS anchor, map, d0, d1, d2, d3, b1, b2, b3, q, l1, l2, l3, u1, u2, x, e, s1, s2, null

BothStreams == {s1, s2}
OfTheMap == (s1 :> map) @@ (s2 :> map)
ProofOnly ==
    [explicit |-> FALSE, named |-> <<d0>>, sourceDocs |-> <<>>, cid |-> OfTheMap,
     configured |-> (anchor :> <<l1>>) @@ (map :> <<>>)]
QuerySource ==
    [explicit |-> TRUE, named |-> <<d3>>, sourceDocs |-> <<d1>>, cid |-> s2 :> anchor,
     configured |-> (anchor :> <<>>) @@ (map :> <<u2>>)]
Bare ==
    [explicit |-> FALSE, named |-> <<d0>>, sourceDocs |-> <<>>, cid |-> s2 :> anchor,
     configured |-> (anchor :> <<>>) @@ (map :> <<>>)]
Sourced ==
    [explicit |-> FALSE, named |-> <<d0>>, sourceDocs |-> <<d1>>, cid |-> s1 :> map,
     configured |-> (anchor :> <<l1>>) @@ (map :> <<u2>>)]
Pages4 == {ProofOnly, QuerySource, Bare, Sourced}
Directory == (l1 :> d1) @@ (l2 :> d2) @@ (l3 :> d3)
Names(a, m) == (anchor :> a) @@ (map :> m)
Circle ==
    (d0 :> Names(<<>>, <<x>>)) @@ (d1 :> Names(<<b2, q, b1>>, <<>>))
        @@ (d2 :> Names(<<b1, b2, b3>>, <<u1, x, u1, u2>>)) @@ (d3 :> null)
AllBut == {b1, b2, b3, q, u1, u2}
ProofBase == (b1 :> l1) @@ (b2 :> l2) @@ (b3 :> l3) @@ (q :> "none")
IndexLines == (anchor :> <<<<>>, <<l2>>>>) @@ (map :> <<<<e>>, <<>>, <<u2>>>>)

=============================================================================
