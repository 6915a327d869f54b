------------------------------ MODULE MCBundle ------------------------------
(***************************************************************************)
(* A directory with two identical files, walked in another order than its  *)
(* keys' and under the budget; one over the budget, with a file too large  *)
(* for the client; one that fills the budget; one whose path no manifest   *)
(* takes.                                                                  *)
(***************************************************************************)
EXTENDS Bundle, TLC

CONSTANTS p1, p2, p3, p4, a, b, big, same, r1, r2, l1, l2

Good == {p1, p2, p3}
Sizes == (a :> 1) @@ (b :> 2) @@ (big :> 5) @@ (same :> 1)
Walked == (p1 :> 1) @@ (p2 :> 2) @@ (p3 :> 3) @@ (p4 :> 4)
Keyed == (p1 :> 2) @@ (p2 :> 1) @@ (p3 :> 3) @@ (p4 :> 4)
Dirs == {(p1 :> a) @@ (p2 :> a), (p1 :> a) @@ (p2 :> b) @@ (p3 :> big), (p1 :> a) @@ (p2 :> b), (p4 :> a)}
\* A section under a's digest: with other bytes as long, or of another length;
\* its digest twice; and a dag-cbor one.
Lie(codec, bytes) == [key |-> a, codec |-> codec, bytes |-> bytes]
Lies == {<<Lie("raw", same)>>, <<Lie("raw", b)>>, <<Lie("raw", a), Lie("raw", a)>>, <<Lie("dag-cbor", a)>>}

=============================================================================
