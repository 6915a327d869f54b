--------------------------- MODULE MCVerifiedStore ---------------------------
(***************************************************************************)
(* Small instances of VerifiedStore: two readers of one key, and a third   *)
(* whose key does not fit the cache beside it.                             *)
(***************************************************************************)
EXTENDS VerifiedStore, TLC

CONSTANTS r1, r2, r3, k1, k2, e1, e2, e3

SharedKey == (r1 :> k1) @@ (r2 :> k1) @@ (r3 :> k2)
SharedSize == (k1 :> 2) @@ (k2 :> 1)
OneHash == (k1 :> 1) @@ (k2 :> 1)
SharedMaxReads == (r1 :> 2) @@ (r2 :> 1) @@ (r3 :> 1)

=============================================================================
