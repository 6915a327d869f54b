------------------------------ MODULE MCOpening ------------------------------
(***************************************************************************)
(* A small instance of Opening: two reads of one range.                    *)
(***************************************************************************)
EXTENDS Opening, TLC

CONSTANTS r1, r2

OneRange == (r1 :> "a") @@ (r2 :> "a")

=============================================================================
