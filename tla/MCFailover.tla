----------------------------- MODULE MCFailover -----------------------------
(***************************************************************************)
(* Small instances of Failover: two CIDs that share their locations, a     *)
(* verified fetch of each and a speculative fetch, or a manifest fetch,    *)
(* beside the first.                                                       *)
(***************************************************************************)
EXTENDS Failover, TLC

CONSTANTS c1, c2, l1, l2, l3, f1, f2, f3

\* The built-in router: c1 has one configured location and may be hinted the
\* others; c2 has both of the first two configured.
SharedConfigured == (c1 :> <<l1>>) @@ (c2 :> <<l1, l2>>)
SharedHinted == (c1 :> {l2, l3}) @@ (c2 :> {})

\* A verified fetch of c1, a speculative one, and a verified fetch of c2.
SharedCall ==
  (f1 :> [cid |-> c1, fresh |-> TRUE, bans |-> TRUE]) @@
  (f2 :> [cid |-> c1, fresh |-> FALSE, bans |-> FALSE]) @@
  (f3 :> [cid |-> c2, fresh |-> TRUE, bans |-> TRUE])

\* l1 lies about c1 alone; l2 never lies; l3 always has c1.
SharedMaxCalls == (f1 :> 2) @@ (f2 :> 1) @@ (f3 :> 1)

SharedHonest == {<<c2, l1>>, <<c1, l2>>, <<c2, l2>>, <<c1, l3>>}
SharedReliable == {<<c1, l3>>}

-----------------------------------------------------------------------------
(* A custom router and one CID: a verified fetch and a manifest fetch, both *)
(* reading the router, with a cap of failures below the number of locations *)
(* and a stream that is cut off before it could name them all twice.        *)

RouterConfigured == c1 :> <<l1>>
RouterHinted == c1 :> {}
RouterCall ==
  (f1 :> [cid |-> c1, fresh |-> TRUE, bans |-> TRUE]) @@
  (f2 :> [cid |-> c1, fresh |-> TRUE, bans |-> FALSE])
RouterMaxCalls == (f1 :> 2) @@ (f2 :> 2)
RouterHonest == {<<c1, l2>>, <<c1, l3>>}
RouterReliable == {<<c1, l3>>}

=============================================================================
