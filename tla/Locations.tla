----------------------------- MODULE Locations -----------------------------
(***************************************************************************)
(* Where one CID's bytes may live, as its router yields them               *)
(* (packages/core/src/locations.ts).  One `Locations` object per CID keeps *)
(* the list it holds, and reads its router's stream lazily: the next value *)
(* only when a fetch pulls, one read shared by every fetch that waits.     *)
(*                                                                         *)
(* The module has the data and the operations; who calls them, and when,   *)
(* is Failover's.  The router behind the stream is the environment: it     *)
(* may yield any value it has, in any order and as often as it likes, and  *)
(* may end or throw at any time.                                           *)
(***************************************************************************)
EXTENDS Integers, SequencesExt

CONSTANTS
  Cids,             \* the CIDs one client reads
  Locs,             \* every URL a router might name
  CustomRouter,     \* TRUE: the page supplied a router; FALSE: the built-in one
  Configured,       \* Configured[c]: c's configured locations, first occurrences only
  Hinted,           \* Hinted[c]: what the built-in router's `rest` may yield for c
  WellFormed,       \* the URLs that pass #check
  MaxLocatedValues  \* MAX_LOCATED_VALUES

ASSUME LocationsAssumption ==
  /\ CustomRouter \in BOOLEAN
  /\ Configured \in [Cids -> Seq(Locs)]
  /\ \A c \in Cids : IsInjective(Configured[c])
  /\ Hinted \in [Cids -> SUBSET Locs]
  /\ WellFormed \subseteq Locs
  /\ MaxLocatedValues \in Nat \ {0}

VARIABLES
  held,     \* held[c]: #held, the locations read so far, in arrival order
  state,    \* state[c]: #state
  read,     \* read[c]: #read, values read from the current stream
  pending   \* pending[c]: #pending is set, one #advance is under way

locationVars == <<held, state, read, pending>>

LocationsTypeOK ==
  /\ held \in [Cids -> Seq(Locs)]
  /\ state \in [Cids -> {"open", "ended", "stale"}]
  /\ read \in [Cids -> 0..MaxLocatedValues]
  /\ pending \in [Cids -> BOOLEAN]

Held(c) == ToSet(held[c])

\* What the built-in router names for c: the values a custom router finds in `defaults`.
Defaults(c) == ToSet(Configured[c]) \cup Hinted[c]

Ended(c) == state[c] = "ended"

\* The constructor's #open: the built-in router's configured locations are
\* taken at once, a custom router is only asked by the first read.
LocationsInit ==
  /\ held = [c \in Cids |-> IF CustomRouter THEN <<>> ELSE Configured[c]]
  /\ state = [c \in Cids |-> "open"]
  /\ read = [c \in Cids |-> 0]
  /\ pending = [c \in Cids |-> FALSE]

\* pull() on a stream that has not ended: a stale one is opened anew, which
\* resets the count (its configured values are all held since the constructor,
\* so #take adds none), and the read under way, if there is one, is shared.
Pull(c) ==
  /\ state' = [state EXCEPT ![c] = "open"]
  /\ read' = [read EXCEPT ![c] = IF state[c] = "stale" THEN 0 ELSE @]
  /\ pending' = [pending EXCEPT ![c] = TRUE]
  /\ UNCHANGED held

\* Variant: a stream still open is given up as well.
ExhaustedOpenStream(c) ==
  /\ state' = [state EXCEPT ![c] = "stale"]
  /\ UNCHANGED <<held, read, pending>>

\* exhausted(): only a stream that has ended is asked for again.
Exhausted(c) ==
  /\ state' = [state EXCEPT ![c] = IF @ = "ended" THEN "stale" ELSE @]
  /\ UNCHANGED <<held, read, pending>>

-----------------------------------------------------------------------------
(* One round of #advance's loop, per kind of step the stream may take.      *)

\* The values the stream may hand out.
Yielded(c) == IF CustomRouter THEN Locs ELSE Hinted[c]

\* Whether #take passes v as a location: the built-in router's own values as
\* they are, a custom router's if #check does or if it read v from `defaults`
\* (whether it did is the router's affair, so either may be).
Passes(c, v) ==
  IF CustomRouter
  THEN {v \in WellFormed} \cup (IF v \in Defaults(c) THEN {TRUE} ELSE {})
  ELSE {TRUE}

\* Variant: the limit is looked at before the value is counted.
TakeOneTooMany(c, v, passes) ==
  LET added == passes /\ v \notin Held(c)
      last  == read[c] >= MaxLocatedValues
  IN /\ held' = [held EXCEPT ![c] = IF added THEN Append(@, v) ELSE @]
     /\ read' = [read EXCEPT ![c] = @ + 1]
     /\ state' = [state EXCEPT ![c] = IF last THEN "ended" ELSE @]
     /\ pending' = [pending EXCEPT ![c] = IF added \/ last THEN FALSE ELSE @]

\* A value arrives: kept if it is new, and the read goes on past a value that
\* adds nothing, until MAX_LOCATED_VALUES were read from this stream.
Take(c, v, passes) ==
  LET added == passes /\ v \notin Held(c)
      last  == read[c] + 1 >= MaxLocatedValues
  IN /\ held' = [held EXCEPT ![c] = IF added THEN Append(@, v) ELSE @]
     /\ read' = [read EXCEPT ![c] = @ + 1]
     /\ state' = [state EXCEPT ![c] = IF last THEN "ended" ELSE @]
     /\ pending' = [pending EXCEPT ![c] = IF added \/ last THEN FALSE ELSE @]

StreamYields(c) ==
  /\ pending[c]
  /\ \E v \in Yielded(c) : \E passes \in Passes(c, v) : Take(c, v, passes)

\* The stream is done, or its router threw.
StreamEnds(c) ==
  /\ pending[c]
  /\ state' = [state EXCEPT ![c] = "ended"]
  /\ pending' = [pending EXCEPT ![c] = FALSE]
  /\ UNCHANGED <<held, read>>

Advance(c) == StreamYields(c) \/ StreamEnds(c)

=============================================================================
