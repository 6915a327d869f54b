--------------------------- MODULE FailoverProofs ---------------------------
(***************************************************************************)
(* Proofs about Failover, for every set of CIDs, locations and callers,    *)
(* every router, and every value of the two limits.                        *)
(*                                                                         *)
(* The inductive invariant is IInv: the types; StreamInv, which keeps the  *)
(* count of values read below its limit while a stream is open; the two    *)
(* invariants the model checker checks; and CallInv, which says that a     *)
(* call that still runs has failed at no reliable location, so that the    *)
(* one it is trying is the only reliable one it can have tried.            *)
(*                                                                         *)
(* OrderInv, on its own, is what the order of the attempts rests on: the   *)
(* demoted locations stand in the order of their latest failures.          *)
(***************************************************************************)
EXTENDS Failover, SequenceTheorems, TLAPS

StreamInv ==
  \A c \in Cids : /\ state[c] = "open" => read[c] < MaxLocatedValues
                  /\ pending[c] => state[c] = "open"

Spared(f, tried) == \A l \in tried : <<Cid(f), l>> \notin Reliable

CallInv ==
  \A f \in Fetches :
    /\ fetch[f].pc = "attempt" => /\ fetch[f].at \in Locs
                                  /\ fetch[f].errors < MaxFailedLocations
                                  /\ Spared(f, fetch[f].tried \ {fetch[f].at})
    /\ fetch[f].pc \in {"pull", "resumed"} => Spared(f, fetch[f].tried)

IInv ==
  /\ TypeOK
  /\ StreamInv
  /\ CallInv
  /\ HonestNeverBanned
  /\ WaitersAreServed

-----------------------------------------------------------------------------
(* The lists: Without and AtEnd return lists of locations.                  *)

LEMMA RemoveAtType ==
  ASSUME NEW s \in Seq(Locs), NEW i \in 1..Len(s)
  PROVE  RemoveAt(s, i) \in Seq(Locs)
BY DEF RemoveAt

LEMMA WithoutType ==
  ASSUME NEW s \in Seq(Locs), NEW l
  PROVE  Without(s, l) \in Seq(Locs)
<1>1. CASE l \in ToSet(s)
  <2>1. (CHOOSE i \in DOMAIN s : s[i] = l) \in 1..Len(s)
    BY <1>1 DEF ToSet
  <2>. QED
    BY <1>1, <2>1, RemoveAtType DEF Without
<1>2. CASE l \notin ToSet(s)
  BY <1>2 DEF Without
<1>. QED
  BY <1>1, <1>2

LEMMA AtEndType ==
  ASSUME NEW s \in Seq(Locs), NEW l \in Locs
  PROVE  AtEnd(s, l) \in Seq(Locs)
BY WithoutType DEF AtEnd

LEMMA HeldType ==
  ASSUME TypeOK, NEW c \in Cids
  PROVE  Held(c) \subseteq Locs
BY DEF TypeOK, LocationsTypeOK, Held, ToSet

LEMMA CallType ==
  ASSUME NEW f \in Fetches
  PROVE  Cid(f) \in Cids /\ Call[f].fresh \in BOOLEAN /\ Call[f].bans \in BOOLEAN
BY FailoverAssumption DEF Cid

LEMMA ResumedType ==
  ASSUME NEW r \in FetchState
  PROVE  [r EXCEPT !.pc = "resumed"] \in FetchState
BY DEF FetchState, Running

\* A step that only ends f's call keeps what the invariant says of the
\* stream, the calls and the waiters.
LEMMA OutInv ==
  ASSUME IInv, NEW f \in Fetches, NEW pc \in Over,
         fetch' = [fetch EXCEPT ![f] = Out(pc)],
         UNCHANGED locationVars
  PROVE  /\ LocationsTypeOK' /\ StreamInv' /\ CallInv' /\ WaitersAreServed'
         /\ fetch' \in [Fetches -> FetchState]
<1>1. LocationsTypeOK' /\ StreamInv'
  BY DEF IInv, TypeOK, LocationsTypeOK, StreamInv, locationVars
<1>2. Out(pc) \in FetchState
  BY FailoverAssumption DEF Out, FetchState
<1>3. fetch \in [Fetches -> FetchState]
  BY DEF IInv, TypeOK
<1>4. \A g \in Fetches : fetch'[g] = IF g = f THEN Out(pc) ELSE fetch[g]
  BY <1>3
<1>5. Out(pc).pc \notin Running
  BY DEF Out, Over, Running
<1>6. CallInv'
  BY <1>4, <1>5 DEF IInv, CallInv, Spared, Cid, Running
<1>7. WaitersAreServed'
  <2>1. \A g \in Fetches : fetch'[g].pc = "pull" => pending[Cid(g)]
    BY <1>4, <1>5 DEF IInv, WaitersAreServed, Running
  <2>. QED
    BY <2>1 DEF IInv, WaitersAreServed, locationVars, Cid
<1>. QED
  BY <1>1, <1>2, <1>3, <1>6, <1>7

-----------------------------------------------------------------------------
(* The loop.  Whatever the step that resumed it recorded, it leaves the     *)
(* stream, the fetches and the waiters as the invariant wants them.         *)

LEMMA LoopInv ==
  ASSUME IInv, NEW f \in Fetches, NEW tried \in SUBSET Locs,
         NEW errors \in 0..MaxFailedLocations,
         Spared(f, tried),
         Loop(f, tried, errors)
  PROVE  /\ LocationsTypeOK'
         /\ StreamInv'
         /\ fetch' \in [Fetches -> FetchState]
         /\ CallInv'
         /\ WaitersAreServed'
<1>. DEFINE c == Cid(f)
<1>1. c \in Cids /\ Held(c) \subseteq Locs
  BY CallType, HeldType DEF IInv
<1>. USE LocationsAssumption, FailoverAssumption
     DEF IInv, TypeOK, LocationsTypeOK, StreamInv, CallInv, WaitersAreServed,
         FetchState, Running, Over, Out
<1>2. ASSUME NEW l \in Usable(f, tried), errors < MaxFailedLocations,
             Attempt(f, l, tried, errors)
      PROVE  /\ LocationsTypeOK'
             /\ StreamInv'
             /\ fetch' \in [Fetches -> FetchState]
             /\ CallInv'
             /\ WaitersAreServed'
  <2>1. l \in Locs
    BY <1>1 DEF Usable
  <2>2. UNCHANGED locationVars
    BY <1>2 DEF Attempt
  <2>3. fetch' = [fetch EXCEPT ![f] = [pc |-> "attempt", tried |-> tried \cup {l},
                                       errors |-> errors, at |-> l]]
    BY <1>2 DEF Attempt
  <2>4. fetch' \in [Fetches -> FetchState]
    BY <2>1, <2>3
  <2>5. CallInv'
    BY <1>2, <2>1, <2>3 DEF Spared, Cid
  <2>6. LocationsTypeOK' /\ StreamInv'
    BY <2>2 DEF locationVars
  <2>7. WaitersAreServed'
    BY <2>2, <2>3 DEF locationVars, Cid
  <2>. QED
    BY <2>4, <2>5, <2>6, <2>7
<1>3. ASSUME ~Ended(c), errors < MaxFailedLocations, AwaitPull(f, tried, errors)
      PROVE  /\ LocationsTypeOK'
             /\ StreamInv'
             /\ fetch' \in [Fetches -> FetchState]
             /\ CallInv'
             /\ WaitersAreServed'
  <2>1. Pull(c)
    BY <1>3 DEF AwaitPull
  <2>2. LocationsTypeOK'
    BY <1>1, <2>1 DEF Pull
  <2>3. StreamInv'
    BY <1>1, <1>3, <2>1 DEF Pull, Ended
  <2>4. fetch' \in [Fetches -> FetchState]
    BY <1>3 DEF AwaitPull
  <2>5. CallInv'
    BY <1>3 DEF AwaitPull, Spared, Cid
  <2>6. WaitersAreServed'
    <3>1. \A g \in Fetches : Cid(g) \in Cids
      BY CallType
    <3>2. pending' = [pending EXCEPT ![c] = TRUE]
      BY <2>1 DEF Pull
    <3>3. \A g \in Fetches : fetch'[g].pc = "pull" => pending'[Cid(g)]
      BY <1>1, <1>3, <3>1, <3>2 DEF AwaitPull
    <3>4. \A d \in Cids : pending'[d] => state'[d] = "open" /\ read'[d] < MaxLocatedValues
      BY <2>3
    <3>. QED
      BY <3>3, <3>4 DEF Cid
  <2>. QED
    BY <2>2, <2>3, <2>4, <2>5, <2>6
<1>4. ASSUME GiveUp(f, tried, errors)
      PROVE  /\ LocationsTypeOK'
             /\ StreamInv'
             /\ fetch' \in [Fetches -> FetchState]
             /\ CallInv'
             /\ WaitersAreServed'
  <2>1. LocationsTypeOK' /\ StreamInv'
    BY <1>1, <1>4 DEF GiveUp, Exhausted
  <2>2. fetch' \in [Fetches -> FetchState]
    BY <1>4 DEF GiveUp
  <2>3. CallInv'
    BY <1>4 DEF GiveUp, Spared, Cid
  <2>4. WaitersAreServed'
    BY <1>1, <1>4, <2>1 DEF GiveUp, Exhausted, Cid
  <2>. QED
    BY <2>1, <2>2, <2>3, <2>4
<1>. QED
  BY <1>2, <1>3, <1>4 DEF Loop, MayAsk

-----------------------------------------------------------------------------
(* The inductive invariant.                                                 *)

LEMMA InitInv == Init => IInv
<1>. SUFFICES ASSUME Init PROVE IInv
  OBVIOUS
<1>. USE LocationsAssumption, FailoverAssumption DEF Init, LocationsInit
<1>1. LocationsTypeOK /\ StreamInv
  BY DEF LocationsTypeOK, StreamInv
<1>2. TypeOK
  BY <1>1 DEF TypeOK, FetchState, Running, Over, Out
<1>3. CallInv /\ HonestNeverBanned
  BY DEF CallInv, HonestNeverBanned, Out
<1>4. WaitersAreServed
  BY DEF WaitersAreServed, Out
<1>. QED
  BY <1>1, <1>2, <1>3, <1>4 DEF IInv

\* What recording a failure does to the faults.
LEMMA RecordInv ==
  ASSUME IInv, NEW f \in Fetches, NEW l \in Locs, NEW wrong \in BOOLEAN,
         wrong => <<Cid(f), l>> \notin Honest,
         Record(f, l, wrong)
  PROVE  /\ banned' \subseteq Cids \X Locs
         /\ demoted' \in Seq(Locs)
         /\ faultOrder' \in Seq(Locs)
         /\ HonestNeverBanned'
<1>1. Cid(f) \in Cids
  BY CallType
<1>2. banned' \subseteq Cids \X Locs /\ HonestNeverBanned'
  BY <1>1 DEF Record, IInv, TypeOK, HonestNeverBanned
<1>3. demoted' \in Seq(Locs) /\ faultOrder' \in Seq(Locs)
  BY AtEndType DEF Record, IInv, TypeOK
<1>. QED
  BY <1>2, <1>3

LEMMA StartInv ==
  ASSUME IInv, NEW f \in Fetches, Start(f)
  PROVE  IInv'
<1>1. Spared(f, {}) /\ {} \in SUBSET Locs /\ 0 \in 0..MaxFailedLocations
  BY FailoverAssumption DEF Spared
<1>2. /\ LocationsTypeOK' /\ StreamInv' /\ CallInv' /\ WaitersAreServed'
      /\ fetch' \in [Fetches -> FetchState]
  BY <1>1, LoopInv DEF Start
<1>3. /\ calls' \in [Fetches -> Nat]
      /\ \A g \in Fetches : calls'[g] <= MaxCalls[g]
  <2>1. calls' = [calls EXCEPT ![f] = @ + 1] /\ calls[f] < MaxCalls[f]
    BY DEF Start
  <2>2. calls \in [Fetches -> Nat] /\ \A g \in Fetches : calls[g] <= MaxCalls[g]
    BY DEF IInv, TypeOK
  <2>. QED
    BY <2>1, <2>2, FailoverAssumption
<1>4. TypeOK'
  BY <1>2, <1>3 DEF Start, IInv, TypeOK, faultVars
<1>5. HonestNeverBanned'
  BY DEF Start, IInv, HonestNeverBanned, faultVars
<1>. QED
  BY <1>2, <1>4, <1>5 DEF IInv

LEMMA ResumeInv ==
  ASSUME IInv, NEW f \in Fetches, Resume(f)
  PROVE  IInv'
<1>1. /\ Spared(f, fetch[f].tried)
      /\ fetch[f].tried \in SUBSET Locs
      /\ fetch[f].errors \in 0..MaxFailedLocations
  BY DEF Resume, IInv, CallInv, TypeOK, FetchState
<1>2. /\ LocationsTypeOK' /\ StreamInv' /\ CallInv' /\ WaitersAreServed'
      /\ fetch' \in [Fetches -> FetchState]
  BY <1>1, LoopInv DEF Resume
<1>3. TypeOK'
  BY <1>2 DEF Resume, IInv, TypeOK, faultVars, callVars
<1>4. HonestNeverBanned'
  BY DEF Resume, IInv, HonestNeverBanned, faultVars
<1>. QED
  BY <1>2, <1>3, <1>4 DEF IInv

\* A failed attempt, once its location is known not to be reliable.
LEMMA FailType ==
  ASSUME IInv, NEW f \in Fetches, NEW wrong \in BOOLEAN, Fail(f, wrong),
         <<Cid(f), fetch[f].at>> \notin Reliable
  PROVE  /\ fetch[f].at \in Locs
         /\ fetch[f].tried \in SUBSET Locs
         /\ fetch[f].errors + 1 \in 0..MaxFailedLocations
         /\ Spared(f, fetch[f].tried)
<1>1. fetch[f] \in FetchState /\ fetch[f].pc = "attempt"
  BY DEF Fail, IInv, TypeOK
<1>2. /\ fetch[f].at \in Locs
      /\ fetch[f].errors < MaxFailedLocations
      /\ Spared(f, fetch[f].tried \ {fetch[f].at})
  BY <1>1 DEF IInv, CallInv
<1>3. fetch[f].tried \in SUBSET Locs /\ fetch[f].errors + 1 \in 0..MaxFailedLocations
  BY <1>1, <1>2, FailoverAssumption DEF FetchState
<1>4. Spared(f, fetch[f].tried)
  BY <1>2 DEF Spared
<1>. QED
  BY <1>2, <1>3, <1>4

LEMMA FailInv ==
  ASSUME IInv, NEW f \in Fetches, NEW wrong \in BOOLEAN, Fail(f, wrong),
         <<Cid(f), fetch[f].at>> \notin Reliable,
         wrong => <<Cid(f), fetch[f].at>> \notin Honest
  PROVE  IInv'
<1>1. /\ fetch[f].at \in Locs
      /\ fetch[f].tried \in SUBSET Locs
      /\ fetch[f].errors + 1 \in 0..MaxFailedLocations
      /\ Spared(f, fetch[f].tried)
  BY FailType
<1>2. /\ LocationsTypeOK' /\ StreamInv' /\ CallInv' /\ WaitersAreServed'
      /\ fetch' \in [Fetches -> FetchState]
  BY <1>1, LoopInv DEF Fail
<1>3. /\ banned' \subseteq Cids \X Locs
      /\ demoted' \in Seq(Locs)
      /\ faultOrder' \in Seq(Locs)
      /\ HonestNeverBanned'
  BY <1>1, RecordInv DEF Fail
<1>4. TypeOK'
  BY <1>2, <1>3 DEF Fail, IInv, TypeOK, callVars
<1>. QED
  BY <1>2, <1>3, <1>4 DEF IInv

LEMMA OutcomeInv ==
  ASSUME IInv, NEW f \in Fetches, Outcome(f)
  PROVE  IInv'
<1>1. CASE FailInTransport(f)
  BY <1>1, FailInv DEF FailInTransport
<1>2. CASE ServeWrongBytes(f)
  BY <1>2, FailInv, FailoverAssumption DEF ServeWrongBytes
<1>3. CASE Serve(f)
  <2>1. demoted' \in Seq(Locs)
    BY <1>3, WithoutType DEF Serve, IInv, TypeOK
  <2>2. /\ LocationsTypeOK' /\ StreamInv' /\ CallInv' /\ WaitersAreServed'
        /\ fetch' \in [Fetches -> FetchState]
    BY <1>3, OutInv DEF Serve, Over
  <2>. QED
    BY <1>3, <2>1, <2>2 DEF Serve, IInv, TypeOK, HonestNeverBanned, callVars
<1>4. CASE RejectAborted(f)
  <2>1. /\ LocationsTypeOK' /\ StreamInv' /\ CallInv' /\ WaitersAreServed'
        /\ fetch' \in [Fetches -> FetchState]
    BY <1>4, OutInv DEF RejectAborted, Over
  <2>. QED
    BY <1>4, <2>1 DEF RejectAborted, IInv, TypeOK, HonestNeverBanned, faultVars, callVars
<1>. QED
  BY <1>1, <1>2, <1>3, <1>4 DEF Outcome

LEMMA AbortInv ==
  ASSUME IInv, NEW f \in Fetches, Abort(f)
  PROVE  IInv'
<1>1. /\ LocationsTypeOK' /\ StreamInv' /\ CallInv' /\ WaitersAreServed'
      /\ fetch' \in [Fetches -> FetchState]
  <2>1. CASE fetch[f].pc = "pull"
    <3>1. fetch' = [fetch EXCEPT ![f] = Out("aborted")]
      BY <2>1 DEF Abort
    <3>. QED
      BY <3>1, OutInv DEF Abort, Over
  <2>2. CASE fetch[f].pc # "pull"
    <3>1. fetch' = fetch
      BY <2>2 DEF Abort, IInv, TypeOK
    <3>. QED
      BY <3>1 DEF Abort, IInv, TypeOK, LocationsTypeOK, StreamInv, CallInv, WaitersAreServed,
                  locationVars, Spared, Cid
  <2>. QED
    BY <2>1, <2>2
<1>2. /\ aborted' \in [Fetches -> BOOLEAN]
      /\ UNCHANGED <<banned, demoted, faultOrder, calls>>
  BY DEF Abort, IInv, TypeOK, faultVars
<1>. QED
  BY <1>1, <1>2 DEF IInv, TypeOK, HonestNeverBanned

LEMMA ReadInv ==
  ASSUME IInv, NEW c \in Cids, Read(c)
  PROVE  IInv'
<1>. USE LocationsAssumption, FailoverAssumption
     DEF IInv, TypeOK, LocationsTypeOK, StreamInv, CallInv, HonestNeverBanned, WaitersAreServed,
         FetchState, Running, Over, faultVars, callVars
<1>1. LocationsTypeOK' /\ StreamInv'
  <2>1. CASE StreamYields(c)
    <3>1. PICK v \in Yielded(c) : \E passes \in Passes(c, v) : Take(c, v, passes)
      BY <2>1 DEF StreamYields
    <3>2. v \in Locs
      BY DEF Yielded
    <3>. PICK passes \in Passes(c, v) : Take(c, v, passes)
      BY <3>1
    <3>. USE DEF Take
    <3>3. pending[c] /\ read[c] + 1 \in 0..MaxLocatedValues
      BY <2>1 DEF StreamYields
    <3>4. held' \in [Cids -> Seq(Locs)]
      BY <3>2
    <3>5. read' \in [Cids -> 0..MaxLocatedValues]
      BY <3>3
    <3>6. state' \in [Cids -> {"open", "ended", "stale"}] /\ pending' \in [Cids -> BOOLEAN]
      OBVIOUS
    <3>7. StreamInv'
      <4>1. passes \in BOOLEAN
        BY DEF Passes
      <4>2. state[c] = "open" /\ read[c] \in Nat
        BY <3>3
      <4>3. /\ state'[c] = "open" => read'[c] < MaxLocatedValues
            /\ pending'[c] => state'[c] = "open"
        BY <4>1, <4>2
      <4>4. \A d \in Cids : d # c => /\ state'[d] = state[d]
                                     /\ read'[d] = read[d]
                                     /\ pending'[d] = pending[d]
        OBVIOUS
      <4>. QED
        BY <4>3, <4>4
    <3>. QED
      BY <3>4, <3>5, <3>6, <3>7
  <2>2. CASE StreamEnds(c)
    BY <2>2 DEF StreamEnds
  <2>. QED
    BY <2>1, <2>2 DEF Read, Advance
<1>2. TypeOK' /\ HonestNeverBanned'
  <2>1. fetch' \in [Fetches -> FetchState]
    BY ResumedType DEF Read
  <2>2. UNCHANGED <<banned, demoted, faultOrder, aborted, calls>>
    BY DEF Read
  <2>. QED
    BY <1>1, <2>1, <2>2
<1>3. CallInv'
  BY DEF Read, Spared, Cid
<1>4. WaitersAreServed'
  <2>1. \A d \in Cids : d # c => pending'[d] = pending[d]
    BY DEF Read, Advance, StreamYields, StreamEnds, Take
  <2>2. \A g \in Fetches : Cid(g) \in Cids
    BY CallType
  <2>3. \A g \in Fetches : fetch'[g].pc = "pull" => pending'[Cid(g)]
    BY <1>1, <2>1, <2>2 DEF Read
  <2>. QED
    BY <1>1, <2>3 DEF Cid
<1>. QED
  BY <1>1, <1>2, <1>3, <1>4

LEMMA NextInv == IInv /\ [Next]_vars => IInv'
<1>. SUFFICES ASSUME IInv, [Next]_vars PROVE IInv'
  OBVIOUS
<1>1. CASE Next
  BY <1>1, StartInv, ResumeInv, AbortInv, OutcomeInv, ReadInv DEF Next
<1>2. CASE UNCHANGED vars
  BY <1>2 DEF vars, locationVars, faultVars, callVars, IInv, TypeOK, LocationsTypeOK,
              StreamInv, CallInv, HonestNeverBanned, WaitersAreServed, Spared, Cid
<1>. QED
  BY <1>1, <1>2

\* The inductive invariant holds at the start and every step keeps it.
THEOREM Invariance == Spec => []IInv
BY InitInv, NextInv, PTL DEF Spec

-----------------------------------------------------------------------------
(* A call that fails below its cap has nothing left to try.                 *)

LEMMA LoopGivesUp ==
  ASSUME IInv, NEW f \in Fetches, NEW tried \in SUBSET Locs,
         NEW errors \in 0..MaxFailedLocations,
         Spared(f, tried),
         HonestNeverBanned',
         Loop(f, tried, errors),
         Fails(f), fetch'[f].errors < MaxFailedLocations
  PROVE  HasTriedAll(f)
<1>. DEFINE c == Cid(f)
<1>1. c \in Cids
  BY CallType
<1>2. fetch \in [Fetches -> FetchState]
  BY DEF IInv, TypeOK
<1>3. GiveUp(f, tried, errors) /\ (~(errors < MaxFailedLocations) \/ (Usable(f, tried) = {} /\ ~MayAsk(f)))
  <2>1. \A l : ~Attempt(f, l, tried, errors)
    BY <1>2 DEF Attempt, Fails
  <2>2. ~AwaitPull(f, tried, errors)
    BY <1>2 DEF AwaitPull, Fails, Out
  <2>. QED
    BY <2>1, <2>2 DEF Loop
<1>4. fetch'[f].errors = errors /\ fetch'[f].tried = tried
  BY <1>2, <1>3 DEF GiveUp
<1>5. Usable(f, tried) = {} /\ ~MayAsk(f)
  BY <1>3, <1>4
<1>6. Held(c)' = Held(c)
  BY <1>3 DEF GiveUp, Exhausted, Held
<1>7. \A l \in Held(c) : <<c, l>> \in Honest => l \in tried /\ <<c, l>> \notin Reliable
  <2>. SUFFICES ASSUME NEW l \in Held(c), <<c, l>> \in Honest
                PROVE  l \in tried /\ <<c, l>> \notin Reliable
    OBVIOUS
  <2>1. <<c, l>> \notin banned'
    BY DEF HonestNeverBanned
  <2>. QED
    BY <1>5, <2>1 DEF Usable, Spared
<1>8. Call[f].fresh => state'[c] = "stale"
  BY <1>1, <1>3, <1>5 DEF GiveUp, Exhausted, MayAsk, Ended, IInv, TypeOK, LocationsTypeOK
<1>. QED
  BY <1>4, <1>6, <1>7, <1>8 DEF HasTriedAll

\* A step of f leaves every other fetch as it is.
LEMMA LoopLeavesOthers ==
  ASSUME IInv, NEW f \in Fetches, NEW g \in Fetches, g # f, NEW tried, NEW errors,
         Loop(f, tried, errors)
  PROVE  fetch'[g] = fetch[g]
BY DEF Loop, Attempt, AwaitPull, GiveUp, IInv, TypeOK

LEMMA NextGivesUp ==
  ASSUME IInv, IInv', Next, NEW g \in Fetches,
         Fails(g), fetch'[g].errors < MaxFailedLocations
  PROVE  HasTriedAll(g)
<1>. USE DEF Fails, Running
<1>1. fetch \in [Fetches -> FetchState] /\ HonestNeverBanned'
  BY DEF IInv, TypeOK
<1>2. ASSUME NEW f \in Fetches, Start(f) PROVE HasTriedAll(g)
  <2>1. Spared(f, {}) /\ 0 \in 0..MaxFailedLocations
    BY FailoverAssumption DEF Spared
  <2>2. f = g
    BY <1>1, <1>2, LoopLeavesOthers DEF Start, IInv, TypeOK
  <2>. QED
    BY <1>1, <1>2, <2>1, <2>2, LoopGivesUp DEF Start
<1>3. ASSUME NEW f \in Fetches, Resume(f) PROVE HasTriedAll(g)
  <2>1. /\ Spared(f, fetch[f].tried)
        /\ fetch[f].tried \in SUBSET Locs
        /\ fetch[f].errors \in 0..MaxFailedLocations
    BY <1>1, <1>3 DEF Resume, IInv, CallInv, FetchState
  <2>2. f = g
    BY <1>3, LoopLeavesOthers DEF Resume, callVars
  <2>. QED
    BY <1>1, <1>3, <2>1, <2>2, LoopGivesUp DEF Resume
<1>4. ASSUME NEW f \in Fetches, NEW wrong \in BOOLEAN, Fail(f, wrong),
             <<Cid(f), fetch[f].at>> \notin Reliable
      PROVE  HasTriedAll(g)
  <2>1. /\ fetch[f].tried \in SUBSET Locs
        /\ fetch[f].errors + 1 \in 0..MaxFailedLocations
        /\ Spared(f, fetch[f].tried)
    BY <1>1, <1>4, FailType
  <2>2. f = g
    BY <1>4, LoopLeavesOthers DEF Fail, callVars
  <2>. QED
    BY <1>1, <1>4, <2>1, <2>2, LoopGivesUp DEF Fail
<1>5. ASSUME NEW f \in Fetches, Serve(f) \/ RejectAborted(f) \/ Abort(f) PROVE HasTriedAll(g)
  <2>1. calls'[g] = calls[g] /\ fetch'[g].pc \in {fetch[g].pc, "served", "aborted"}
    BY <1>1, <1>5 DEF Serve, RejectAborted, Abort, Out, callVars
  <2>. QED
    BY <2>1
<1>6. ASSUME NEW c \in Cids, Read(c) PROVE HasTriedAll(g)
  <2>1. calls'[g] = calls[g] /\ fetch'[g].pc \in {fetch[g].pc, "resumed"}
    BY <1>1, <1>6 DEF Read, FetchState, callVars
  <2>. QED
    BY <2>1
<1>. QED
  <2>1. ASSUME NEW f \in Fetches, Outcome(f) PROVE HasTriedAll(g)
    BY <1>4, <1>5, <2>1, FailoverAssumption DEF Outcome, FailInTransport, ServeWrongBytes
  <2>. QED
    BY <1>2, <1>3, <1>5, <1>6, <2>1 DEF Next

-----------------------------------------------------------------------------
(* The order of the attempts.  What is demoted is a part of faultOrder, in  *)
(* the same order: a failure moves its location to the end of both lists, a *)
(* success takes it out of one.                                             *)

OrderInv ==
  /\ IsInjective(demoted)
  /\ IsInjective(faultOrder)
  /\ Demoted \subseteq ToSet(faultOrder)
  /\ \A l, m \in Locs : Before(l, m, demoted) => Before(l, m, faultOrder)

LEMMA RemoveAtElements ==
  ASSUME NEW s \in Seq(Locs), NEW k \in 1..Len(s)
  PROVE  /\ Len(RemoveAt(s, k)) = Len(s) - 1
         /\ \A i \in 1..(Len(s) - 1) : RemoveAt(s, k)[i] = IF i < k THEN s[i] ELSE s[i + 1]
<1>. DEFINE front == SubSeq(s, 1, k - 1)
            back == SubSeq(s, k + 1, Len(s))
<1>1. /\ front \in Seq(Locs) /\ Len(front) = k - 1
      /\ \A i \in 1..(k - 1) : front[i] = s[i]
  OBVIOUS
<1>2. /\ back \in Seq(Locs) /\ Len(back) = Len(s) - k
      /\ \A i \in 1..(Len(s) - k) : back[i] = s[k + i]
  OBVIOUS
<1>3. RemoveAt(s, k) = front \o back
  BY DEF RemoveAt
<1>. HIDE DEF front, back
<1>4. Len(front \o back) = Len(s) - 1
  <2>1. Len(front \o back) = Len(front) + Len(back)
    BY <1>1, <1>2, ConcatProperties
  <2>2. Len(s) \in Nat
    OBVIOUS
  <2>. QED
    BY <1>1, <1>2, <2>1, <2>2
<1>5. ASSUME NEW i \in 1..(Len(s) - 1)
      PROVE  (front \o back)[i] = IF i < k THEN s[i] ELSE s[i + 1]
  <2>1. CASE i < k
    BY <1>1, <1>2, <2>1
  <2>2. CASE ~(i < k)
    <3>1. (front \o back)[i] = back[i - (k - 1)]
      BY <1>1, <1>2, <2>2
    <3>2. i - (k - 1) \in 1..(Len(s) - k)
      BY <2>2
    <3>3. k + (i - (k - 1)) = i + 1
      OBVIOUS
    <3>. QED
      BY <1>2, <2>2, <3>1, <3>2, <3>3
  <2>. QED
    BY <2>1, <2>2
<1>. QED
  BY <1>3, <1>4, <1>5

\* Where the elements of a list without x come from, and where those of the
\* list go: an index is shifted past the hole.
LEMMA WithoutShift ==
  ASSUME NEW s \in Seq(Locs), NEW x
  PROVE  \E up \in [DOMAIN Without(s, x) -> DOMAIN s] :
           /\ \A i \in DOMAIN Without(s, x) : Without(s, x)[i] = s[up[i]]
           /\ \A i, j \in DOMAIN Without(s, x) : i < j <=> up[i] < up[j]
           /\ \A k \in DOMAIN s : s[k] # x => \E i \in DOMAIN Without(s, x) : up[i] = k
           /\ IsInjective(s) => \A i \in DOMAIN Without(s, x) : s[up[i]] # x
<1>1. CASE x \notin ToSet(s)
  <2>1. Without(s, x) = s /\ \A i \in DOMAIN s : s[i] # x
    BY <1>1 DEF Without, ToSet
  <2>. DEFINE up == [i \in DOMAIN s |-> i]
  <2>2. up \in [DOMAIN s -> DOMAIN s] /\ \A i \in DOMAIN s : up[i] = i
    OBVIOUS
  <2>. HIDE DEF up
  <2>. QED
    BY <2>1, <2>2
<1>2. CASE x \in ToSet(s)
  <2>. DEFINE k == CHOOSE i \in DOMAIN s : s[i] = x
              t == Without(s, x)
              up == [i \in DOMAIN t |-> IF i < k THEN i ELSE i + 1]
  <2>1. k \in 1..Len(s) /\ s[k] = x
    BY <1>2 DEF ToSet
  <2>2. t = RemoveAt(s, k)
    BY <1>2 DEF Without
  <2>. HIDE DEF k
  <2>3. t \in Seq(Locs) /\ Len(t) = Len(s) - 1
    BY <2>1, <2>2, RemoveAtElements, WithoutType
  <2>4. DOMAIN t = 1..(Len(s) - 1) /\ DOMAIN s = 1..Len(s) /\ Len(s) \in Nat
    BY <2>3
  <2>5. \A i \in DOMAIN t : t[i] = IF i < k THEN s[i] ELSE s[i + 1]
    BY <2>1, <2>2, <2>4, RemoveAtElements
  <2>. HIDE DEF t
  <2>6. \A i \in DOMAIN t : up[i] = IF i < k THEN i ELSE i + 1
    OBVIOUS
  <2>7. up \in [DOMAIN t -> DOMAIN s]
    BY <2>1, <2>4
  <2>. HIDE DEF up
  <2>8. \A i \in DOMAIN t : t[i] = s[up[i]]
    BY <2>5, <2>6
  <2>9. \A i, j \in DOMAIN t : i < j <=> up[i] < up[j]
    BY <2>1, <2>4, <2>6
  <2>10. ASSUME NEW j \in DOMAIN s, s[j] # x PROVE \E i \in DOMAIN t : up[i] = j
    <3>1. CASE j < k
      <4>1. j \in DOMAIN t /\ up[j] = j
        BY <2>1, <2>4, <2>6, <3>1
      <4>. QED
        BY <4>1
    <3>2. CASE j > k
      <4>1. j - 1 \in DOMAIN t /\ up[j - 1] = j
        BY <2>1, <2>4, <2>6, <3>2
      <4>. QED
        BY <4>1
    <3>. QED
      BY <2>1, <2>4, <2>10, <3>1, <3>2
  <2>11. \A i \in DOMAIN t : up[i] # k
    BY <2>1, <2>4, <2>6
  <2>12. IsInjective(s) => \A i \in DOMAIN t : s[up[i]] # x
    BY <2>1, <2>4, <2>7, <2>11 DEF IsInjective
  <2>. QED
    BY <2>7, <2>8, <2>9, <2>10, <2>12 DEF t
<1>. QED
  BY <1>1, <1>2

\* A list without x has the other elements, in their order.
LEMMA WithoutKeepsOrder ==
  ASSUME NEW s \in Seq(Locs), NEW x
  PROVE  /\ ToSet(Without(s, x)) \subseteq ToSet(s)
         /\ ToSet(s) \subseteq ToSet(Without(s, x)) \cup {x}
         /\ \A l, m : Before(l, m, Without(s, x)) => Before(l, m, s)
         /\ \A l, m : l # x /\ m # x /\ Before(l, m, s) => Before(l, m, Without(s, x))
         /\ IsInjective(s) => IsInjective(Without(s, x)) /\ x \notin ToSet(Without(s, x))
<1>. DEFINE t == Without(s, x)
<1>1. PICK up \in [DOMAIN t -> DOMAIN s] :
        /\ \A i \in DOMAIN t : t[i] = s[up[i]]
        /\ \A i, j \in DOMAIN t : i < j <=> up[i] < up[j]
        /\ \A k \in DOMAIN s : s[k] # x => \E i \in DOMAIN t : up[i] = k
        /\ IsInjective(s) => \A i \in DOMAIN t : s[up[i]] # x
  BY WithoutShift
<1>2. t \in Seq(Locs)
  BY WithoutType
<1>. HIDE DEF t
<1>3. DOMAIN t \subseteq Int /\ DOMAIN s \subseteq Int
  BY <1>2
<1>4. ToSet(t) \subseteq ToSet(s)
  BY <1>1 DEF ToSet
<1>5. ToSet(s) \subseteq ToSet(t) \cup {x}
  BY <1>1 DEF ToSet
<1>6. ASSUME NEW l, NEW m, Before(l, m, t) PROVE Before(l, m, s)
  BY <1>1, <1>6 DEF Before
<1>7. ASSUME NEW l, NEW m, l # x, m # x, Before(l, m, s) PROVE Before(l, m, t)
  <2>1. PICK i, j \in DOMAIN s : i < j /\ s[i] = l /\ s[j] = m
    BY <1>7 DEF Before
  <2>2. PICK a \in DOMAIN t : up[a] = i
    BY <1>1, <1>7, <2>1
  <2>3. PICK b \in DOMAIN t : up[b] = j
    BY <1>1, <1>7, <2>1
  <2>. QED
    BY <1>1, <2>1, <2>2, <2>3 DEF Before
<1>8. ASSUME IsInjective(s) PROVE IsInjective(t) /\ x \notin ToSet(t)
  <2>1. x \notin ToSet(t)
    BY <1>1, <1>8 DEF ToSet
  <2>2. ASSUME NEW i \in DOMAIN t, NEW j \in DOMAIN t, t[i] = t[j] PROVE i = j
    <3>1. up[i] \in DOMAIN s /\ up[j] \in DOMAIN s /\ s[up[i]] = s[up[j]]
      BY <1>1, <2>2
    <3>2. up[i] = up[j]
      BY <1>8, <3>1 DEF IsInjective
    <3>3. ~(i < j) /\ ~(j < i) /\ i \in Int /\ j \in Int
      BY <1>1, <1>3, <3>1, <3>2
    <3>. QED
      BY <3>3
  <2>. QED
    BY <2>1, <2>2 DEF IsInjective
<1>. QED
  BY <1>4, <1>5, <1>6, <1>7, <1>8 DEF t

LEMMA AtEndOrder ==
  ASSUME NEW s \in Seq(Locs), NEW x \in Locs
  PROVE  /\ ToSet(AtEnd(s, x)) = ToSet(s) \cup {x}
         /\ IsInjective(s) => IsInjective(AtEnd(s, x))
         /\ \A l \in ToSet(s) : l # x => Before(l, x, AtEnd(s, x))
         /\ \A l, m : l # x /\ m # x /\ Before(l, m, s) => Before(l, m, AtEnd(s, x))
         /\ IsInjective(s) =>
              \A l, m : Before(l, m, AtEnd(s, x)) =>
                          l \in ToSet(s) /\ l # x /\ (m # x => Before(l, m, s))
<1>. DEFINE t == Without(s, x)
            u == AtEnd(s, x)
<1>1. /\ ToSet(t) \subseteq ToSet(s)
      /\ ToSet(s) \subseteq ToSet(t) \cup {x}
      /\ \A l, m : Before(l, m, t) => Before(l, m, s)
      /\ \A l, m : l # x /\ m # x /\ Before(l, m, s) => Before(l, m, t)
      /\ IsInjective(s) => IsInjective(t) /\ x \notin ToSet(t)
  BY WithoutKeepsOrder
<1>2. t \in Seq(Locs) /\ u = Append(t, x)
  BY WithoutType DEF AtEnd
<1>. HIDE DEF t, u
<1>3. PICK n \in Nat : n = Len(t)
  BY <1>2
<1>4. /\ DOMAIN t = 1..n /\ DOMAIN u = 1..(n + 1)
      /\ u[n + 1] = x /\ \A i \in 1..n : u[i] = t[i]
  BY <1>2, <1>3
<1>5. ToSet(u) = ToSet(t) \cup {x}
  BY <1>4 DEF ToSet
<1>6. ToSet(u) = ToSet(s) \cup {x}
  BY <1>1, <1>5
<1>7. ASSUME IsInjective(s) PROVE IsInjective(u)
  BY <1>1, <1>4, <1>7 DEF IsInjective, ToSet
<1>8. ASSUME NEW l \in ToSet(s), l # x PROVE Before(l, x, u)
  <2>1. PICK i \in 1..n : t[i] = l
    BY <1>1, <1>4, <1>8 DEF ToSet
  <2>2. i \in DOMAIN u /\ n + 1 \in DOMAIN u /\ i < n + 1 /\ u[i] = l /\ u[n + 1] = x
    BY <1>4, <2>1
  <2>. QED
    BY <2>2 DEF Before
<1>9. ASSUME NEW l, NEW m, l # x, m # x, Before(l, m, s) PROVE Before(l, m, u)
  <2>0. Before(l, m, t)
    BY <1>1, <1>9
  <2>1. PICK i, j \in 1..n : i < j /\ t[i] = l /\ t[j] = m
    BY <1>4, <2>0 DEF Before
  <2>2. i \in DOMAIN u /\ j \in DOMAIN u /\ u[i] = l /\ u[j] = m
    BY <1>4, <2>1
  <2>. QED
    BY <2>1, <2>2 DEF Before
<1>10. ASSUME IsInjective(s), NEW l, NEW m, Before(l, m, u)
       PROVE  l \in ToSet(s) /\ l # x /\ (m # x => Before(l, m, s))
  <2>1. PICK i, j \in 1..(n + 1) : i < j /\ u[i] = l /\ u[j] = m
    BY <1>4, <1>10 DEF Before
  <2>2. i \in 1..n /\ t[i] = l
    BY <1>4, <2>1
  <2>3. l \in ToSet(t)
    BY <1>4, <2>2 DEF ToSet
  <2>4. l \in ToSet(s) /\ l # x
    BY <1>1, <1>10, <2>3
  <2>5. ASSUME m # x PROVE Before(l, m, s)
    <3>1. j \in 1..n /\ t[j] = m
      BY <1>4, <2>1, <2>5
    <3>2. Before(l, m, t)
      BY <1>4, <2>1, <2>2, <3>1 DEF Before
    <3>. QED
      BY <1>1, <3>2
  <2>. QED
    BY <2>4, <2>5
<1>. QED
  BY <1>6, <1>7, <1>8, <1>9, <1>10 DEF t, u

\* A failure and a success keep the order of the demoted locations.
LEMMA DemoteKeepsOrder ==
  ASSUME TypeOK, OrderInv, NEW x \in Locs,
         demoted' = AtEnd(demoted, x), faultOrder' = AtEnd(faultOrder, x)
  PROVE  OrderInv'
<1>1. demoted \in Seq(Locs) /\ faultOrder \in Seq(Locs)
  BY DEF TypeOK
<1>2. IsInjective(demoted') /\ IsInjective(faultOrder')
  BY <1>1, AtEndOrder DEF OrderInv
<1>3. Demoted' \subseteq ToSet(faultOrder')
  BY <1>1, AtEndOrder DEF OrderInv, Demoted
<1>4. ASSUME NEW l \in Locs, NEW m \in Locs, Before(l, m, demoted')
      PROVE  Before(l, m, faultOrder')
  <2>1. l \in ToSet(demoted) /\ l # x /\ (m # x => Before(l, m, demoted))
    BY <1>1, <1>4, AtEndOrder DEF OrderInv
  <2>2. CASE m = x
    <3>1. l \in ToSet(faultOrder)
      BY <2>1 DEF OrderInv, Demoted
    <3>. QED
      BY <1>1, <2>1, <2>2, <3>1, AtEndOrder
  <2>3. CASE m # x
    <3>1. Before(l, m, faultOrder)
      BY <2>1, <2>3 DEF OrderInv
    <3>. QED
      BY <1>1, <2>1, <2>3, <3>1, AtEndOrder
  <2>. QED
    BY <2>2, <2>3
<1>. QED
  BY <1>2, <1>3, <1>4 DEF OrderInv

LEMMA PardonKeepsOrder ==
  ASSUME TypeOK, OrderInv, NEW x,
         demoted' = Without(demoted, x), faultOrder' = faultOrder
  PROVE  OrderInv'
<1>1. demoted \in Seq(Locs)
  BY DEF TypeOK
<1>2. /\ ToSet(demoted') \subseteq ToSet(demoted)
      /\ \A l, m : Before(l, m, demoted') => Before(l, m, demoted)
      /\ IsInjective(demoted) => IsInjective(demoted')
  BY <1>1, WithoutKeepsOrder
<1>. QED
  BY <1>2 DEF OrderInv, Demoted

LEMMA InitOrder == Init => OrderInv
<1>. SUFFICES ASSUME Init PROVE OrderInv
  OBVIOUS
<1>1. demoted = <<>> /\ faultOrder = <<>>
  BY DEF Init
<1>2. DOMAIN demoted = {} /\ DOMAIN faultOrder = {}
  BY <1>1
<1>. QED
  BY <1>2 DEF OrderInv, IsInjective, Demoted, ToSet, Before

LEMMA NextOrder == IInv /\ OrderInv /\ [Next]_vars => OrderInv'
<1>. SUFFICES ASSUME IInv, OrderInv, [Next]_vars PROVE OrderInv'
  OBVIOUS
<1>1. TypeOK
  BY DEF IInv
<1>2. ASSUME UNCHANGED faultVars PROVE OrderInv'
  BY <1>2 DEF OrderInv, Demoted, faultVars
<1>3. ASSUME NEW f \in Fetches, NEW wrong \in BOOLEAN, Fail(f, wrong) PROVE OrderInv'
  <2>1. fetch[f].at \in Locs
    BY <1>3 DEF Fail, IInv, CallInv
  <2>. QED
    BY <1>1, <1>3, <2>1, DemoteKeepsOrder DEF Fail, Record
<1>4. ASSUME NEW f \in Fetches, Serve(f) PROVE OrderInv'
  BY <1>1, <1>4, PardonKeepsOrder DEF Serve
<1>5. ASSUME NEW f \in Fetches, Outcome(f) PROVE OrderInv'
  BY <1>2, <1>3, <1>4, <1>5 DEF Outcome, FailInTransport, ServeWrongBytes, RejectAborted
<1>6. CASE Next
  BY <1>2, <1>5, <1>6 DEF Next, Start, Resume, Abort, Read
<1>7. CASE UNCHANGED vars
  BY <1>2, <1>7 DEF vars
<1>. QED
  BY <1>6, <1>7

LEMMA LoopInOrder ==
  ASSUME IInv, OrderInv', demoted' \in Seq(Locs), NEW f \in Fetches, NEW tried, NEW errors,
         fetch[f].pc \in Running => tried = fetch[f].tried,
         Loop(f, tried, errors), Attempts(f)
  PROVE  InOrder(f)
<1>. DEFINE c == Cid(f)
            usable == Usable(f, tried)
            clean == {l \in usable : l \notin ToSet(demoted')}
<1>1. fetch \in [Fetches -> FetchState]
  BY DEF IInv, TypeOK
<1>2. Held(c) \subseteq Locs
  BY CallType, HeldType DEF IInv
<1>3. ~AwaitPull(f, tried, errors) /\ ~GiveUp(f, tried, errors)
  BY <1>1 DEF Attempts, AwaitPull, GiveUp, Out
<1>4. PICK l \in usable :
        /\ Attempt(f, l, tried, errors)
        /\ l \in clean \/ (clean = {} /\ ~MayAsk(f) /\ IsFirst(l, demoted', usable))
  BY <1>3 DEF Loop
<1>5. UNCHANGED locationVars /\ fetch'[f].at = l /\ fetch'[f].tried = tried \cup {l}
  BY <1>1, <1>4 DEF Attempt
<1>6. l \in Held(c) /\ l \notin tried /\ <<c, l>> \notin banned'
  BY DEF Usable
<1>7. Held(c)' = Held(c) /\ Ended(c)' = Ended(c)
  BY <1>5 DEF locationVars, Held, Ended
<1>8. ASSUME l \in Demoted' PROVE Call[f].fresh => Ended(c)'
  BY <1>4, <1>7, <1>8 DEF Demoted, MayAsk
<1>9. ASSUME l \in Demoted',
             NEW m \in Held(c), m # l, m \notin tried, <<c, m>> \notin banned'
      PROVE  m \in Demoted' /\ Before(l, m, faultOrder')
  <2>1. m \in usable /\ clean = {} /\ IsFirst(l, demoted', usable)
    BY <1>4, <1>9 DEF Usable, Demoted
  <2>2. m \in Demoted'
    BY <2>1 DEF Demoted
  <2>. HIDE DEF usable, clean
  <2>3. PICK i \in DOMAIN demoted' : demoted'[i] = l /\ \A j \in 1..(i - 1) : demoted'[j] \notin usable
    BY <2>1 DEF IsFirst
  <2>4. PICK j \in DOMAIN demoted' : demoted'[j] = m
    BY <2>2 DEF Demoted, ToSet
  <2>5. j \notin 1..(i - 1) /\ i # j
    BY <1>9, <2>1, <2>3, <2>4
  <2>6. DOMAIN demoted' = 1..Len(demoted') /\ Len(demoted') \in Nat
    OBVIOUS
  <2>7. i < j
    BY <2>5, <2>6
  <2>8. Before(l, m, demoted')
    BY <2>3, <2>4, <2>7 DEF Before
  <2>9. l \in Locs /\ m \in Locs
    BY <1>2, <1>6
  <2>. QED
    BY <2>2, <2>8, <2>9 DEF OrderInv
<1>. QED
  BY <1>5, <1>6, <1>7, <1>8, <1>9 DEF InOrder

LEMMA NextInOrder ==
  ASSUME IInv, IInv', OrderInv', Next, NEW g \in Fetches, Attempts(g)
  PROVE  InOrder(g)
<1>1. fetch \in [Fetches -> FetchState] /\ demoted' \in Seq(Locs)
  BY DEF IInv, TypeOK
<1>2. ASSUME NEW f \in Fetches, NEW tried, NEW errors,
             fetch[f].pc \in Running => tried = fetch[f].tried,
             Loop(f, tried, errors)
      PROVE  InOrder(g)
  <2>1. f = g
    BY <1>2, LoopLeavesOthers DEF Attempts
  <2>. QED
    BY <1>1, <1>2, <2>1, LoopInOrder
<1>3. ASSUME NEW f \in Fetches, Serve(f) \/ RejectAborted(f) \/ Abort(f) PROVE FALSE
  BY <1>1, <1>3 DEF Serve, RejectAborted, Abort, Out, Attempts
<1>4. ASSUME NEW c \in Cids, Read(c) PROVE FALSE
  BY <1>1, <1>4 DEF Read, FetchState, Attempts
<1>5. ASSUME NEW f \in Fetches, Start(f) PROVE InOrder(g)
  BY <1>2, <1>5 DEF Start, Running, Over
<1>6. ASSUME NEW f \in Fetches, Resume(f) PROVE InOrder(g)
  BY <1>2, <1>6 DEF Resume
<1>7. ASSUME NEW f \in Fetches, Outcome(f) PROVE InOrder(g)
  BY <1>2, <1>3, <1>7 DEF Outcome, FailInTransport, ServeWrongBytes, Fail
<1>. QED
  BY <1>3, <1>4, <1>5, <1>6, <1>7 DEF Next

-----------------------------------------------------------------------------
(* The theorems.                                                            *)

\* The state of a client keeps its types; in particular no call counts more
\* than MAX_FAILED_LOCATIONS failures and no stream hands out more than
\* MAX_LOCATED_VALUES values (failover.ts, locations.ts).
THEOREM TypeCorrect == Spec => []TypeOK
BY Invariance, PTL DEF IInv

\* However the fetches of a client interleave, a location that never lied
\* about a CID is never banned for it (Faults.record, failover's catch).
THEOREM NoHonestLocationBanned == Spec => []HonestNeverBanned
BY Invariance, PTL DEF IInv

\* However the fetches of a client share, abandon and renew the reads of a
\* stream, none waits for a read that is not under way (Locations.pull).
THEOREM NoWaiterStranded == Spec => []WaitersAreServed
BY Invariance, PTL DEF IInv

\* A verified or manifest fetch that fails below its cap of failures has read
\* the router to its end and tried every location it holds that never lied,
\* and no call fails below the cap while it holds a reliable location
\* (failover's loop, Locations.exhausted).
THEOREM NothingLeftToTry == Spec => NeverGivesUpEarly
<1>1. IInv /\ IInv' /\ [Next]_vars =>
        [\A f \in Fetches :
           Fails(f) /\ fetch'[f].errors < MaxFailedLocations => HasTriedAll(f)]_vars
  BY NextGivesUp
<1>. QED
  BY <1>1, Invariance, PTL DEF Spec, NeverGivesUpEarly

\* Every attempt keeps the order of SPEC section 4, whatever the other fetches
\* did to the list and the faults since the last one: never a location banned
\* for this CID or tried before in this call, and a demoted one only when no
\* other is left and the router has no more to give, least recently failed
\* first (failover's loop, Faults.record, Faults.served).
THEOREM AttemptsInOrder == Spec => OrderOfLocations
<1>1. Spec => []OrderInv
  BY InitOrder, NextOrder, Invariance, PTL DEF Spec
<1>2. IInv /\ IInv' /\ OrderInv' /\ [Next]_vars =>
        [\A f \in Fetches : Attempts(f) => InOrder(f)]_vars
  BY NextInOrder
<1>. QED
  BY <1>1, <1>2, Invariance, PTL DEF Spec, OrderOfLocations

=============================================================================
