------------------------------ MODULE Failover ------------------------------
(***************************************************************************)
(* One client's fetches failing over between locations                     *)
(* (packages/core/src/failover.ts).  Every fetch is a run of `failover`:   *)
(* it tries its CID's locations until one serves.  The fetches of a client *)
(* run concurrently and share the CIDs' Locations and one Faults object,   *)
(* so each await - an attempt, a pull - lets the others change the list,   *)
(* the stream, the bans and the demotions a fetch will read next.          *)
(*                                                                         *)
(* JavaScript runs the code between two awaits without interruption, so    *)
(* the step that ends an await is one action: it records the outcome and   *)
(* runs the loop (Loop) up to the next await, to success or to failure.    *)
(*                                                                         *)
(* An attempt is what the caller passed in: a request and the check of its *)
(* bytes.  It serves, fails in transport, or serves wrong bytes, as the    *)
(* host behind the location likes within Honest and Reliable.              *)
(***************************************************************************)
EXTENDS Locations, FiniteSets

CONSTANTS
  Fetches,            \* the callers of failover
  Call,               \* Call[f]: the CID f reads and the options it passes
  MaxFailedLocations, \* MAX_FAILED_LOCATIONS
  MaxCalls,           \* bound: MaxCalls[f] is how often f calls
  NoLoc,              \* no location is being tried
  Honest,             \* <<c, l>>: l never serves wrong bytes for c
  Reliable            \* <<c, l>>: l serves c's bytes whenever it is asked

ASSUME FailoverAssumption ==
  /\ Call \in [Fetches -> [cid: Cids, fresh: BOOLEAN, bans: BOOLEAN]]
  /\ MaxFailedLocations \in Nat \ {0}
  /\ MaxCalls \in [Fetches -> Nat]
  /\ NoLoc \notin Locs
  /\ Honest \subseteq Cids \X Locs
  /\ Reliable \subseteq Honest

VARIABLES
  banned,    \* Faults.#banned, pairs of a CID and a location
  demoted,   \* Faults.#demoted, least recently failed first
  fetch,     \* fetch[f]: where f stands in its call of failover
  aborted,   \* aborted[f]: the signal of f's call has aborted
  calls,     \* calls[f]: how often f has called
  faultOrder \* history: every location that failed, by its latest failure

faultVars == <<banned, demoted, faultOrder>>
callVars == <<aborted, calls>>
vars == <<locationVars, faultVars, fetch, callVars>>

Running == {"attempt", "pull", "resumed"}
Over == {"idle", "served", "aborted", "failed", "unlocated"}

FetchState == [pc: Running \cup Over, tried: SUBSET Locs, errors: 0..MaxFailedLocations,
               at: Locs \cup {NoLoc}]

\* The types: of the faults, of each call's locals, and of the shared list.
TypeOK ==
  /\ LocationsTypeOK
  /\ banned \subseteq Cids \X Locs
  /\ demoted \in Seq(Locs)
  /\ faultOrder \in Seq(Locs)
  /\ fetch \in [Fetches -> FetchState]
  /\ aborted \in [Fetches -> BOOLEAN]
  /\ calls \in [Fetches -> Nat]
  /\ \A f \in Fetches : calls[f] <= MaxCalls[f]

\* A fetch outside a call: the call's locals are gone.
Out(pc) == [pc |-> pc, tried |-> {}, errors |-> 0, at |-> NoLoc]

Cid(f) == Call[f].cid
Demoted == ToSet(demoted)

Init ==
  /\ LocationsInit
  /\ banned = {}
  /\ demoted = <<>>
  /\ faultOrder = <<>>
  /\ fetch = [f \in Fetches |-> Out("idle")]
  /\ aborted = [f \in Fetches |-> FALSE]
  /\ calls = [f \in Fetches |-> 0]

-----------------------------------------------------------------------------
(* Faults.                                                                  *)

\* A list without l, and a list with l moved to its end.
Without(s, l) ==
  IF l \in ToSet(s) THEN RemoveAt(s, CHOOSE i \in DOMAIN s : s[i] = l) ELSE s
AtEnd(s, l) == Append(Without(s, l), l)

\* Variants of Record as it could have been written: a ban that forgets the
\* CID, and a demoted location that fails again and keeps its old place.
RecordForAllCids(f, l, wrong) ==
  /\ banned' = IF wrong /\ Call[f].bans THEN banned \cup (Cids \X {l}) ELSE banned
  /\ demoted' = AtEnd(demoted, l)
  /\ faultOrder' = AtEnd(faultOrder, l)
RecordKeepingPlace(f, l, wrong) ==
  /\ banned' = IF wrong /\ Call[f].bans THEN banned \cup {<<Cid(f), l>>} ELSE banned
  /\ demoted' = IF l \in Demoted THEN demoted ELSE Append(demoted, l)
  /\ faultOrder' = AtEnd(faultOrder, l)

\* Faults.record: wrong bytes ban the location for this CID if the call bans;
\* any failure demotes it behind every location that failed before.
Record(f, l, wrong) ==
  /\ banned' = IF wrong /\ Call[f].bans THEN banned \cup {<<Cid(f), l>>} ELSE banned
  /\ demoted' = AtEnd(demoted, l)
  /\ faultOrder' = AtEnd(faultOrder, l)

-----------------------------------------------------------------------------
(* The loop of failover, from an await to the next, on the faults as they   *)
(* are after the step that resumed it.                                      *)

\* l is the first element of s that is in S.
IsFirst(l, s, S) ==
  \E i \in DOMAIN s : s[i] = l /\ l \in S /\ \A j \in 1..(i - 1) : s[j] \notin S

\* Variant: a ban for any CID counts.
UsableUnlessBannedAnywhere(f, tried) ==
  {l \in Held(Cid(f)) : l \notin tried /\ \A c \in Cids : <<c, l>> \notin banned'}

Usable(f, tried) == {l \in Held(Cid(f)) : l \notin tried /\ <<Cid(f), l>> \notin banned'}

\* Variant: asks on although the stream has ended.
AskForEver(f) == Call[f].fresh

\* Whether f may ask the router for a fresh location.
MayAsk(f) == Call[f].fresh /\ ~Ended(Cid(f))

Attempt(f, l, tried, errors) ==
  /\ fetch' = [fetch EXCEPT ![f] = [pc |-> "attempt", tried |-> tried \cup {l},
                                    errors |-> errors, at |-> l]]
  /\ UNCHANGED locationVars

\* await locations.pull(signal): the read starts even if the signal has
\* aborted already, and then its rejection ends the call.
AwaitPull(f, tried, errors) ==
  /\ Pull(Cid(f))
  /\ fetch' = [fetch EXCEPT ![f] =
                 IF aborted[f] THEN Out("aborted")
                 ELSE [pc |-> "pull", tried |-> tried, errors |-> errors, at |-> NoLoc]]

\* The call fails; what it tried stays on record for the properties.
GiveUp(f, tried, errors) ==
  /\ Exhausted(Cid(f))
  /\ fetch' = [fetch EXCEPT ![f] = [pc |-> IF held[Cid(f)] = <<>> THEN "unlocated" ELSE "failed",
                                    tried |-> tried, errors |-> errors, at |-> NoLoc]]

Loop(f, tried, errors) ==
  LET c      == Cid(f)
      usable == Usable(f, tried)
      clean  == {l \in usable : l \notin ToSet(demoted')}
      more   == errors < MaxFailedLocations
  IN \/ /\ more
        /\ \E l \in clean : IsFirst(l, held[c], clean) /\ Attempt(f, l, tried, errors)
     \/ /\ more /\ clean = {} /\ MayAsk(f)
        /\ AwaitPull(f, tried, errors)
     \/ /\ more /\ clean = {} /\ ~MayAsk(f)
        /\ \E l \in usable : IsFirst(l, demoted', usable) /\ Attempt(f, l, tried, errors)
     \/ /\ ~more \/ (usable = {} /\ ~MayAsk(f))
        /\ GiveUp(f, tried, errors)

-----------------------------------------------------------------------------
(* The actions.                                                             *)

\* A caller calls failover: the loop runs synchronously to its first await.
Start(f) ==
  /\ fetch[f].pc \in Over
  /\ calls[f] < MaxCalls[f]
  /\ calls' = [calls EXCEPT ![f] = @ + 1]
  /\ aborted' = [aborted EXCEPT ![f] = FALSE]
  /\ UNCHANGED faultVars
  /\ Loop(f, {}, 0)

\* The pull f awaited has settled and f runs on.
Resume(f) ==
  /\ fetch[f].pc = "resumed"
  /\ UNCHANGED <<faultVars, callVars>>
  /\ Loop(f, fetch[f].tried, fetch[f].errors)

\* The attempt resolves, whether or not the signal aborted meanwhile.
Serve(f) ==
  /\ fetch[f].pc = "attempt"
  /\ demoted' = Without(demoted, fetch[f].at)
  /\ fetch' = [fetch EXCEPT ![f] = Out("served")]
  /\ UNCHANGED <<locationVars, banned, faultOrder, callVars>>

\* The attempt rejects and the signal has not aborted: the failure is
\* recorded and the loop goes on.
Fail(f, wrong) ==
  /\ fetch[f].pc = "attempt"
  /\ ~aborted[f]
  /\ Record(f, fetch[f].at, wrong)
  /\ UNCHANGED callVars
  /\ Loop(f, fetch[f].tried, fetch[f].errors + 1)

FailInTransport(f) ==
  /\ <<Cid(f), fetch[f].at>> \notin Reliable
  /\ Fail(f, FALSE)

ServeWrongBytes(f) ==
  /\ <<Cid(f), fetch[f].at>> \notin Honest
  /\ Fail(f, TRUE)

\* The attempt rejects after the signal aborted, whatever the error is: the
\* location is not blamed.
RejectAborted(f) ==
  /\ fetch[f].pc = "attempt"
  /\ aborted[f]
  /\ fetch' = [fetch EXCEPT ![f] = Out("aborted")]
  /\ UNCHANGED <<locationVars, faultVars, callVars>>

\* The caller's signal aborts: a fetch that waits on a pull stops waiting,
\* while the read goes on; an attempt learns of it by its own signal.
Abort(f) ==
  /\ fetch[f].pc \in Running
  /\ ~aborted[f]
  /\ aborted' = [aborted EXCEPT ![f] = TRUE]
  /\ fetch' = [fetch EXCEPT ![f] = IF @.pc = "pull" THEN Out("aborted") ELSE @]
  /\ UNCHANGED <<locationVars, faultVars, calls>>

\* A step of a stream's read; the one that ends the read settles the promise
\* that every fetch pulling c awaits.
Read(c) ==
  /\ Advance(c)
  /\ fetch' = [f \in Fetches |->
                 IF fetch[f].pc = "pull" /\ Cid(f) = c /\ ~pending'[c]
                 THEN [fetch[f] EXCEPT !.pc = "resumed"]
                 ELSE fetch[f]]
  /\ UNCHANGED <<faultVars, callVars>>

Outcome(f) == Serve(f) \/ FailInTransport(f) \/ ServeWrongBytes(f) \/ RejectAborted(f)

Next ==
  \/ \E f \in Fetches : Start(f) \/ Resume(f) \/ Abort(f)
  \/ \E f \in Fetches : Outcome(f)
  \/ \E c \in Cids : Read(c)

Spec == Init /\ [][Next]_vars

\* Every request and every step of a router's stream is answered in the end,
\* and the event loop runs every continuation.
Fairness ==
  /\ \A f \in Fetches : WF_vars(Outcome(f)) /\ WF_vars(Resume(f))
  /\ \A c \in Cids : WF_vars(Read(c))

FairSpec == Spec /\ Fairness

-----------------------------------------------------------------------------
(* Properties.                                                              *)

\* A location is banned for a CID only if it lied about that CID: serving
\* wrong bytes for another CID, failing in transport, or failing a caller
\* that aborted costs it no ban (failover.ts, the comment on Faults).
HonestNeverBanned == banned \cap Honest = {}

\* Whoever waits on a pull waits on a read that is under way, and only an
\* open stream is read: no fetch waits for a promise nobody will settle, and
\* no stream is opened anew under a reader.
WaitersAreServed ==
  /\ \A f \in Fetches : fetch[f].pc = "pull" => pending[Cid(f)]
  /\ \A c \in Cids : pending[c] => state[c] = "open" /\ read[c] < MaxLocatedValues

\* The step in which f starts an attempt.
Attempts(f) ==
  /\ fetch'[f].pc = "attempt"
  /\ fetch'[f] # fetch[f]

\* l comes before m in s.
Before(l, m, s) == \E i, j \in DOMAIN s : i < j /\ s[i] = l /\ s[j] = m

\* The order of SPEC 4: no location is tried twice in a call or against its
\* ban; a demoted one is tried only when no other will do and the router has
\* nothing left to give, and the one whose latest failure is oldest first.
InOrder(f) ==
  LET c == Cid(f)
      l == fetch'[f].at
      others == {m \in Held(c)' : m # l /\ m \notin fetch'[f].tried /\ <<c, m>> \notin banned'}
  IN /\ <<c, l>> \notin banned'
     /\ fetch[f].pc \in Running => l \notin fetch[f].tried
     /\ l \in Demoted' =>
          /\ Call[f].fresh => Ended(c)'
          /\ \A m \in others : m \in Demoted' /\ Before(l, m, faultOrder')
OrderOfLocations == [][\A f \in Fetches : Attempts(f) => InOrder(f)]_vars

\* The step in which f's call fails for want of a location that serves.
Fails(f) ==
  /\ fetch[f].pc \in Running \/ calls'[f] # calls[f]
  /\ fetch'[f].pc \in {"failed", "unlocated"}

\* A call that fails below its cap has tried every location it holds that
\* never lied, none of them reliable, and, unless it speculates, has read the
\* router to its end and left it to be asked again - whatever the other
\* fetches did to the shared lists, faults and stream while it waited.
HasTriedAll(f) ==
  LET c == Cid(f)
  IN /\ \A l \in Held(c)' : <<c, l>> \in Honest =>
          l \in fetch'[f].tried /\ <<c, l>> \notin Reliable
     /\ Call[f].fresh => state'[c] = "stale"
NeverGivesUpEarly ==
  [][\A f \in Fetches :
       Fails(f) /\ fetch'[f].errors < MaxFailedLocations => HasTriedAll(f)]_vars

\* Every call ends: it is served, fails or aborts.
EveryCallEnds == \A f \in Fetches : fetch[f].pc \in Running ~> fetch[f].pc \in Over

=============================================================================
