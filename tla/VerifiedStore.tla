---------------------------- MODULE VerifiedStore ----------------------------
(***************************************************************************)
(* The one place where bytes are verified                                  *)
(* (packages/core/src/verified-store.ts): a cache of verified bytes, one   *)
(* fetch shared by all who read the same key at once, and the counts of    *)
(* what the checks found.                                                  *)
(*                                                                         *)
(* Readers call fetchChecked.  A fetch is the promise `dedup` shares: a    *)
(* run of failover whose attempts are #whole.  Failover itself is the      *)
(* module Failover; here a fetch that is not served by a location goes on  *)
(* to another, waits for one, or gives up, as it likes.  Each await is a   *)
(* point where readers come, go and abort, and where the other fetches of  *)
(* the store change the cache and the counts.                              *)
(***************************************************************************)
EXTENDS Integers, SequencesExt, FiniteSets

CONSTANTS
  Readers,       \* the callers of fetchChecked
  Keys,          \* the cache keys
  Fetches,       \* bound: the fetches that can be under way or awaited at once
  NoFetch,       \* no fetch
  Key,           \* Key[r]: the cache key r reads
  CanAbort,      \* the readers that pass a signal
  MaxReads,      \* bound: MaxReads[r] is how often r reads
  MaxFailures,   \* MAX_FAILED_LOCATIONS, failed attempts of one fetch
  Size,          \* Size[k]: the length of k's bytes
  Hashes,        \* Hashes[k]: how many hash checks k's check counts
  MaxCacheBytes  \* maxCacheBytes

ASSUME VerifiedStoreAssumption ==
  /\ IsFiniteSet(Readers)
  /\ Keys # {}
  /\ NoFetch \notin Fetches
  /\ Key \in [Readers -> Keys]
  /\ CanAbort \subseteq Readers
  /\ MaxReads \in [Readers -> Nat]
  /\ MaxFailures \in Nat \ {0}
  /\ Size \in [Keys -> Nat]
  /\ Hashes \in [Keys -> Nat]
  /\ MaxCacheBytes \in Nat

VARIABLES
  cache,      \* #cache, its keys from the least to the most recently used
  cacheBytes, \* #cacheBytes
  inflight,   \* inflight[k]: the #inflight entry under k
  fetch,      \* fetch[e]: an Inflight and the run of failover behind it
  stats,      \* stats, shared by the stores of a client
  reader,     \* reader[r]: where r's latest read stands
  signal,     \* signal[r]: that read's signal has aborted
  reads,      \* reads[r]: how often r has read
  passed      \* history: the hash checks that have passed

storeVars == <<cache, cacheBytes, stats, passed>>
vars == <<storeVars, inflight, fetch, reader, signal, reads>>

Outcomes == {"served", "failed", "aborted"}

\* run's promise has not settled; "finally": it has, and its `finally` has
\* not run; "settled": the promise the readers await has settled.
Running == {"locating", "requested", "checking"}

FetchState ==
  [pc: Running \cup {"finally", "settled"}, key: Keys, refs: Int, aborted: BOOLEAN,
   failures: 0..(MaxFailures - 1), seen: Nat, outcome: Outcomes]

\* The types, and a fetch under way has failed less often than its limit.
TypeOK ==
  /\ cache \in Seq(Keys)
  /\ inflight \in [Keys -> Fetches \cup {NoFetch}]
  /\ fetch \in [Fetches -> FetchState]
  /\ stats \in [verified: Nat, rejected: Nat]
  /\ reader \in [Readers -> [pc: {"idle", "reading"} \cup Outcomes, at: Fetches \cup {NoFetch}]]
  /\ signal \in [Readers -> BOOLEAN]
  /\ reads \in [Readers -> Nat]
  /\ passed \in Nat

Cached == ToSet(cache)
Bytes(keys) == MapThenSumSet(LAMBDA k : Size[k], keys)

\* The readers that await e and have not aborted.
Waiting(e) == {r \in Readers : reader[r].pc = "reading" /\ reader[r].at = e /\ ~signal[r]}

\* Nothing refers to e: its record may serve for another fetch.
Free(e) ==
  /\ fetch[e].pc = "settled"
  /\ \A r \in Readers : reader[r].pc = "reading" => reader[r].at # e

Over(outcome) == [pc |-> outcome, at |-> NoFetch]

\* A fetch under k with one reader; its run stands at pc.
Opened(k, pc) ==
  [pc |-> pc, key |-> k, refs |-> 1, aborted |-> FALSE, failures |-> 0, seen |-> 0,
   outcome |-> "failed"]

Init ==
  /\ cache = <<>>
  /\ cacheBytes = 0
  /\ inflight = [k \in Keys |-> NoFetch]
  /\ fetch = [e \in Fetches |-> Opened(CHOOSE k \in Keys : TRUE, "settled")]
  /\ stats = [verified |-> 0, rejected |-> 0]
  /\ reader = [r \in Readers |-> Over("idle")]
  /\ signal = [r \in Readers |-> FALSE]
  /\ reads = [r \in Readers |-> 0]
  /\ passed = 0

-----------------------------------------------------------------------------
(* The cache.                                                               *)

\* getCached of a key that is cached: it becomes the most recently used.
Refresh(k) == \E i \in DOMAIN cache : cache[i] = k /\ cache' = Append(RemoveAt(cache, i), k)

\* Variant: a key already cached is put again, where it stands (a Map keeps
\* the place of a key it has).
PutTwice(k) ==
  LET keys  == IF k \in Cached THEN cache ELSE Append(cache, k)
      Rest(n) == cacheBytes + Size[k] - Bytes(ToSet(SubSeq(keys, 1, n)))
  IN \E n \in 0..Len(keys) :
       /\ n = Len(keys) \/ Rest(n) <= MaxCacheBytes
       /\ \A i \in 0..(n - 1) : Rest(i) > MaxCacheBytes
       /\ cache' = SubSeq(keys, n + 1, Len(keys))
       /\ cacheBytes' = Rest(n)

\* cachePut: the least recently used go until the rest fits.
Put(k) ==
  LET keys  == Append(cache, k)
      Rest(n) == cacheBytes + Size[k] - Bytes(ToSet(SubSeq(keys, 1, n)))
  IN IF k \in Cached
     THEN UNCHANGED <<cache, cacheBytes>>
     ELSE \E n \in 0..Len(keys) :
            /\ n = Len(keys) \/ Rest(n) <= MaxCacheBytes
            /\ \A i \in 0..(n - 1) : Rest(i) > MaxCacheBytes
            /\ cache' = SubSeq(keys, n + 1, Len(keys))
            /\ cacheBytes' = Rest(n)

-----------------------------------------------------------------------------
(* Readers.                                                                 *)

Reads(r) ==
  /\ reader[r].pc # "reading"
  /\ reads[r] < MaxReads[r]
  /\ reads' = [reads EXCEPT ![r] = @ + 1]

\* The signal has aborted before the read.
Refuse(r) ==
  /\ Reads(r)
  /\ r \in CanAbort
  /\ reader' = [reader EXCEPT ![r] = Over("aborted")]
  /\ signal' = [signal EXCEPT ![r] = TRUE]
  /\ UNCHANGED <<storeVars, inflight, fetch>>

\* The bytes are cached: the read is over before anyone else runs.
Hit(r) ==
  /\ Reads(r)
  /\ Key[r] \in Cached
  /\ Refresh(Key[r])
  /\ reader' = [reader EXCEPT ![r] = Over("served")]
  /\ signal' = [signal EXCEPT ![r] = FALSE]
  /\ UNCHANGED <<cacheBytes, stats, passed, inflight, fetch>>

Await(r, e) ==
  /\ reader' = [reader EXCEPT ![r] = [pc |-> "reading", at |-> e]]
  /\ signal' = [signal EXCEPT ![r] = FALSE]

\* Variant: a reader that joins is not counted.
JoinUncounted(r) ==
  /\ Reads(r)
  /\ Key[r] \notin Cached
  /\ inflight[Key[r]] # NoFetch
  /\ Await(r, inflight[Key[r]])
  /\ UNCHANGED <<storeVars, inflight, fetch>>

\* dedup: a fetch of the key is in flight and the reader shares it.
Join(r) ==
  /\ Reads(r)
  /\ Key[r] \notin Cached
  /\ inflight[Key[r]] # NoFetch
  /\ fetch' = [fetch EXCEPT ![inflight[Key[r]]].refs = @ + 1]
  /\ Await(r, inflight[Key[r]])
  /\ UNCHANGED <<storeVars, inflight>>

\* dedup: the reader opens a fetch.  It runs to its first await: a request, a
\* pull for a location, or its end if no location is usable and none will come.
Open(r) ==
  /\ Reads(r)
  /\ Key[r] \notin Cached
  /\ inflight[Key[r]] = NoFetch
  /\ \E e \in Fetches : \E pc \in {"requested", "locating", "finally"} :
       /\ Free(e)
       /\ fetch' = [fetch EXCEPT ![e] = Opened(Key[r], pc)]
       /\ inflight' = [inflight EXCEPT ![Key[r]] = e]
       /\ Await(r, e)
  /\ UNCHANGED storeVars

\* The fetch leaves the map, if it is still the one in it.
Abandon(e) ==
  inflight' = [inflight EXCEPT ![fetch[e].key] = IF @ = e THEN NoFetch ELSE @]

\* onAbort: the last reader to abort takes the fetch with it.  The read itself
\* goes on until the promise settles.
Abort(r) ==
  LET e == reader[r].at
  IN /\ reader[r].pc = "reading"
     /\ r \in CanAbort
     /\ ~signal[r]
     /\ signal' = [signal EXCEPT ![r] = TRUE]
     /\ IF fetch[e].refs = 1
        THEN /\ fetch' = [fetch EXCEPT ![e].refs = 0, ![e].aborted = TRUE]
             /\ Abandon(e)
        ELSE /\ fetch' = [fetch EXCEPT ![e].refs = @ - 1]
             /\ UNCHANGED inflight
     /\ UNCHANGED <<storeVars, reader, reads>>

\* The promise has settled and r runs on: throwIfAborted keeps an aborted
\* read from being served.
Resume(r) ==
  LET e == reader[r].at
  IN /\ reader[r].pc = "reading"
     /\ fetch[e].pc = "settled"
     /\ reader' = [reader EXCEPT ![r] =
                     Over(IF fetch[e].outcome = "served" /\ signal[r]
                          THEN "aborted" ELSE fetch[e].outcome)]
     /\ UNCHANGED <<storeVars, inflight, fetch, signal, reads>>

-----------------------------------------------------------------------------
(* Fetches.                                                                 *)

readerVars == <<reader, signal, reads>>

Settled(e, outcome) ==
  [fetch[e] EXCEPT !.pc = "finally", !.failures = 0, !.seen = 0, !.outcome = outcome]

AttemptEnds(e) ==
  \/ fetch' = [fetch EXCEPT ![e] = Settled(e, "failed")]
  \/ fetch[e].aborted /\ fetch' = [fetch EXCEPT ![e] = Settled(e, "aborted")]
AttemptGoesOn(e, failures) ==
  /\ ~fetch[e].aborted
  /\ \E pc \in {"requested", "locating"} :
       fetch' = [fetch EXCEPT ![e] = [@ EXCEPT !.pc = pc, !.failures = failures, !.seen = 0]]

\* Variants: one location more than MaxFailures is tried; a failed attempt is
\* not counted.
AttemptFailsOneTooMany(e) ==
  \/ AttemptEnds(e)
  \/ fetch[e].failures + 1 <= MaxFailures /\ AttemptGoesOn(e, fetch[e].failures + 1)
AttemptFailsUncounted(e) ==
  \/ AttemptEnds(e)
  \/ fetch[e].failures + 1 < MaxFailures /\ AttemptGoesOn(e, fetch[e].failures)

\* An attempt has failed: an aborted fetch ends, another goes on to the next
\* location or to wait for one, below MaxFailures, or gives up.
AttemptFails(e) ==
  \/ AttemptEnds(e)
  \/ fetch[e].failures + 1 < MaxFailures /\ AttemptGoesOn(e, fetch[e].failures + 1)

\* judged: the failure is counted if bytes were wrong and the fetch is wanted.
Judged(e, wrong) ==
  stats' = [stats EXCEPT !.rejected = @ + IF wrong /\ ~fetch[e].aborted THEN 1 ELSE 0]

\* The pull of a location settles: there is one to ask, or none is left.  A
\* pull that settled before an abort goes on to a request all the same.
Locate(e) ==
  /\ fetch[e].pc = "locating"
  /\ \/ fetch' = [fetch EXCEPT ![e] = [@ EXCEPT !.pc = "requested"]]
     \/ AttemptEnds(e)
  /\ UNCHANGED <<storeVars, inflight, readerVars>>

\* The request fails, by a body beyond its cap (wrong) or in transport.
RequestFails(e) ==
  /\ fetch[e].pc = "requested"
  /\ \E wrong \in BOOLEAN : Judged(e, wrong)
  /\ AttemptFails(e)
  /\ UNCHANGED <<cache, cacheBytes, passed, inflight, readerVars>>

\* The body is here: `stats.verified += await check(...)` reads the count now,
\* and adds to it when the check is done.
Receive(e) ==
  /\ fetch[e].pc = "requested"
  /\ fetch' = [fetch EXCEPT ![e] = [@ EXCEPT !.pc = "checking", !.seen = stats.verified]]
  /\ UNCHANGED <<storeVars, inflight, readerVars>>

\* The check passes, whether or not the fetch was aborted meanwhile.
CheckPasses(e) ==
  LET k == fetch[e].key
  IN /\ fetch[e].pc = "checking"
     /\ stats' = [stats EXCEPT !.verified = fetch[e].seen + Hashes[k]]
     /\ passed' = passed + Hashes[k]
     /\ Put(k)
     /\ fetch' = [fetch EXCEPT ![e] = Settled(e, "served")]
     /\ UNCHANGED <<inflight, readerVars>>

\* The check throws: wrong bytes, or a fault of its own.
CheckFails(e) ==
  /\ fetch[e].pc = "checking"
  /\ \E wrong \in BOOLEAN : Judged(e, wrong)
  /\ AttemptFails(e)
  /\ UNCHANGED <<cache, cacheBytes, passed, inflight, readerVars>>

\* Variant: whatever fetch the map has under the key goes.
CleanAny(e) ==
  /\ fetch[e].pc = "finally"
  /\ fetch' = [fetch EXCEPT ![e] = [@ EXCEPT !.pc = "settled"]]
  /\ inflight' = [inflight EXCEPT ![fetch[e].key] = NoFetch]
  /\ UNCHANGED <<storeVars, readerVars>>

\* The `finally` of the shared promise, which settles after it.
Clean(e) ==
  /\ fetch[e].pc = "finally"
  /\ fetch' = [fetch EXCEPT ![e] = [@ EXCEPT !.pc = "settled"]]
  /\ Abandon(e)
  /\ UNCHANGED <<storeVars, readerVars>>

-----------------------------------------------------------------------------

Start(r) == Refuse(r) \/ Hit(r) \/ Join(r) \/ Open(r)
Progress(e) ==
  Locate(e) \/ RequestFails(e) \/ Receive(e) \/ CheckPasses(e) \/ CheckFails(e) \/ Clean(e)

Next ==
  \/ \E r \in Readers : Start(r) \/ Abort(r) \/ Resume(r)
  \/ \E e \in Fetches : Progress(e)

Spec == Init /\ [][Next]_vars

\* Every request, pull and check comes to an end, and the event loop runs
\* every continuation.
Fairness ==
  /\ \A e \in Fetches : WF_vars(Progress(e))
  /\ \A r \in Readers : WF_vars(Resume(r))

FairSpec == Spec /\ Fairness

-----------------------------------------------------------------------------
(* Properties.                                                              *)

\* A store keeps its readers' contract: an abort ends nobody's read but its
\* own reader's (dedup, the comment on its shared-abort semantics).
Contract == INSTANCE ReadContract WITH
  status <- [r \in Readers |-> reader[r].pc],
  asked <- signal
KeepsContract == Contract!Spec

\* No fetch works for nobody and no two work for the same key: one that has
\* not ended and was not aborted is in the map, where the next reader finds
\* it, and counts exactly its readers that have not aborted, at least one.
Live(e) == fetch[e].pc \in Running \cup {"finally"} /\ ~fetch[e].aborted
FetchesAreShared ==
  \A e \in Fetches : Live(e) =>
    /\ inflight[fetch[e].key] = e
    /\ fetch[e].refs = Cardinality(Waiting(e))
    /\ Waiting(e) # {}

\* The cache counts the bytes it holds, once each, and they fit its budget.
CacheExact ==
  /\ IsInjective(cache)
  /\ cacheBytes = Bytes(Cached)
  /\ cacheBytes <= MaxCacheBytes

\* Every read ends, also one that shares a fetch others aborted.
ReadsEnd == \A r \in Readers : reader[r].pc = "reading" ~> reader[r].pc # "reading"

\* `stats` counts the hash checks passed (packages/core/README.md).
VerifiedCountsChecks == stats.verified = passed

=============================================================================
