----------------------------- MODULE Speculation -----------------------------
(***************************************************************************)
(* Reads of one ranged file that speculate (packages/core/src/             *)
(* ranged-reader.ts, the speculative half of ranged-store.ts, and the      *)
(* Tally of verdict.ts).  A cold read fetches its exact range unverified   *)
(* while it descends the proof tree, and adopts from that body the runs of *)
(* leaves whose digests match; what the body cannot give is fetched and    *)
(* verified as ever.  Reads of the same range at the same time share one   *)
(* body, and together give one verdict on it.                              *)
(*                                                                         *)
(* The body's fetch is `dedup`'s, whose entry and counts are here because  *)
(* the tally is tied to them; a verified run (fetchRun) is a read of the   *)
(* store and ends as ReadContract has it, and a lookup (leavesFor) is such *)
(* reads.  The file is its leaves, numbered in file order.                 *)
(***************************************************************************)
EXTENDS Integers, FiniteSets, FiniteSetsExt

CONSTANTS
  Reads,    \* the calls of read
  Ranges,   \* the byte ranges they read
  RangeOf,  \* RangeOf[r]: the range r reads
  Lookups,  \* Lookups[r]: whether r finds its leaves "warm", in cached nodes, or "cold"
  Leaves,   \* the file's leaves
  Covers,   \* Covers[g]: the leaves that overlap range g
  Whole,    \* Whole[g]: those that lie entirely in it
  Matching, \* the sets of leaves whose bytes a host's body may have right
  MaxCached,\* the leaves that fit maxCacheBytes
  Kept,     \* the sets of leaves that earlier reads may have left in the cache
  CanAbort, \* the reads that pass a signal
  Faults,   \* what may fail for every location: "lookup", "run"
  NoRead    \* no read

ASSUME SpeculationAssumption ==
  /\ IsFiniteSet(Reads)
  /\ NoRead \notin Reads
  /\ RangeOf \in [Reads -> Ranges]
  /\ Lookups \in [Reads -> SUBSET {"warm", "cold"}]
  /\ Leaves \subseteq Int /\ IsFiniteSet(Leaves)
  /\ Covers \in [Ranges -> SUBSET Leaves]
  /\ \A g \in Ranges : Whole[g] \subseteq Covers[g]
  /\ Matching \subseteq SUBSET Leaves /\ Matching # {}
  /\ MaxCached \in Nat
  /\ \A K \in Kept : K \subseteq Leaves /\ Cardinality(K) <= MaxCached
  /\ CanAbort \subseteq Reads
  /\ Faults \subseteq {"lookup", "run"}

VARIABLES
  cache,    \* cache[l]: the bytes the store's cache has for leaf l
  body,     \* body[e]: the speculative fetch that read e opened, and its Tally
  inflight, \* inflight[g]: the #inflight entry of range g, by the read that opened it
  read,     \* read[r]: r's locals
  signal    \* signal[r]: r's signal has aborted

vars == <<cache, body, inflight, read, signal>>

\* Bytes: none, those the leaf's digest is of, or others.
Bytes == {"none", "right", "wrong"}

\* Verdicts from the weakest to the strongest (RANK; a body that arrived has
\* not failed), and "none" before one is known.
Verdicts == {"unused", "verified", "rejected"}
Stronger(v, w) ==
  CASE "rejected" \in {v, w} -> "rejected" [] "verified" \in {v, w} -> "verified" [] OTHER -> "unused"

BodyState ==
  [pc: {"none", "fetching", "finally", "settled"}, refs: Nat, aborted: BOOLEAN,
   arrived: BOOLEAN, good: SUBSET Leaves,
   waiting: Nat, verdict: Verdicts, told: Verdicts \cup {"none"}]

\* What becomes of a leaf's run; "no": it is in no run, its bytes were cached.
RunOver == {"done", "failed"}
RunState == {"no", "waiting", "adopting", "fetching"} \cup RunOver

\* A read's handle on its speculation is the promise `speculative`: waiting,
\* resolved to a body ("got") or to null, or reported on.
ReadState ==
  [pc: {"idle", "descending", "requested", "reading", "served", "failed"},
   handle: {"none", "waiting", "got", "null", "reported"}, at: Reads \cup {NoRead},
   cancelled: BOOLEAN, outcome: Verdicts,
   run: [Leaves -> RunState], out: [Leaves -> Bytes]]

\* The types; neither a fetch nor its tally counts below none.
TypeOK ==
  /\ cache \in [Leaves -> Bytes]
  /\ body \in [Reads -> BodyState]
  /\ inflight \in [Ranges -> Reads \cup {NoRead}]
  /\ read \in [Reads -> ReadState]
  /\ signal \in [Reads -> BOOLEAN]

NoBody ==
  [pc |-> "none", refs |-> 0, aborted |-> FALSE, arrived |-> FALSE, good |-> {},
   waiting |-> 0, verdict |-> "unused", told |-> "none"]

Init ==
  /\ \E K \in Kept : cache = [l \in Leaves |-> IF l \in K THEN "right" ELSE "none"]
  /\ body = [e \in Reads |-> NoBody]
  /\ inflight = [g \in Ranges |-> NoRead]
  /\ read = [r \in Reads |->
               [pc |-> "idle", handle |-> "none", at |-> NoRead, cancelled |-> FALSE,
                outcome |-> "unused", run |-> [l \in Leaves |-> "no"],
                out |-> [l \in Leaves |-> "none"]]]
  /\ signal = [r \in Reads |-> FALSE]

-----------------------------------------------------------------------------
(* The cache.  All leaves count alike for its budget, and which of them is  *)
(* the least recently used is VerifiedStore's: any may be.                  *)

\* cachePut of the leaves in R: a leaf that is cached is not replaced, and
\* no more leaves go than the budget asks for.
Put(R, bytes) ==
  LET put   == [l \in Leaves |-> IF l \in R /\ cache[l] = "none" THEN bytes[l] ELSE cache[l]]
      leaves == {l \in Leaves : put[l] # "none"}
  IN \E kept \in SUBSET leaves :
       /\ Cardinality(kept) = Min({Cardinality(leaves), MaxCached})
       /\ cache' = [l \in Leaves |-> IF l \in kept THEN put[l] ELSE "none"]

\* A verified run is cached.
PutVerified(R) == Put(R, [l \in Leaves |-> "right"])

-----------------------------------------------------------------------------
(* A body and its Tally.                                                    *)

\* #flush: the verdict goes out when the body is bound and nobody is left to
\* report.
Flushed(b) ==
  IF b.arrived /\ b.waiting <= 0 /\ b.told = "none" THEN [b EXCEPT !.told = b.verdict] ELSE b

\* Variant: the verdict does not wait for the other readers.
ReportedAtOnce(b, verdict) ==
  Flushed([b EXCEPT !.waiting = 0, !.verdict = Stronger(@, verdict)])

\* A reader's report.
Reported(b, verdict) ==
  Flushed([b EXCEPT !.waiting = @ - 1, !.verdict = Stronger(@, verdict)])

\* AbortSignal.any of the caller's signal and the speculation's own.
Merged(r) == signal[r] \/ read[r].cancelled

\* dedup's onAbort, if it is r's first: the last reader to leave takes the
\* fetch with it.
Leave(r) ==
  LET e == read[r].at
  IN IF read[r].handle # "waiting" \/ Merged(r)
     THEN UNCHANGED <<body, inflight>>
     ELSE IF body[e].refs = 1
     THEN /\ body' = [body EXCEPT ![e].refs = 0, ![e].aborted = TRUE]
          /\ inflight' = [inflight EXCEPT ![RangeOf[e]] = IF @ = e THEN NoRead ELSE @]
     ELSE /\ body' = [body EXCEPT ![e].refs = @ - 1]
          /\ UNCHANGED inflight

\* The speculative fetch is served; which of its slices match their digests
\* is up to the host.  It may be served although it was aborted meanwhile.
BodyArrives(e) ==
  /\ body[e].pc = "fetching"
  /\ \E good \in Matching :
       body' = [body EXCEPT ![e] =
                  Flushed([@ EXCEPT !.pc = "finally", !.arrived = TRUE,
                                     !.good = good \cap Whole[RangeOf[e]]])]
  /\ UNCHANGED <<cache, inflight, read, signal>>

\* No held location serves it, or it is aborted.
BodyFails(e) ==
  /\ body[e].pc = "fetching"
  /\ body' = [body EXCEPT ![e].pc = "finally"]
  /\ UNCHANGED <<cache, inflight, read, signal>>

\* The `finally` of the shared promise, which settles after it.
Clean(e) ==
  /\ body[e].pc = "finally"
  /\ body' = [body EXCEPT ![e].pc = "settled"]
  /\ inflight' = [inflight EXCEPT ![RangeOf[e]] = IF @ = e THEN NoRead ELSE @]
  /\ UNCHANGED <<cache, read, signal>>

BodyStep(e) == BodyArrives(e) \/ BodyFails(e) \/ Clean(e)

-----------------------------------------------------------------------------
(* A read: the lookup, and the leaves it finds.                             *)

\* The runs of a set of leaves: its maximal sequences of adjacent leaves.
Runs(S) ==
  {R \in SUBSET S : R # {} /\ R = Min(R)..Max(R) /\ Min(R) - 1 \notin S /\ Max(R) + 1 \notin S}

Missing(r) == {l \in Covers[RangeOf[r]] : cache[l] = "none"}

\* A run is adoptable if it lies entirely inside the speculative body.
Adoptable(r, R) == read[r].handle # "none" /\ R \subseteq Whole[RangeOf[r]]

\* Variant: the speculation is left to itself.
NeverCancel(r) == UNCHANGED <<body, inflight>>

\* Speculation.cancel.
Cancel(r) == Leave(r)

\* fetchRun refuses an aborted read.
Fetching(r) == IF signal[r] THEN "failed" ELSE "fetching"

\* The leaves are known: the cached ones are copied, the others grouped into
\* runs, and each run begins; a speculation no run can adopt is cancelled.
Located(r) ==
  LET adopting == {R \in Runs(Missing(r)) : Adoptable(r, R)}
      unwanted == read[r].handle # "none" /\ adopting = {}
  IN /\ read' = [read EXCEPT
          ![r].pc = "reading",
          ![r].cancelled = @ \/ unwanted,
          ![r].out = [l \in Leaves |-> IF l \in Covers[RangeOf[r]] THEN cache[l] ELSE "none"],
          ![r].run = [l \in Leaves |->
                        IF l \notin Missing(r) THEN "no"
                        ELSE IF l \in UNION adopting THEN "waiting" ELSE Fetching(r)]]
     /\ IF unwanted THEN Cancel(r) ELSE UNCHANGED <<body, inflight>>
     /\ UNCHANGED <<cache, signal>>

\* The nodes of the lookup are cached: nothing is awaited before the runs.
StartWarm(r) == read[r].pc = "idle" /\ "warm" \in Lookups[r] /\ Located(r)

\* They are not: the descent begins.
StartCold(r) ==
  /\ read[r].pc = "idle"
  /\ "cold" \in Lookups[r]
  /\ read' = [read EXCEPT ![r].pc = "descending"]
  /\ UNCHANGED <<cache, body, inflight, signal>>

\* Variants: a reader joins the tally only when it has the body; one that
\* joins a fetch in flight is not counted.
JoinedLate(b) == [b EXCEPT !.refs = @ + 1]
JoinedUncounted(b) == [b EXCEPT !.refs = 1, !.waiting = @ + 1]

\* fetchRangeUnverified: a reader more for the fetch and for its tally.
Joined(b) == [b EXCEPT !.refs = @ + 1, !.waiting = @ + 1]

\* onShardsRequested: the last proof request is out, and the read speculates,
\* opening a fetch of its range or joining the one in flight.
Speculate(r) ==
  LET g == RangeOf[r]
      e == IF inflight[g] = NoRead THEN r ELSE inflight[g]
  IN /\ read[r].pc = "descending"
     /\ IF signal[r]
        THEN /\ read' = [read EXCEPT ![r].pc = "requested", ![r].handle = "null"]
             /\ UNCHANGED <<body, inflight>>
        ELSE /\ read' = [read EXCEPT ![r].pc = "requested", ![r].handle = "waiting", ![r].at = e]
             /\ body' = [body EXCEPT ![e] = Joined(IF e = r THEN [@ EXCEPT !.pc = "fetching"] ELSE @)]
             /\ inflight' = [inflight EXCEPT ![g] = e]
     /\ UNCHANGED <<cache, signal>>

\* The shards are here.
LookupEnds(r) == read[r].pc = "requested" /\ Located(r)

\* The lookup throws, aborted or not: the speculation is cancelled.
LookupFails(r) ==
  /\ read[r].pc \in {"descending", "requested"}
  /\ signal[r] \/ "lookup" \in Faults
  /\ read' = [read EXCEPT ![r].pc = "failed", ![r].cancelled = read[r].handle # "none"]
  /\ Cancel(r)
  /\ UNCHANGED <<cache, signal>>

-----------------------------------------------------------------------------
(* A read's handle on its speculation.                                      *)

\* The shared promise settles: the body, or null if the fetch failed or this
\* read has aborted or cancelled it, which it reports at once.
TakeBody(r) ==
  LET e == read[r].at
      got == body[e].arrived /\ ~Merged(r)
  IN /\ read[r].handle = "waiting"
     /\ body[e].pc = "settled"
     /\ read' = [read EXCEPT ![r].handle = IF got THEN "got" ELSE "null"]
     /\ body' = [body EXCEPT ![e] = IF got THEN @ ELSE Reported(@, "unused")]
     /\ UNCHANGED <<cache, inflight, signal>>

\* Variant: a read that failed reports nothing.
ReportIfServed(r) ==
  /\ read[r].handle = "got"
  /\ read[r].pc = "served"
  /\ read' = [read EXCEPT ![r].handle = "reported"]
  /\ body' = [body EXCEPT ![read[r].at] = Reported(@, read[r].outcome)]
  /\ UNCHANGED <<cache, inflight, signal>>

\* report: once every run of the read has settled.
Report(r) ==
  /\ read[r].handle = "got"
  /\ read[r].pc \in {"reading", "served", "failed"}
  /\ \A l \in Leaves : read[r].run[l] \in RunOver \cup {"no"}
  /\ read' = [read EXCEPT ![r].handle = "reported"]
  /\ body' = [body EXCEPT ![read[r].at] = Reported(@, read[r].outcome)]
  /\ UNCHANGED <<cache, inflight, signal>>

-----------------------------------------------------------------------------
(* A read's runs.  All the leaves of a run are in the same state.           *)

RunsOf(r) == Runs({l \in Leaves : read[r].run[l] # "no"})
In(r, R, state) == \A l \in R : read[r].run[l] = state
To(run, R, state) == [l \in Leaves |-> IF l \in R THEN state ELSE run[l]]
Copy(out, R, bytes) == [l \in Leaves |-> IF l \in R THEN bytes[l] ELSE out[l]]

\* The run goes on with the body, or without if there is none.
RunResumes(r, R) ==
  /\ In(r, R, "waiting")
  /\ read[r].handle \in {"got", "null"}
  /\ read' = [read EXCEPT ![r].run =
                To(@, R, IF read[r].handle = "got" /\ ~signal[r] THEN "adopting" ELSE Fetching(r))]
  /\ UNCHANGED <<cache, body, inflight, signal>>

\* The bytes the body has for each leaf.
Slices(r) == [l \in Leaves |-> IF l \in body[read[r].at].good THEN "right" ELSE "wrong"]

\* Variant: the slices are adopted unverified.
AdoptUnverified(r, R) ==
  /\ In(r, R, "adopting")
  /\ Put(R, Slices(r))
  /\ read' = [read EXCEPT ![r].run = To(@, R, "done"),
                          ![r].out = Copy(@, R, Slices(r)),
                          ![r].outcome = IF @ = "unused" THEN "verified" ELSE @]
  /\ UNCHANGED <<body, inflight, signal>>

\* adoptSlices: every slice matches its digest, and all are cached.
Adopt(r, R) ==
  /\ In(r, R, "adopting")
  /\ R \subseteq body[read[r].at].good
  /\ Put(R, Slices(r))
  /\ read' = [read EXCEPT ![r].run = To(@, R, "done"),
                          ![r].out = Copy(@, R, Slices(r)),
                          ![r].outcome = IF @ = "unused" THEN "verified" ELSE @]
  /\ UNCHANGED <<body, inflight, signal>>

\* Variant: a mismatch fails the run.
RejectFails(r, R) ==
  /\ In(r, R, "adopting")
  /\ ~(R \subseteq body[read[r].at].good)
  /\ read' = [read EXCEPT ![r].run = To(@, R, "failed"), ![r].outcome = "rejected"]
  /\ UNCHANGED <<cache, body, inflight, signal>>

\* adoptSlices: a slice does not match, and the run is fetched verified.
Reject(r, R) ==
  /\ In(r, R, "adopting")
  /\ ~(R \subseteq body[read[r].at].good)
  /\ read' = [read EXCEPT ![r].run = To(@, R, Fetching(r)), ![r].outcome = "rejected"]
  /\ UNCHANGED <<cache, body, inflight, signal>>

\* fetchRun is served, and cached though r may have aborted.
RunServed(r, R) ==
  /\ In(r, R, "fetching")
  /\ PutVerified(R)
  /\ read' = [read EXCEPT
       ![r].run = To(@, R, IF signal[r] THEN "failed" ELSE "done"),
       ![r].out = IF signal[r] THEN @ ELSE Copy(@, R, [l \in Leaves |-> "right"])]
  /\ UNCHANGED <<body, inflight, signal>>

\* fetchRun fails at every location, or r has aborted it.
RunFails(r, R) ==
  /\ In(r, R, "fetching")
  /\ signal[r] \/ "run" \in Faults
  /\ read' = [read EXCEPT ![r].run = To(@, R, "failed")]
  /\ UNCHANGED <<cache, body, inflight, signal>>

RunStep(r, R) ==
  RunResumes(r, R) \/ Adopt(r, R) \/ Reject(r, R) \/ RunServed(r, R) \/ RunFails(r, R)

\* Promise.all: the read fails with its first run that fails, while the others
\* go on, and is served when all are done.
End(r) ==
  /\ read[r].pc = "reading"
  /\ \/ /\ \E l \in Leaves : read[r].run[l] = "failed"
        /\ read' = [read EXCEPT ![r].pc = "failed"]
     \/ /\ \A l \in Leaves : read[r].run[l] \in {"done", "no"}
        /\ read' = [read EXCEPT ![r].pc = "served"]
  /\ UNCHANGED <<cache, body, inflight, signal>>

\* The caller's signal aborts, while the read or anything of it goes on.
Abort(r) ==
  /\ r \in CanAbort
  /\ ~signal[r]
  /\ \/ read[r].pc \in {"descending", "requested", "reading"}
     \/ \E l \in Leaves : read[r].run[l] \notin RunOver \cup {"no"}
  /\ signal' = [signal EXCEPT ![r] = TRUE]
  /\ Leave(r)
  /\ UNCHANGED <<cache, read>>

-----------------------------------------------------------------------------

ReadStep(r) ==
  \/ Speculate(r) \/ LookupEnds(r) \/ LookupFails(r)
  \/ TakeBody(r) \/ Report(r) \/ End(r)
  \/ \E R \in RunsOf(r) : RunStep(r, R)

Next ==
  \/ \E r \in Reads : StartWarm(r) \/ StartCold(r) \/ Abort(r)
  \/ \E r \in Reads : ReadStep(r)
  \/ \E e \in Reads : BodyStep(e)

Spec == Init /\ [][Next]_vars

\* Every fetch and every lookup ends, and the event loop runs every
\* continuation: a read has finitely many steps, so no step is put off for ever.
Fairness == \A r \in Reads : WF_vars(ReadStep(r)) /\ WF_vars(BodyStep(r))

FairSpec == Spec /\ Fairness

-----------------------------------------------------------------------------
(* Properties.                                                              *)

\* A read that is served has the right bytes of every leaf it covers, from
\* whichever of the cache, the body and a verified run, and nothing wrong is
\* cached, however wrong the body (SPEC 2.3; adoptSlices).
Verified ==
  /\ \A l \in Leaves : cache[l] # "wrong"
  /\ \A r \in Reads : read[r].pc = "served" =>
       \A l \in Covers[RangeOf[r]] : read[r].out[l] = "right"

\* A shared body's verdict goes out only after every reader of it is through,
\* also those that joined late or left early, and it is the strongest any
\* of them came to (verdict.ts, the comment on Tally).
Readers(e) == {r \in Reads : read[r].at = e}
OneVerdict ==
  \A e \in Reads : body[e].told # "none" =>
    /\ \A r \in Readers(e) : read[r].handle \in {"null", "reported"}
    /\ \A r \in Readers(e) : Stronger(read[r].outcome, body[e].told) = body[e].told
    /\ body[e].told # "unused" => \E r \in Readers(e) : read[r].outcome = body[e].told

\* No body is fetched for nobody: while it is under way and was not aborted, it
\* is in the map, counts the readers that have not left, and one of them still
\* looks its leaves up or has a run that could adopt it.
Wants(r) ==
  /\ read[r].handle = "waiting" /\ ~Merged(r)
  /\ read[r].pc = "requested" \/ \E l \in Leaves : read[r].run[l] = "waiting"
NoIdleBody ==
  \A e \in Reads : body[e].pc = "fetching" /\ ~body[e].aborted =>
    /\ inflight[RangeOf[e]] = e
    /\ body[e].refs = Cardinality({r \in Readers(e) : Wants(r)})
    /\ body[e].refs > 0

\* A body that arrived gets its verdict, whatever its readers do.
EveryBodyIsJudged == \A e \in Reads : body[e].arrived ~> body[e].told # "none"

\* A read that is not aborted is served if its leaves can be looked up and
\* fetched, whatever becomes of its speculation and of those who share it:
\* holds where nothing is in Faults ("integrity never depends on the
\* speculation", ranged-reader.ts).
SpeculationIsHarmless ==
  \A r \in Reads : read[r].pc = "descending" ~> read[r].pc = "served" \/ signal[r]

\* SPEC 2.3: "a mismatch discards the whole speculative response": a read
\* that has adopted some of a body finds no mismatch in the rest.
WholeBodyOrNothing ==
  [][\A r \in Reads : read[r].outcome = "verified" => read'[r].outcome # "rejected"]_vars

=============================================================================
