-------------------------- MODULE SpeculationProofs --------------------------
(***************************************************************************)
(* Proofs about Speculation, for every file, set of reads and ranges,      *)
(* whatever bodies the hosts send.                                         *)
(*                                                                         *)
(* Verified says of a read that is served that its bytes are right.  The   *)
(* invariant that is kept step by step says so of each leaf of a read that *)
(* has not failed, from the moment the leaf was cached or its run is done  *)
(* (LeafInv); a read is served when that is all of them (ServedInv).       *)
(*                                                                         *)
(* What the code counts is in TallyInv, proved after it: a fetch counts    *)
(* its readers that have not left (Live) while it can be joined, its Tally *)
(* those that have not reported (Unjudged), and a verdict goes out when    *)
(* the latter are none, which is after the last reader could join.         *)
(***************************************************************************)
EXTENDS Speculation, FiniteSetTheorems, TLAPS

DataOK ==
  /\ cache \in [Leaves -> Bytes]
  /\ read \in [Reads -> ReadState]

CacheInv == \A l \in Leaves : cache[l] # "wrong"

LeafInv ==
  \A r \in Reads : read[r].pc \in {"reading", "served"} =>
    \A l \in Covers[RangeOf[r]] : read[r].run[l] \in {"no", "done"} => read[r].out[l] = "right"

ServedInv ==
  \A r \in Reads : read[r].pc = "served" => \A l \in Leaves : read[r].run[l] \in {"no", "done"}

\* What Speculate finds in the map.
InflightOK == inflight \in [Ranges -> Reads \cup {NoRead}]

IInv == DataOK /\ CacheInv /\ LeafInv /\ ServedInv

\* The leaves a read covers are leaves.
LEMMA CoversType ==
  ASSUME NEW r \in Reads
  PROVE  Covers[RangeOf[r]] \subseteq Leaves
BY SpeculationAssumption

\* Right bytes put into a cache without wrong ones leave none in it.
LEMMA PutInv ==
  ASSUME NEW R, NEW bytes, \A l \in R \cap Leaves : bytes[l] = "right",
         cache \in [Leaves -> Bytes], CacheInv, Put(R, bytes)
  PROVE  cache' \in [Leaves -> Bytes] /\ CacheInv'
<1> DEFINE put == [l \in Leaves |-> IF l \in R /\ cache[l] = "none" THEN bytes[l] ELSE cache[l]]
<1>1. \A l \in Leaves : put[l] \in Bytes /\ put[l] # "wrong"
  BY DEF CacheInv, Bytes
<1>2. PICK kept : cache' = [l \in Leaves |-> IF l \in kept THEN put[l] ELSE "none"]
  BY DEF Put
<1>3. cache' \in [Leaves -> Bytes]
  BY <1>1, <1>2 DEF Bytes
<1>4. ASSUME NEW l \in Leaves PROVE cache'[l] # "wrong"
  BY <1>1, <1>2
<1>. QED
  BY <1>3, <1>4 DEF CacheInv

\* What a step that leaves no wrong bytes in the cache must show of the one
\* read it changes.
ReadInv(d, r) ==
  /\ d.pc \in {"reading", "served"} =>
       \A l \in Covers[RangeOf[r]] : d.run[l] \in {"no", "done"} => d.out[l] = "right"
  /\ d.pc = "served" => \A l \in Leaves : d.run[l] \in {"no", "done"}

LEMMA OneRead ==
  ASSUME IInv, NEW r \in Reads, NEW new \in ReadState, ReadInv(new, r),
         read' = [read EXCEPT ![r] = new],
         cache' \in [Leaves -> Bytes], CacheInv'
  PROVE  IInv'
<1>1. read' \in [Reads -> ReadState]
  BY DEF IInv, DataOK
<1>2. \A q \in Reads : read'[q] = IF q = r THEN new ELSE read[q]
  BY DEF IInv, DataOK
<1>3. LeafInv' /\ ServedInv'
  BY <1>2 DEF IInv, LeafInv, ServedInv, ReadInv
<1>. QED
  BY <1>1, <1>3 DEF IInv, DataOK

\* A step that changes neither reads nor the cache.
LEMMA Unchanged == IInv /\ UNCHANGED <<cache, read>> => IInv'
BY DEF IInv, DataOK, CacheInv, LeafInv, ServedInv

\* A step of a run that is under way: the run goes to a state, its leaves
\* get right bytes if that is "done", and the rest of the read is as it was.
RunMoves(r, R, to, outcome, out) ==
  /\ \A l \in R : read[r].run[l] \in {"waiting", "adopting", "fetching"}
  /\ to \in RunState \ {"no"}
  /\ outcome \in Verdicts
  /\ out \in [Leaves -> Bytes]
  /\ \A l \in Leaves : l \notin R => out[l] = read[r].out[l]
  /\ to = "done" => \A l \in R : out[l] = "right"
  /\ read' = [read EXCEPT ![r].run = To(read[r].run, R, to), ![r].out = out,
                          ![r].outcome = outcome]
  /\ cache' \in [Leaves -> Bytes] /\ CacheInv'

LEMMA RunInv ==
  ASSUME IInv, NEW r \in Reads, NEW R \in RunsOf(r), NEW to, NEW outcome, NEW out,
         RunMoves(r, R, to, outcome, out)
  PROVE  IInv'
<1>. USE DEF RunMoves
<1> DEFINE new == [read[r] EXCEPT !.run = To(read[r].run, R, to), !.out = out,
                                  !.outcome = outcome]
<1>1. read[r] \in ReadState
  BY DEF IInv, DataOK
<1>2. new \in ReadState
  BY <1>1 DEF ReadState, To
<1>3. new.pc = read[r].pc /\ new.run = To(read[r].run, R, to) /\ new.out = out
  BY <1>1 DEF ReadState
<1>4. \A l \in Leaves : new.run[l] = IF l \in R THEN to ELSE read[r].run[l]
  BY <1>3 DEF To
<1>5. R # {} /\ R \subseteq Leaves /\ \A l \in R : read[r].run[l] \notin {"no", "done"}
  BY DEF RunsOf, Runs
<1>6. ASSUME new.pc \in {"reading", "served"}, NEW l \in Covers[RangeOf[r]],
             new.run[l] \in {"no", "done"}
      PROVE  new.out[l] = "right"
  BY <1>3, <1>4, <1>6, CoversType DEF IInv, LeafInv
<1>7. new.pc # "served"
  BY <1>3, <1>5 DEF IInv, ServedInv
<1>8. ReadInv(new, r)
  BY <1>6, <1>7 DEF ReadInv
<1>9. read' = [read EXCEPT ![r] = new]
  BY DEF IInv, DataOK
<1>. HIDE DEF new
<1>. QED
  BY <1>2, <1>8, <1>9, OneRead

\* A step of a read that leaves its runs and its bytes alone.
LEMMA ReadStays ==
  ASSUME IInv, NEW r \in Reads, NEW new \in ReadState,
         new.run = read[r].run, new.out = read[r].out,
         new.pc = read[r].pc \/ new.pc \in {"idle", "descending", "requested", "failed"},
         read' = [read EXCEPT ![r] = new], UNCHANGED cache
  PROVE  IInv'
<1>1. ReadInv(new, r)
  BY DEF ReadInv, IInv, LeafInv, ServedInv
<1>2. cache' \in [Leaves -> Bytes] /\ CacheInv'
  BY DEF IInv, DataOK, CacheInv
<1>. QED
  BY <1>1, <1>2, OneRead

LEMMA InitInv == Init => IInv
BY DEF Init, IInv, DataOK, CacheInv, LeafInv, ServedInv, ReadState, Bytes, RunState, Verdicts

-----------------------------------------------------------------------------
(* The steps.                                                               *)

\* Located copies the cached leaves and leaves the others to runs.
LEMMA LocatedInv ==
  ASSUME IInv, NEW r \in Reads, Located(r)
  PROVE  IInv'
<1> DEFINE run == [l \in Leaves |->
                     IF l \notin Missing(r) THEN "no"
                     ELSE IF l \in UNION {R \in Runs(Missing(r)) : Adoptable(r, R)} THEN "waiting"
                     ELSE Fetching(r)]
           out == [l \in Leaves |-> IF l \in Covers[RangeOf[r]] THEN cache[l] ELSE "none"]
           unwanted == /\ read[r].handle # "none"
                       /\ {R \in Runs(Missing(r)) : Adoptable(r, R)} = {}
           new == [read[r] EXCEPT !.pc = "reading", !.cancelled = @ \/ unwanted,
                                  !.out = out, !.run = run]
<1>1. read[r] \in ReadState
  BY DEF IInv, DataOK
<1>2. run \in [Leaves -> RunState] /\ out \in [Leaves -> Bytes]
  BY DEF RunState, RunOver, Fetching, Bytes, IInv, DataOK
<1>3. read' = [read EXCEPT ![r] = new] /\ UNCHANGED cache
  BY DEF Located, IInv, DataOK
<1> HIDE DEF unwanted
<1>4. unwanted \in BOOLEAN
  BY DEF unwanted
<1> HIDE DEF run, out
<1>5. new \in ReadState
  BY <1>1, <1>2, <1>4 DEF ReadState
<1>6. new.pc = "reading" /\ new.run = run /\ new.out = out
  BY <1>1 DEF ReadState
<1>7. ASSUME NEW l \in Covers[RangeOf[r]], run[l] \in {"no", "done"}
      PROVE  out[l] = "right"
  <2>1. l \in Leaves /\ l \notin Missing(r)
    BY <1>7, CoversType DEF run, Fetching
  <2>. QED
    BY <1>7, <2>1 DEF out, Missing, IInv, DataOK, CacheInv, Bytes
<1>8. ReadInv(new, r)
  BY <1>6, <1>7 DEF ReadInv
<1>9. cache' \in [Leaves -> Bytes] /\ CacheInv'
  BY <1>3 DEF IInv, DataOK, CacheInv
<1>. HIDE DEF new
<1>. QED
  BY <1>3, <1>5, <1>8, <1>9, OneRead

LEMMA StartColdInv ==
  ASSUME IInv, NEW r \in Reads, StartCold(r)
  PROVE  IInv'
<1> DEFINE new == [read[r] EXCEPT !.pc = "descending"]
<1>1. new \in ReadState /\ new.run = read[r].run /\ new.out = read[r].out /\ new.pc = "descending"
  BY DEF IInv, DataOK, ReadState
<1>2. read' = [read EXCEPT ![r] = new] /\ UNCHANGED cache
  BY DEF StartCold, IInv, DataOK
<1>. HIDE DEF new
<1>. QED
  BY <1>1, <1>2, ReadStays

LEMMA SpeculateInv ==
  ASSUME IInv, InflightOK, NEW r \in Reads, Speculate(r)
  PROVE  IInv'
<1>1. PICK handle \in {"null", "waiting"}, at \in Reads \cup {NoRead} :
        /\ read' = [read EXCEPT ![r] = [read[r] EXCEPT !.pc = "requested", !.handle = handle,
                                                       !.at = at]]
        /\ UNCHANGED cache
  <2>1. CASE signal[r]
    <3>1. read' = [read EXCEPT ![r] = [read[r] EXCEPT !.pc = "requested", !.handle = "null",
                                                      !.at = read[r].at]]
      BY <2>1 DEF Speculate, IInv, DataOK, ReadState
    <3>2. read[r].at \in Reads \cup {NoRead}
      BY DEF IInv, DataOK, ReadState
    <3>. QED
      BY <3>1, <3>2 DEF Speculate
  <2>2. CASE ~signal[r]
    <3> DEFINE e == IF inflight[RangeOf[r]] = NoRead THEN r ELSE inflight[RangeOf[r]]
    <3>1. e \in Reads \cup {NoRead}
      BY SpeculationAssumption DEF InflightOK
    <3>2. read' = [read EXCEPT ![r] = [read[r] EXCEPT !.pc = "requested", !.handle = "waiting",
                                                      !.at = e]]
      BY <2>2 DEF Speculate, IInv, DataOK, ReadState
    <3>. QED
      BY <3>1, <3>2 DEF Speculate
  <2>. QED
    BY <2>1, <2>2
<1> DEFINE new == [read[r] EXCEPT !.pc = "requested", !.handle = handle, !.at = at]
<1>2. new \in ReadState /\ new.run = read[r].run /\ new.out = read[r].out /\ new.pc = "requested"
  BY DEF IInv, DataOK, ReadState
<1>. QED
  BY <1>1, <1>2, ReadStays

LEMMA LookupFailsInv ==
  ASSUME IInv, NEW r \in Reads, LookupFails(r)
  PROVE  IInv'
<1> DEFINE new == [read[r] EXCEPT !.pc = "failed", !.cancelled = read[r].handle # "none"]
<1>1. new \in ReadState /\ new.run = read[r].run /\ new.out = read[r].out /\ new.pc = "failed"
  BY DEF IInv, DataOK, ReadState
<1>2. read' = [read EXCEPT ![r] = new] /\ UNCHANGED cache
  BY DEF LookupFails, IInv, DataOK
<1>. HIDE DEF new
<1>. QED
  BY <1>1, <1>2, ReadStays

LEMMA HandleInv ==
  ASSUME IInv, NEW r \in Reads, TakeBody(r) \/ Report(r)
  PROVE  IInv'
<1>1. PICK handle \in {"got", "null", "reported"} :
        read' = [read EXCEPT ![r] = [read[r] EXCEPT !.handle = handle]] /\ UNCHANGED cache
  BY DEF TakeBody, Report, IInv, DataOK
<1> DEFINE new == [read[r] EXCEPT !.handle = handle]
<1>2. new \in ReadState /\ new.run = read[r].run /\ new.out = read[r].out /\ new.pc = read[r].pc
  BY DEF IInv, DataOK, ReadState
<1>. QED
  BY <1>1, <1>2, ReadStays

\* The read ends with its runs: all of them done, if it is served.
LEMMA EndInv ==
  ASSUME IInv, NEW r \in Reads, End(r)
  PROVE  IInv'
<1>1. PICK pc \in {"served", "failed"} :
        /\ read' = [read EXCEPT ![r] = [read[r] EXCEPT !.pc = pc]]
        /\ UNCHANGED cache
        /\ pc = "served" => \A l \in Leaves : read[r].run[l] \in {"no", "done"}
  BY DEF End, IInv, DataOK
<1> DEFINE new == [read[r] EXCEPT !.pc = pc]
<1>2. new \in ReadState /\ new.run = read[r].run /\ new.out = read[r].out /\ new.pc = pc
  BY DEF IInv, DataOK, ReadState
<1>3. ReadInv(new, r)
  BY <1>1, <1>2 DEF ReadInv, End, IInv, LeafInv
<1>4. cache' \in [Leaves -> Bytes] /\ CacheInv'
  BY <1>1 DEF IInv, DataOK, CacheInv
<1>. HIDE DEF new
<1>. QED
  BY <1>1, <1>2, <1>3, <1>4, OneRead DEF new

-----------------------------------------------------------------------------
(* The steps of a run.                                                      *)

LEMMA RunResumesInv ==
  ASSUME IInv, NEW r \in Reads, NEW R \in RunsOf(r), RunResumes(r, R)
  PROVE  IInv'
<1>1. PICK to \in {"adopting", "fetching", "failed"} :
        read' = [read EXCEPT ![r].run = To(read[r].run, R, to)]
  BY DEF RunResumes, Fetching, IInv, DataOK
<1>2. read[r].out \in [Leaves -> Bytes] /\ read[r].outcome \in Verdicts
  BY DEF IInv, DataOK, ReadState
<1>3. read' = [read EXCEPT ![r].run = To(read[r].run, R, to), ![r].out = read[r].out,
                           ![r].outcome = read[r].outcome]
  BY <1>1 DEF IInv, DataOK, ReadState
<1>4. cache' \in [Leaves -> Bytes] /\ CacheInv'
  BY DEF RunResumes, IInv, DataOK, CacheInv
<1>5. RunMoves(r, R, to, read[r].outcome, read[r].out)
  BY <1>2, <1>3, <1>4 DEF RunMoves, RunResumes, In, RunState, RunOver
<1>. QED
  BY <1>5, RunInv

LEMMA AdoptInv ==
  ASSUME IInv, NEW r \in Reads, NEW R \in RunsOf(r), Adopt(r, R)
  PROVE  IInv'
<1> DEFINE out == Copy(read[r].out, R, Slices(r))
           outcome == IF read[r].outcome = "unused" THEN "verified" ELSE read[r].outcome
<1>1. R \subseteq Leaves
  BY DEF RunsOf, Runs
<1>2. read[r].out \in [Leaves -> Bytes] /\ read[r].outcome \in Verdicts
  BY DEF IInv, DataOK, ReadState
<1>3. \A l \in R : Slices(r)[l] = "right"
  BY <1>1 DEF Adopt, Slices
<1>4. cache' \in [Leaves -> Bytes] /\ CacheInv'
  BY <1>3, PutInv DEF Adopt, IInv, DataOK
<1>5. /\ out \in [Leaves -> Bytes]
      /\ \A l \in Leaves : l \notin R => out[l] = read[r].out[l]
      /\ \A l \in R : out[l] = "right"
  BY <1>1, <1>2, <1>3 DEF Copy, Slices, Bytes
<1>6. outcome \in Verdicts
  BY <1>2 DEF Verdicts
<1>7. read' = [read EXCEPT ![r].run = To(read[r].run, R, "done"), ![r].out = out,
                           ![r].outcome = outcome]
  BY DEF Adopt, IInv, DataOK, ReadState
<1>. HIDE DEF out, outcome
<1>8. RunMoves(r, R, "done", outcome, out)
  BY <1>4, <1>5, <1>6, <1>7 DEF RunMoves, Adopt, In, RunState, RunOver
<1>. QED
  BY <1>8, RunInv

LEMMA RejectInv ==
  ASSUME IInv, NEW r \in Reads, NEW R \in RunsOf(r), Reject(r, R)
  PROVE  IInv'
<1>1. Fetching(r) \in {"fetching", "failed"}
  BY DEF Fetching
<1>2. read[r].out \in [Leaves -> Bytes] /\ "rejected" \in Verdicts
  BY DEF IInv, DataOK, ReadState, Verdicts
<1>3. read' = [read EXCEPT ![r].run = To(read[r].run, R, Fetching(r)), ![r].out = read[r].out,
                           ![r].outcome = "rejected"]
  BY DEF Reject, IInv, DataOK, ReadState
<1>4. cache' \in [Leaves -> Bytes] /\ CacheInv'
  BY DEF Reject, IInv, DataOK, CacheInv
<1>5. RunMoves(r, R, Fetching(r), "rejected", read[r].out)
  BY <1>1, <1>2, <1>3, <1>4 DEF RunMoves, Reject, In, RunState, RunOver
<1>. QED
  BY <1>5, RunInv

LEMMA RunServedInv ==
  ASSUME IInv, NEW r \in Reads, NEW R \in RunsOf(r), RunServed(r, R)
  PROVE  IInv'
<1> DEFINE to == IF signal[r] THEN "failed" ELSE "done"
           out == IF signal[r] THEN read[r].out
                  ELSE Copy(read[r].out, R, [l \in Leaves |-> "right"])
<1>1. R \subseteq Leaves
  BY DEF RunsOf, Runs
<1>2. read[r].out \in [Leaves -> Bytes] /\ read[r].outcome \in Verdicts
  BY DEF IInv, DataOK, ReadState
<1>3. cache' \in [Leaves -> Bytes] /\ CacheInv'
  BY PutInv DEF RunServed, PutVerified, IInv, DataOK
<1>4. /\ out \in [Leaves -> Bytes]
      /\ \A l \in Leaves : l \notin R => out[l] = read[r].out[l]
      /\ to = "done" => \A l \in R : out[l] = "right"
  BY <1>1, <1>2 DEF Copy, Bytes
<1>5. to \in {"failed", "done"}
  OBVIOUS
<1>6. read' = [read EXCEPT ![r].run = To(read[r].run, R, to), ![r].out = out,
                           ![r].outcome = read[r].outcome]
  BY DEF RunServed, IInv, DataOK, ReadState
<1>. HIDE DEF out, to
<1>7. RunMoves(r, R, to, read[r].outcome, out)
  BY <1>2, <1>3, <1>4, <1>5, <1>6 DEF RunMoves, RunServed, In, RunState, RunOver
<1>. QED
  BY <1>7, RunInv

LEMMA RunFailsInv ==
  ASSUME IInv, NEW r \in Reads, NEW R \in RunsOf(r), RunFails(r, R)
  PROVE  IInv'
<1>1. read[r].out \in [Leaves -> Bytes] /\ read[r].outcome \in Verdicts
  BY DEF IInv, DataOK, ReadState
<1>2. read' = [read EXCEPT ![r].run = To(read[r].run, R, "failed"), ![r].out = read[r].out,
                           ![r].outcome = read[r].outcome]
  BY DEF RunFails, IInv, DataOK, ReadState
<1>3. cache' \in [Leaves -> Bytes] /\ CacheInv'
  BY DEF RunFails, IInv, DataOK, CacheInv
<1>4. RunMoves(r, R, "failed", read[r].outcome, read[r].out)
  BY <1>1, <1>2, <1>3 DEF RunMoves, RunFails, In, RunState, RunOver
<1>. QED
  BY <1>4, RunInv

-----------------------------------------------------------------------------

\* The map names reads, whatever leaves and joins it.
LEMMA InflightStep ==
  ASSUME InflightOK, [Next]_vars
  PROVE  InflightOK'
<1>1. ASSUME NEW r \in Reads, Leave(r) PROVE InflightOK'
  BY <1>1 DEF Leave, InflightOK
<1>2. ASSUME NEW r \in Reads, Located(r) PROVE InflightOK'
  BY <1>1, <1>2 DEF Located, Cancel, InflightOK
<1>3. ASSUME NEW r \in Reads, Speculate(r) PROVE InflightOK'
  BY <1>3, SpeculationAssumption DEF Speculate, InflightOK
<1>4. ASSUME NEW r \in Reads, ReadStep(r) PROVE InflightOK'
  <2>1. CASE LookupEnds(r)
    BY <2>1, <1>2 DEF LookupEnds
  <2>2. CASE LookupFails(r)
    BY <2>2, <1>1 DEF LookupFails, Cancel
  <2>3. CASE TakeBody(r) \/ Report(r) \/ End(r)
    BY <2>3 DEF TakeBody, Report, End, InflightOK
  <2>4. ASSUME NEW R \in RunsOf(r), RunStep(r, R) PROVE InflightOK'
    BY <2>4 DEF RunStep, RunResumes, Adopt, Reject, RunServed, RunFails, InflightOK
  <2>. QED
    BY <1>3, <1>4, <2>1, <2>2, <2>3, <2>4 DEF ReadStep
<1>5. ASSUME NEW e \in Reads, BodyStep(e) PROVE InflightOK'
  BY <1>5 DEF BodyStep, BodyArrives, BodyFails, Clean, InflightOK
<1>6. ASSUME NEW r \in Reads, StartWarm(r) \/ StartCold(r) \/ Abort(r) PROVE InflightOK'
  BY <1>1, <1>2, <1>6 DEF StartWarm, StartCold, Abort, InflightOK
<1>7. CASE UNCHANGED vars
  BY <1>7 DEF vars, InflightOK
<1>. QED
  BY <1>4, <1>5, <1>6, <1>7 DEF Next

\* Every step keeps the invariant.
LEMMA NextInv == IInv /\ InflightOK /\ [Next]_vars => IInv'
<1> SUFFICES ASSUME IInv, InflightOK, [Next]_vars PROVE IInv'
  OBVIOUS
<1>1. ASSUME NEW r \in Reads, StartWarm(r) \/ StartCold(r) \/ Abort(r) PROVE IInv'
  <2>1. CASE StartWarm(r)
    BY <2>1, LocatedInv DEF StartWarm
  <2>2. CASE StartCold(r)
    BY <2>2, StartColdInv
  <2>3. CASE Abort(r)
    BY <2>3, Unchanged DEF Abort
  <2>. QED
    BY <1>1, <2>1, <2>2, <2>3
<1>2. ASSUME NEW r \in Reads, ReadStep(r) PROVE IInv'
  <2>1. CASE LookupEnds(r)
    BY <2>1, LocatedInv DEF LookupEnds
  <2>2. ASSUME NEW R \in RunsOf(r), RunStep(r, R) PROVE IInv'
    BY <2>2, RunResumesInv, AdoptInv, RejectInv, RunServedInv, RunFailsInv DEF RunStep
  <2>. QED
    BY <1>2, <2>1, <2>2, SpeculateInv, LookupFailsInv, HandleInv, EndInv DEF ReadStep
<1>3. ASSUME NEW e \in Reads, BodyStep(e) PROVE IInv'
  BY <1>3, Unchanged DEF BodyStep, BodyArrives, BodyFails, Clean
<1>4. CASE UNCHANGED vars
  BY <1>4, Unchanged DEF vars
<1>. QED
  BY <1>1, <1>2, <1>3, <1>4 DEF Next

-----------------------------------------------------------------------------
(* The counts and the verdict.                                              *)

\* The readers a fetch counts, and those its tally counts.
Live(e) == {r \in Reads : read[r].at = e /\ read[r].handle = "waiting" /\ ~Merged(r)}
Unjudged(e) == {r \in Reads : read[r].at = e /\ read[r].handle \in {"waiting", "got"}}

\* A read on its own: only one that has the body adopts from it and comes to
\* an outcome; one that has reported is done with it; and one that waits for
\* a body it has not cancelled has a use for it.
ReadTally(d) ==
  /\ d.handle = "none" => d.at = NoRead
  /\ d.handle \in {"waiting", "got", "reported"} => d.at \in Reads
  /\ d.pc \in {"idle", "descending"} => d.handle = "none" /\ ~d.cancelled
  /\ d.handle = "reported" =>
       /\ d.pc \in {"reading", "served", "failed"}
       /\ \A l \in Leaves : d.run[l] \in RunOver \cup {"no"}
  /\ \A l \in Leaves : d.run[l] = "adopting" => d.handle = "got"
  /\ d.handle \notin {"got", "reported"} => d.outcome = "unused"
  /\ d.handle = "waiting" /\ ~d.cancelled =>
       d.pc = "requested" \/ \E l \in Leaves : d.run[l] = "waiting"

\* A read and the bodies: the one it opens is new until then, and the one it
\* reads was fetched.
LinkInv ==
  \A r \in Reads :
    /\ read[r].pc \in {"idle", "descending"} => body[r] = NoBody
    /\ read[r].at \in Reads => body[read[r].at].pc # "none"
    /\ read[r].handle \in {"got", "reported"} =>
         body[read[r].at].pc = "settled" /\ body[read[r].at].arrived

\* The counts.  refs is not counted down by a reader that has its answer, so
\* it may be too high once the promise has settled; then nobody can join.
CountInv ==
  \A e \in Reads :
    /\ body[e].pc = "none" => body[e] = NoBody
    /\ body[e].refs >= Cardinality(Live(e))
    /\ body[e].pc # "settled" => body[e].refs = Cardinality(Live(e))
    /\ body[e].waiting = Cardinality(Unjudged(e))
    /\ body[e].pc \in {"fetching", "finally"} => body[e].waiting > 0
    /\ body[e].pc = "fetching" /\ ~body[e].aborted => body[e].refs > 0

\* The map names fetches that may be joined, and every one that is under way.
MapInv ==
  /\ \A g \in Ranges : inflight[g] # NoRead =>
       /\ RangeOf[inflight[g]] = g
       /\ body[inflight[g]].pc \in {"fetching", "finally"}
       /\ ~body[inflight[g]].aborted
  /\ \A e \in Reads : body[e].pc = "fetching" /\ ~body[e].aborted => inflight[RangeOf[e]] = e

\* The verdict: the strongest of those reported, one of them unless it is the
\* weakest, and out only when all are.
VerdictInv ==
  \A e \in Reads :
    /\ body[e].told # "none" =>
         body[e].pc = "settled" /\ body[e].waiting = 0 /\ body[e].told = body[e].verdict
    /\ \A r \in Reads : read[r].at = e /\ read[r].handle = "reported" =>
         Stronger(read[r].outcome, body[e].verdict) = body[e].verdict
    /\ body[e].verdict # "unused" =>
         \E r \in Reads : /\ read[r].at = e /\ read[r].handle = "reported"
                          /\ read[r].outcome = body[e].verdict

ReadsTally == \A r \in Reads : ReadTally(read[r])

TallyInv == TypeOK /\ ReadsTally /\ LinkInv /\ CountInv /\ MapInv /\ VerdictInv

-----------------------------------------------------------------------------
(* Counting.                                                                *)

LEMMA LiveFinite ==
  ASSUME NEW e
  PROVE  /\ IsFiniteSet(Live(e)) /\ Cardinality(Live(e)) \in Nat
         /\ IsFiniteSet(Unjudged(e)) /\ Cardinality(Unjudged(e)) \in Nat
<1>1. Live(e) \in SUBSET Reads /\ Unjudged(e) \in SUBSET Reads
  BY DEF Live, Unjudged
<1>2. IsFiniteSet(Live(e)) /\ IsFiniteSet(Unjudged(e))
  BY <1>1, FS_Subset, SpeculationAssumption
<1>. QED
  BY <1>2, FS_CardinalityType

\* A finite set without one of its members.
LEMMA OneLess ==
  ASSUME NEW S, IsFiniteSet(S), NEW r \in S
  PROVE  /\ Cardinality(S) \in Nat /\ Cardinality(S) >= 1
         /\ Cardinality(S \ {r}) = Cardinality(S) - 1
<1>1. Cardinality(S) \in Nat /\ Cardinality(S \ {r}) = Cardinality(S) - 1
  BY FS_CardinalityType, FS_RemoveElement
<1>2. Cardinality(S \ {r}) \in Nat
  BY FS_RemoveElement, FS_CardinalityType
<1>. QED
  BY <1>1, <1>2

\* One body's types, and the verdicts.
LEMMA StrongerType ==
  ASSUME NEW v \in Verdicts, NEW w \in Verdicts
  PROVE  /\ Stronger(v, w) \in {v, w}
         /\ Stronger(v, "unused") = v
         /\ Stronger(w, Stronger(v, w)) = Stronger(v, w)
         /\ \A o \in Verdicts : Stronger(o, v) = v => Stronger(o, Stronger(v, w)) = Stronger(v, w)
BY DEF Verdicts, Stronger

LEMMA ReportedFields ==
  ASSUME NEW b \in BodyState, NEW v \in Verdicts, b.waiting >= 1
  PROVE  /\ Reported(b, v) \in BodyState
         /\ Reported(b, v).pc = b.pc /\ Reported(b, v).refs = b.refs
         /\ Reported(b, v).aborted = b.aborted /\ Reported(b, v).arrived = b.arrived
         /\ Reported(b, v).waiting = b.waiting - 1
         /\ Reported(b, v).verdict = Stronger(b.verdict, v)
         /\ Reported(b, v).told # b.told =>
              /\ b.arrived /\ b.told = "none" /\ Reported(b, v).waiting = 0
              /\ Reported(b, v).told = Reported(b, v).verdict
<1>. DEFINE c == [b EXCEPT !.waiting = @ - 1, !.verdict = Stronger(@, v)]
<1>1. Stronger(b.verdict, v) \in Verdicts /\ b.waiting \in Nat /\ b.waiting - 1 \in Nat
  BY StrongerType DEF BodyState
<1>2. /\ c \in BodyState
      /\ c.pc = b.pc /\ c.refs = b.refs /\ c.aborted = b.aborted /\ c.arrived = b.arrived
      /\ c.waiting = b.waiting - 1 /\ c.verdict = Stronger(b.verdict, v) /\ c.told = b.told
  BY <1>1 DEF BodyState
<1>3. Reported(b, v) = Flushed(c)
  BY DEF Reported
<1>. HIDE DEF c
<1>4. CASE c.arrived /\ c.waiting <= 0 /\ c.told = "none"
  <2>1. Flushed(c) = [c EXCEPT !.told = c.verdict]
    BY <1>4 DEF Flushed
  <2>2. /\ Flushed(c) \in BodyState
        /\ Flushed(c).pc = c.pc /\ Flushed(c).refs = c.refs /\ Flushed(c).aborted = c.aborted
        /\ Flushed(c).arrived = c.arrived /\ Flushed(c).waiting = c.waiting
        /\ Flushed(c).verdict = c.verdict /\ Flushed(c).told = c.verdict
    BY <1>2, <2>1 DEF BodyState
  <2>3. c.waiting = 0
    BY <1>1, <1>2, <1>4
  <2>. QED
    BY <1>2, <1>3, <1>4, <2>2, <2>3
<1>5. CASE ~(c.arrived /\ c.waiting <= 0 /\ c.told = "none")
  <2>1. Flushed(c) = c
    BY <1>5 DEF Flushed
  <2>. QED
    BY <1>2, <1>3, <2>1
<1>. QED
  BY <1>4, <1>5

LEMMA TallyInit == Init => TallyInv
<1>. SUFFICES ASSUME Init PROVE TallyInv
  OBVIOUS
<1>1. NoBody \in BodyState
  BY DEF NoBody, BodyState, Verdicts
<1>2. DataOK
  BY InitInv DEF IInv
<1>3. TypeOK
  BY <1>1, <1>2 DEF Init, TypeOK, DataOK
<1>4. \A r \in Reads : /\ read[r].pc = "idle" /\ read[r].handle = "none" /\ read[r].at = NoRead
                       /\ read[r].outcome = "unused" /\ ~read[r].cancelled /\ \A l \in Leaves : read[r].run[l] = "no"
                       /\ body[r] = NoBody
  BY DEF Init
<1>5. ReadsTally /\ LinkInv
  BY <1>4, SpeculationAssumption DEF ReadsTally, ReadTally, LinkInv
<1>6. \A e \in Reads : Live(e) = {} /\ Unjudged(e) = {}
  BY <1>4 DEF Live, Unjudged
<1>7. CountInv
  <2>1. Cardinality({}) = 0
    BY FS_EmptySet
  <2>2. \A e \in Reads : Cardinality(Live(e)) = 0 /\ Cardinality(Unjudged(e)) = 0
    BY <1>6, <2>1
  <2>. QED
    BY <1>4, <2>2 DEF CountInv, NoBody
<1>8. MapInv /\ VerdictInv
  BY <1>4 DEF MapInv, VerdictInv, NoBody, Init
<1>. QED
  BY <1>3, <1>5, <1>7, <1>8 DEF TallyInv

-----------------------------------------------------------------------------
(* A step of a read that leaves the bodies and its place among them alone.  *)

LEMMA ReadAlone ==
  ASSUME TallyInv, DataOK', NEW r \in Reads, NEW new,
         read' = [read EXCEPT ![r] = new], ReadTally(new),
         new.at = read[r].at, new.cancelled = read[r].cancelled,
         new.handle = read[r].handle \/ (read[r].handle = "none" /\ new.handle = "null"),
         new.outcome = read[r].outcome \/ read[r].handle = "got",
         new.pc \in {"idle", "descending"} => read[r].pc \in {"idle", "descending"},
         UNCHANGED <<body, inflight, signal>>
  PROVE  TallyInv'
<1>. USE DEF TallyInv
<1>1. \A q \in Reads : read'[q] = IF q = r THEN new ELSE read[q]
  BY DEF TypeOK
<1>2. TypeOK'
  BY DEF TypeOK, DataOK
<1>3. ReadsTally'
  BY <1>1 DEF ReadsTally
<1>4. LinkInv'
  BY <1>1 DEF LinkInv
<1>5. \A e \in Reads : Live(e)' = Live(e) /\ Unjudged(e)' = Unjudged(e)
  <2>1. \A q \in Reads : Merged(q)' <=> Merged(q)
    BY <1>1 DEF Merged
  <2>. QED
    BY <1>1, <2>1 DEF Live, Unjudged
<1>6. CountInv'
  BY <1>5 DEF CountInv
<1>7. MapInv'
  BY DEF MapInv
<1>8. VerdictInv'
  <2>1. \A q \in Reads : read[q].handle = "reported" \/ read'[q].handle = "reported" =>
          /\ read'[q].handle = read[q].handle /\ read'[q].at = read[q].at
          /\ read'[q].outcome = read[q].outcome
    BY <1>1
  <2>. QED
    BY <2>1 DEF VerdictInv
<1>. QED
  BY <1>2, <1>3, <1>4, <1>6, <1>7, <1>8

-----------------------------------------------------------------------------
(* A read that leaves its fetch (dedup's onAbort): it counts no longer, and *)
(* the last one takes the fetch with it.                                    *)

LEMMA LeaveInv ==
  ASSUME TallyInv, DataOK', signal' \in [Reads -> BOOLEAN], NEW r \in Reads, NEW new,
         Leave(r),
         read' = [read EXCEPT ![r] = new], ReadTally(new),
         new.at = read[r].at, new.handle = read[r].handle, new.outcome = read[r].outcome,
         new.pc \in {"idle", "descending"} => read[r].pc \in {"idle", "descending"},
         new.handle = "waiting" => signal'[r] \/ new.cancelled,
         \A q \in Reads : q # r => signal'[q] = signal[q]
  PROVE  TallyInv'
<1>. USE DEF TallyInv
<1>. PICK e : e = read[r].at
  OBVIOUS
<1>1. \A q \in Reads : read'[q] = IF q = r THEN new ELSE read[q]
  BY DEF TypeOK
<1>2. ReadsTally'
  BY <1>1 DEF ReadsTally
<1>3. \A f \in Reads : Live(f)' = Live(f) \ {r} /\ Unjudged(f)' = Unjudged(f)
  <2>1. \A q \in Reads : q # r => (Merged(q)' <=> Merged(q))
    BY <1>1 DEF Merged
  <2>2. new.handle = "waiting" => Merged(r)'
    BY <1>1 DEF Merged
  <2>. QED
    BY <1>1, <2>1, <2>2 DEF Live, Unjudged
<1>4. VerdictInv' /\ LinkInv' /\ CountInv' /\ MapInv' /\ TypeOK'
  <2>1. CASE r \notin Live(e)
    <3>1. UNCHANGED <<body, inflight>>
      BY <2>1 DEF Leave, Live
    <3>2. \A f \in Reads : Live(f)' = Live(f)
      BY <1>3, <2>1 DEF Live
    <3>3. TypeOK'
      BY <3>1 DEF TypeOK, DataOK
    <3>4. LinkInv'
      BY <1>1, <3>1 DEF LinkInv
    <3>5. CountInv'
      BY <1>3, <3>1, <3>2 DEF CountInv
    <3>6. MapInv' /\ VerdictInv'
      BY <1>1, <3>1 DEF MapInv, VerdictInv
    <3>. QED
      BY <3>3, <3>4, <3>5, <3>6
  <2>2. CASE r \in Live(e)
    <3>1. e \in Reads /\ read[r].handle = "waiting" /\ ~Merged(r)
      BY <2>2 DEF Live, ReadsTally, ReadTally
    <3>2. /\ Cardinality(Live(e)) \in Nat /\ Cardinality(Live(e)) >= 1
          /\ Cardinality(Live(e)') = Cardinality(Live(e)) - 1
      <4>1. IsFiniteSet(Live(e)) /\ r \in Live(e)
        BY <2>2, LiveFinite
      <4>2. Live(e)' = Live(e) \ {r}
        BY <1>3, <3>1
      <4>. QED
        BY <4>1, <4>2, OneLess
    <3>3. \A f \in Reads : f # e => Live(f)' = Live(f)
      BY <1>3 DEF Live
    <3>4. body[e] \in BodyState /\ body[e].refs >= 1 /\ body[e].pc # "none"
      BY <3>1, <3>2 DEF TypeOK, CountInv, LinkInv, BodyState
    <3>5. \E last \in BOOLEAN, nb \in BodyState :
            /\ body' = [body EXCEPT ![e] = nb]
            /\ nb.refs = body[e].refs - 1 /\ nb.aborted = (body[e].aborted \/ last)
            /\ nb.pc = body[e].pc /\ nb.arrived = body[e].arrived /\ nb.waiting = body[e].waiting
            /\ nb.verdict = body[e].verdict /\ nb.told = body[e].told
            /\ last \/ body[e].refs > 1
            /\ inflight' = IF last THEN [inflight EXCEPT ![RangeOf[e]] = IF @ = e THEN NoRead ELSE @]
                           ELSE inflight
      <4>1. CASE body[e].refs = 1
        <5>. DEFINE nb == [body[e] EXCEPT !.refs = 0, !.aborted = TRUE]
        <5>1. body' = [body EXCEPT ![e] = nb]
          BY <3>1, <4>1 DEF Leave, TypeOK
        <5>2. /\ nb \in BodyState /\ nb.refs = 0 /\ nb.aborted = TRUE
              /\ nb.pc = body[e].pc /\ nb.arrived = body[e].arrived /\ nb.waiting = body[e].waiting
              /\ nb.verdict = body[e].verdict /\ nb.told = body[e].told
          BY <3>4 DEF BodyState
        <5>3. inflight' = [inflight EXCEPT ![RangeOf[e]] = IF @ = e THEN NoRead ELSE @]
          BY <3>1, <4>1 DEF Leave
        <5>. HIDE DEF nb
        <5>4. nb.refs = body[e].refs - 1
          BY <4>1, <5>2
        <5>5. nb.aborted = (body[e].aborted \/ TRUE)
          BY <5>2, Zenon
        <5>. QED
          BY <5>1, <5>2, <5>3, <5>4, <5>5
      <4>2. CASE body[e].refs # 1
        <5>. DEFINE nb == [body[e] EXCEPT !.refs = @ - 1]
        <5>1. body' = [body EXCEPT ![e] = nb]
          BY <3>1, <4>2 DEF Leave, TypeOK
        <5>2. body[e].refs \in Nat /\ body[e].refs > 1
          BY <3>4, <4>2 DEF BodyState
        <5>3. /\ nb \in BodyState /\ nb.refs = body[e].refs - 1 /\ nb.aborted = body[e].aborted
              /\ nb.pc = body[e].pc /\ nb.arrived = body[e].arrived /\ nb.waiting = body[e].waiting
              /\ nb.verdict = body[e].verdict /\ nb.told = body[e].told
          BY <3>4, <5>2 DEF BodyState
        <5>4. inflight' = inflight
          BY <3>1, <4>2 DEF Leave
        <5>. HIDE DEF nb
        <5>5. nb.aborted = (body[e].aborted \/ FALSE)
          BY <3>4, <5>3 DEF BodyState
        <5>. QED
          BY <5>1, <5>2, <5>3, <5>4, <5>5
      <4>. QED
        BY <4>1, <4>2
    <3>6. PICK last \in BOOLEAN, nb \in BodyState :
            /\ body' = [body EXCEPT ![e] = nb]
            /\ nb.refs = body[e].refs - 1 /\ nb.aborted = (body[e].aborted \/ last)
            /\ nb.pc = body[e].pc /\ nb.arrived = body[e].arrived /\ nb.waiting = body[e].waiting
            /\ nb.verdict = body[e].verdict /\ nb.told = body[e].told
            /\ last \/ body[e].refs > 1
            /\ inflight' = IF last THEN [inflight EXCEPT ![RangeOf[e]] = IF @ = e THEN NoRead ELSE @]
                           ELSE inflight
      BY <3>5
    <3>7. \A f \in Reads : body'[f] = IF f = e THEN nb ELSE body[f]
      BY <3>6 DEF TypeOK
    <3>8. body' \in [Reads -> BodyState]
      BY <3>6 DEF TypeOK
    <3>9. inflight' \in [Ranges -> Reads \cup {NoRead}]
      BY <3>6 DEF TypeOK
    <3>10. TypeOK'
      BY <3>8, <3>9 DEF TypeOK, DataOK
    <3>11. LinkInv'
      <4>1. \A q \in Reads : read[q].pc \in {"idle", "descending"} => q # e
        BY <3>4 DEF LinkInv, NoBody
      <4>2. \A f \in Reads : body'[f].pc = body[f].pc /\ body'[f].arrived = body[f].arrived
        BY <3>6, <3>7
      <4>3. \A q \in Reads : /\ read'[q].at = read[q].at /\ read'[q].handle = read[q].handle
                             /\ read'[q].pc \in {"idle", "descending"} =>
                                  read[q].pc \in {"idle", "descending"}
        BY <1>1
      <4>4. \A q \in Reads : read[q].handle \in {"got", "reported"} => read[q].at \in Reads
        BY DEF ReadsTally, ReadTally
      <4>. QED
        BY <3>7, <4>1, <4>2, <4>3, <4>4 DEF LinkInv
    <3>12. CountInv'
      <4>1. ASSUME NEW f \in Reads, f # e
            PROVE  body'[f] = body[f] /\ Live(f)' = Live(f) /\ Unjudged(f)' = Unjudged(f)
        BY <1>3, <3>3, <3>7, <4>1
      <4>2. /\ body'[e] = nb /\ Unjudged(e)' = Unjudged(e)
            /\ body[e].refs \in Nat /\ nb.refs >= Cardinality(Live(e)')
            /\ nb.pc # "settled" => nb.refs = Cardinality(Live(e)')
            /\ nb.pc = "fetching" /\ ~nb.aborted => nb.refs > 0
        <5>1. body'[e] = nb /\ Unjudged(e)' = Unjudged(e)
          BY <1>3, <3>1, <3>7
        <5>2. body[e].refs \in Nat /\ nb.refs = body[e].refs - 1 /\ nb.pc = body[e].pc
          BY <3>4, <3>6 DEF BodyState
        <5>3. body[e].refs >= Cardinality(Live(e))
              /\ (body[e].pc # "settled" => body[e].refs = Cardinality(Live(e)))
          BY <3>1 DEF CountInv
        <5>4. nb.pc = "fetching" /\ ~nb.aborted => nb.refs > 0
          BY <3>6, <5>2
        <5>. QED
          BY <3>2, <5>1, <5>2, <5>3, <5>4
      <4>. QED
        BY <3>1, <3>4, <3>6, <4>1, <4>2 DEF CountInv
    <3>13. MapInv'
      <4>1. \A g \in Ranges : inflight'[g] # NoRead => inflight'[g] = inflight[g] /\ (last => inflight[g] # e)
        BY <3>6 DEF TypeOK, MapInv
      <4>2. \A f \in Reads : f # e /\ inflight[RangeOf[f]] = f => inflight'[RangeOf[f]] = f
        BY <3>6, SpeculationAssumption DEF TypeOK
      <4>3. ~last => inflight' = inflight
        BY <3>6
      <4>4. \A g \in Ranges : inflight[g] \in Reads \cup {NoRead}
        BY DEF TypeOK
      <4>5. \A g \in Ranges : inflight'[g] # NoRead =>
              /\ RangeOf[inflight'[g]] = g
              /\ body'[inflight'[g]].pc \in {"fetching", "finally"}
              /\ ~body'[inflight'[g]].aborted
        BY <3>6, <3>7, <4>1, <4>4 DEF MapInv
      <4>6. \A f \in Reads : body'[f].pc = "fetching" /\ ~body'[f].aborted => inflight'[RangeOf[f]] = f
        <5>. SUFFICES ASSUME NEW f \in Reads, body'[f].pc = "fetching", ~body'[f].aborted
                      PROVE  inflight'[RangeOf[f]] = f
          OBVIOUS
        <5>1. CASE f = e
          <6>1. nb.pc = "fetching" /\ ~nb.aborted
            BY <3>7, <5>1
          <6>2. body[e].pc = "fetching" /\ ~body[e].aborted /\ ~last
            BY <3>6, <6>1
          <6>. QED
            BY <3>1, <4>3, <5>1, <6>2 DEF MapInv
        <5>2. CASE f # e
          BY <3>7, <4>2, <5>2 DEF MapInv
        <5>. QED
          BY <5>1, <5>2
      <4>. QED
        BY <4>5, <4>6 DEF MapInv
    <3>14. VerdictInv'
      BY <1>1, <3>6, <3>7 DEF VerdictInv
    <3>. QED
      BY <3>10, <3>11, <3>12, <3>13, <3>14
  <2>. QED
    BY <2>1, <2>2
<1>. QED
  BY <1>2, <1>4

-----------------------------------------------------------------------------
(* The steps of a body.                                                     *)

\* A body moves on, to its `finally` or out of the map; no count changes.
LEMMA BodyMoves ==
  ASSUME TallyInv, DataOK', NEW e \in Reads, NEW nb \in BodyState,
         body' = [body EXCEPT ![e] = nb],
         nb.refs = body[e].refs, nb.aborted = body[e].aborted, nb.waiting = body[e].waiting,
         nb.verdict = body[e].verdict, nb.told = body[e].told,
         UNCHANGED <<read, signal>>,
         \/ body[e].pc = "fetching" /\ nb.pc = "finally" /\ UNCHANGED inflight
         \/ /\ body[e].pc = "finally" /\ nb.pc = "settled"
            /\ inflight' = [inflight EXCEPT ![RangeOf[e]] = IF @ = e THEN NoRead ELSE @]
  PROVE  TallyInv'
<1>. USE DEF TallyInv
<1>1. \A f \in Reads : body'[f] = IF f = e THEN nb ELSE body[f]
  BY DEF TypeOK
<1>2. inflight' \in [Ranges -> Reads \cup {NoRead}]
  BY DEF TypeOK
<1>3. TypeOK'
  BY <1>2 DEF TypeOK, DataOK
<1>4. ReadsTally'
  BY DEF ReadsTally
<1>5. LinkInv'
  <2>1. \A r \in Reads : read[r].handle \in {"got", "reported"} =>
          read[r].at \in Reads /\ read[r].at # e
    BY DEF LinkInv, ReadsTally, ReadTally
  <2>2. \A r \in Reads : read[r].pc \in {"idle", "descending"} => r # e
    BY DEF LinkInv, NoBody
  <2>. QED
    BY <1>1, <2>1, <2>2 DEF LinkInv
<1>6. \A f \in Reads : Live(f)' = Live(f) /\ Unjudged(f)' = Unjudged(f)
  BY DEF Live, Unjudged, Merged
<1>7. CountInv'
  <2>1. body[e].waiting > 0 /\ body[e].refs = Cardinality(Live(e))
    BY DEF CountInv
  <2>2. body[e].refs \in Nat
    BY DEF TypeOK, BodyState
  <2>3. nb.refs >= Cardinality(Live(e))
    BY <2>1, <2>2
  <2>. QED
    BY <1>1, <1>6, <2>1, <2>3 DEF CountInv
<1>8. MapInv'
  <2>1. CASE UNCHANGED inflight
    <3>1. nb.pc = "finally" \/ inflight[RangeOf[e]] # e
      BY <2>1, SpeculationAssumption DEF TypeOK
    <3>2. \A g \in Ranges : inflight[g] \in Reads \cup {NoRead}
      BY DEF TypeOK
    <3>3. nb.pc # "fetching"
      OBVIOUS
    <3>. QED
      BY <1>1, <2>1, <3>1, <3>2, <3>3 DEF MapInv
  <2>2. CASE /\ body[e].pc = "finally" /\ nb.pc = "settled"
             /\ inflight' = [inflight EXCEPT ![RangeOf[e]] = IF @ = e THEN NoRead ELSE @]
    <3>1. \A g \in Ranges : inflight'[g] # NoRead =>
            inflight'[g] = inflight[g] /\ inflight[g] # e /\ inflight[g] \in Reads
      BY <2>2 DEF TypeOK, MapInv
    <3>2. \A f \in Reads : f # e /\ inflight[RangeOf[f]] = f => inflight'[RangeOf[f]] = f
      BY <2>2, SpeculationAssumption DEF TypeOK
    <3>. QED
      BY <1>1, <2>2, <3>1, <3>2 DEF MapInv
  <2>. QED
    BY <2>1, <2>2
<1>9. VerdictInv'
  <2>1. body[e].told = "none"
    BY DEF VerdictInv
  <2>2. \A f \in Reads : body'[f].verdict = body[f].verdict
    BY <1>1
  <2>3. \A f \in Reads : body'[f].told # "none" => body'[f] = body[f]
    BY <1>1, <2>1
  <2>. QED
    BY <2>2, <2>3 DEF VerdictInv
<1>. QED
  BY <1>3, <1>4, <1>5, <1>7, <1>8, <1>9

LEMMA BodyStepTally ==
  ASSUME TallyInv, DataOK', NEW e \in Reads, BodyStep(e)
  PROVE  TallyInv'
<1>1. body \in [Reads -> BodyState] /\ body[e] \in BodyState
  BY DEF TallyInv, TypeOK
<1>2. CASE BodyArrives(e)
  <2>1. PICK good \in Matching :
          body' = [body EXCEPT ![e] =
                     Flushed([body[e] EXCEPT !.pc = "finally", !.arrived = TRUE,
                                             !.good = good \cap Whole[RangeOf[e]]])]
    BY <1>2 DEF BodyArrives
  <2>. DEFINE nb == [body[e] EXCEPT !.pc = "finally", !.arrived = TRUE,
                                    !.good = good \cap Whole[RangeOf[e]]]
  <2>2. good \cap Whole[RangeOf[e]] \in SUBSET Leaves
    BY SpeculationAssumption
  <2>3. /\ nb \in BodyState /\ nb.pc = "finally" /\ nb.refs = body[e].refs
        /\ nb.aborted = body[e].aborted /\ nb.waiting = body[e].waiting
        /\ nb.verdict = body[e].verdict /\ nb.told = body[e].told
    BY <1>1, <2>2 DEF BodyState
  <2>4. body' = [body EXCEPT ![e] = Flushed(nb)]
    BY <2>1
  <2>. HIDE DEF nb
  <2>5. body[e].waiting > 0 /\ body[e].waiting \in Nat
    BY <1>1, <1>2 DEF TallyInv, CountInv, BodyArrives, BodyState
  <2>6. Flushed(nb) = nb
    BY <2>3, <2>5 DEF Flushed
  <2>. QED
    BY <1>2, <2>3, <2>4, <2>6, BodyMoves DEF BodyArrives
<1>3. CASE BodyFails(e)
  <2>. DEFINE nb == [body[e] EXCEPT !.pc = "finally"]
  <2>1. body' = [body EXCEPT ![e] = nb]
    BY <1>3 DEF BodyFails
  <2>2. /\ nb \in BodyState /\ nb.pc = "finally" /\ nb.refs = body[e].refs
        /\ nb.aborted = body[e].aborted /\ nb.waiting = body[e].waiting
        /\ nb.verdict = body[e].verdict /\ nb.told = body[e].told
    BY <1>1 DEF BodyState
  <2>. HIDE DEF nb
  <2>. QED
    BY <1>3, <2>1, <2>2, BodyMoves DEF BodyFails
<1>4. CASE Clean(e)
  <2>. DEFINE nb == [body[e] EXCEPT !.pc = "settled"]
  <2>1. body' = [body EXCEPT ![e] = nb]
    BY <1>4 DEF Clean
  <2>2. /\ nb \in BodyState /\ nb.pc = "settled" /\ nb.refs = body[e].refs
        /\ nb.aborted = body[e].aborted /\ nb.waiting = body[e].waiting
        /\ nb.verdict = body[e].verdict /\ nb.told = body[e].told
    BY <1>1 DEF BodyState
  <2>. HIDE DEF nb
  <2>. QED
    BY <1>4, <2>1, <2>2, BodyMoves DEF Clean
<1>. QED
  BY <1>2, <1>3, <1>4 DEF BodyStep

-----------------------------------------------------------------------------
(* A read joins a body, or opens one.                                       *)

LEMMA JoinTally ==
  ASSUME TallyInv, DataOK', NEW r \in Reads, ~signal[r], Speculate(r)
  PROVE  TallyInv'
<1>. USE DEF TallyInv
<1>. DEFINE g == RangeOf[r]
<1>1. PICK e : e = IF inflight[g] = NoRead THEN r ELSE inflight[g]
  OBVIOUS
<1>2. e \in Reads /\ g \in Ranges /\ RangeOf[e] = g
  BY <1>1, SpeculationAssumption DEF TypeOK, MapInv
<1>3. /\ read[r].pc = "descending"
      /\ read' = [read EXCEPT ![r].pc = "requested", ![r].handle = "waiting", ![r].at = e]
      /\ body' = [body EXCEPT ![e] = Joined(IF e = r THEN [@ EXCEPT !.pc = "fetching"] ELSE @)]
      /\ inflight' = [inflight EXCEPT ![g] = e]
      /\ UNCHANGED signal
  BY <1>1 DEF Speculate
<1>4. /\ read[r] \in ReadState /\ read[r].handle = "none" /\ read[r].at = NoRead
      /\ ~read[r].cancelled
      /\ read[r].outcome = "unused" /\ body[r] = NoBody
  BY <1>3 DEF TypeOK, ReadsTally, ReadTally, LinkInv
<1>5. /\ \A l \in Leaves : read[r].run[l] # "adopting"
      /\ NoRead \notin Reads
  BY <1>4, SpeculationAssumption DEF ReadsTally, ReadTally
<1>. DEFINE new == [read[r] EXCEPT !.pc = "requested", !.handle = "waiting", !.at = e]
<1>6. read' = [read EXCEPT ![r] = new]
  BY <1>3 DEF TypeOK
<1>7. /\ new.pc = "requested" /\ new.handle = "waiting" /\ new.at = e /\ new.run = read[r].run
      /\ new.outcome = "unused" /\ new.cancelled = read[r].cancelled
  BY <1>4 DEF ReadState
<1>. HIDE DEF new
<1>8. \A q \in Reads : read'[q] = IF q = r THEN new ELSE read[q]
  BY <1>6 DEF TypeOK
<1>. DEFINE old == IF e = r THEN [body[e] EXCEPT !.pc = "fetching"] ELSE body[e]
            nb == [old EXCEPT !.refs = @ + 1, !.waiting = @ + 1]
<1>9. body' = [body EXCEPT ![e] = nb]
  BY <1>3 DEF Joined
<1>10. /\ old \in BodyState /\ old.refs = body[e].refs /\ old.waiting = body[e].waiting
       /\ old.aborted = body[e].aborted /\ old.verdict = body[e].verdict
       /\ old.told = body[e].told /\ old.arrived = body[e].arrived
       /\ old.pc = IF e = r THEN "fetching" ELSE body[e].pc
  BY <1>2 DEF TypeOK, BodyState
<1>11. old.pc \in {"fetching", "finally"} /\ ~old.aborted
  <2>1. CASE e = r
    BY <1>4, <1>10, <2>1 DEF NoBody
  <2>2. CASE e # r
    BY <1>1, <1>2, <1>10, <2>2 DEF MapInv
  <2>. QED
    BY <2>1, <2>2
<1>. HIDE DEF old
<1>12. /\ nb \in BodyState /\ nb.refs = body[e].refs + 1 /\ nb.waiting = body[e].waiting + 1
       /\ nb.aborted = body[e].aborted /\ nb.verdict = body[e].verdict /\ nb.told = body[e].told
       /\ nb.arrived = body[e].arrived /\ nb.pc = old.pc
  <2>1. old.refs + 1 \in Nat /\ old.waiting + 1 \in Nat
    BY <1>10 DEF BodyState
  <2>2. /\ nb \in BodyState /\ nb.refs = old.refs + 1 /\ nb.waiting = old.waiting + 1
        /\ nb.aborted = old.aborted /\ nb.verdict = old.verdict /\ nb.told = old.told
        /\ nb.arrived = old.arrived /\ nb.pc = old.pc
    BY <1>10, <2>1 DEF BodyState
  <2>. HIDE DEF nb
  <2>. QED
    BY <1>10, <2>2
<1>. HIDE DEF nb
<1>13. \A f \in Reads : body'[f] = IF f = e THEN nb ELSE body[f]
  BY <1>9 DEF TypeOK
<1>14. body' \in [Reads -> BodyState]
  BY <1>9, <1>12 DEF TypeOK
<1>15. TypeOK'
  <2>1. inflight' \in [Ranges -> Reads \cup {NoRead}]
    BY <1>2, <1>3 DEF TypeOK
  <2>. QED
    BY <1>3, <1>14, <2>1 DEF TypeOK, DataOK
<1>16. ReadsTally'
  <2>1. ReadTally(new)
    BY <1>2, <1>5, <1>7 DEF ReadTally
  <2>. QED
    BY <1>8, <2>1 DEF ReadsTally
<1>17. body[e].pc # "settled"
  BY <1>4, <1>10, <1>11 DEF NoBody
<1>18. LinkInv'
  <2>1. ASSUME NEW q \in Reads
        PROVE  /\ read'[q].pc \in {"idle", "descending"} => body'[q] = NoBody
               /\ read'[q].at \in Reads => body'[read'[q].at].pc # "none"
               /\ read'[q].handle \in {"got", "reported"} =>
                    body'[read'[q].at].pc = "settled" /\ body'[read'[q].at].arrived
    <3>1. CASE q = r
      BY <1>2, <1>7, <1>8, <1>11, <1>12, <1>13, <3>1
    <3>2. CASE q # r
      <4>1. read'[q] = read[q]
        BY <1>8, <3>2
      <4>2. read[q].pc \in {"idle", "descending"} => q # e
        BY <1>10, <1>11, <3>2 DEF LinkInv, NoBody
      <4>3. read[q].at \in Reads => body'[read[q].at].pc # "none"
        BY <1>11, <1>12, <1>13 DEF LinkInv
      <4>4. read[q].handle \in {"got", "reported"} => read[q].at \in Reads /\ read[q].at # e
        BY <1>17 DEF LinkInv, ReadsTally, ReadTally
      <4>. QED
        BY <1>13, <4>1, <4>2, <4>3, <4>4 DEF LinkInv
    <3>. QED
      BY <3>1, <3>2
  <2>. QED
    BY <2>1 DEF LinkInv
<1>19. ASSUME NEW f \in Reads, f # e PROVE Live(f)' = Live(f) /\ Unjudged(f)' = Unjudged(f)
  <2>1. \A q \in Reads : q # r => (Merged(q)' <=> Merged(q))
    BY <1>3, <1>8 DEF Merged
  <2>2. read[r].at # f /\ read'[r].at # f
    BY <1>4, <1>5, <1>7, <1>8, <1>19
  <2>3. \A q \in Reads : q # r => read'[q] = read[q]
    BY <1>8
  <2>. QED
    BY <2>1, <2>2, <2>3 DEF Live, Unjudged
<1>20. /\ r \notin Live(e) /\ Live(e)' = Live(e) \cup {r}
       /\ r \notin Unjudged(e) /\ Unjudged(e)' = Unjudged(e) \cup {r}
  <2>1. \A q \in Reads : q # r => read'[q] = read[q] /\ (Merged(q)' <=> Merged(q))
    BY <1>3, <1>8 DEF Merged
  <2>2. read'[r].at = e /\ read'[r].handle = "waiting" /\ ~Merged(r)'
    BY <1>3, <1>4, <1>7, <1>8 DEF Merged
  <2>3. r \notin Live(e) /\ r \notin Unjudged(e)
    BY <1>4 DEF Live, Unjudged
  <2>4. Unjudged(e)' = Unjudged(e) \cup {r}
    BY <2>1, <2>2 DEF Unjudged
  <2>5. Live(e)' = Live(e) \cup {r}
    BY <2>1, <2>2 DEF Live
  <2>. QED
    BY <2>3, <2>4, <2>5
<1>21. /\ Cardinality(Live(e)') = Cardinality(Live(e)) + 1
       /\ Cardinality(Unjudged(e)') = Cardinality(Unjudged(e)) + 1
       /\ Cardinality(Live(e)) \in Nat /\ Cardinality(Unjudged(e)) \in Nat
  BY <1>20, LiveFinite, FS_AddElement
<1>22. CountInv'
  <2>1. /\ body[e].refs = Cardinality(Live(e)) /\ body[e].waiting = Cardinality(Unjudged(e))
    BY <1>2, <1>17 DEF CountInv
  <2>2. /\ nb.refs = Cardinality(Live(e)') /\ nb.waiting = Cardinality(Unjudged(e)')
        /\ nb.refs > 0 /\ nb.waiting > 0 /\ nb.refs >= Cardinality(Live(e)')
    BY <1>12, <1>21, <2>1
  <2>3. nb.pc # "none"
    BY <1>11, <1>12
  <2>. QED
    BY <1>13, <1>19, <2>2, <2>3 DEF CountInv
<1>23. MapInv'
  <2>1. \A h \in Ranges : inflight'[h] = IF h = g THEN e ELSE inflight[h]
    BY <1>3 DEF TypeOK
  <2>2. \A h \in Ranges : h # g /\ inflight[h] # NoRead => inflight[h] # e /\ inflight[h] \in Reads
    BY <1>2 DEF MapInv, TypeOK
  <2>3. nb.pc \in {"fetching", "finally"} /\ ~nb.aborted
    BY <1>10, <1>11, <1>12
  <2>4. \A h \in Ranges : inflight'[h] # NoRead =>
          /\ RangeOf[inflight'[h]] = h
          /\ body'[inflight'[h]].pc \in {"fetching", "finally"}
          /\ ~body'[inflight'[h]].aborted
    BY <1>2, <1>13, <2>1, <2>2, <2>3 DEF MapInv
  <2>5. ASSUME NEW f \in Reads, body'[f].pc = "fetching", ~body'[f].aborted
        PROVE  inflight'[RangeOf[f]] = f
    <3>1. CASE f = e
      BY <1>2, <2>1, <3>1
    <3>2. CASE f # e
      <4>1. inflight[RangeOf[f]] = f /\ RangeOf[f] \in Ranges
        BY <1>13, <2>5, <3>2, SpeculationAssumption DEF MapInv
      <4>2. RangeOf[f] # g
        BY <1>1, <1>5, <3>2, <4>1
      <4>. QED
        BY <2>1, <4>1, <4>2
    <3>. QED
      BY <3>1, <3>2
  <2>. QED
    BY <2>4, <2>5 DEF MapInv
<1>24. VerdictInv'
  <2>1. \A f \in Reads : body'[f].verdict = body[f].verdict /\ body'[f].told = body[f].told
    BY <1>12, <1>13
  <2>2. \A f \in Reads : body'[f].told # "none" => body'[f] = body[f]
    BY <1>2, <1>13, <1>17, <2>1 DEF VerdictInv
  <2>3. \A q \in Reads : read[q].handle = "reported" \/ read'[q].handle = "reported" =>
          read'[q] = read[q]
    BY <1>4, <1>7, <1>8
  <2>. QED
    BY <2>1, <2>2, <2>3 DEF VerdictInv
<1>. QED
  BY <1>15, <1>16, <1>18, <1>22, <1>23, <1>24

\* A read whose signal has aborted joins none.
LEMMA SpeculateTally ==
  ASSUME TallyInv, DataOK', NEW r \in Reads, Speculate(r)
  PROVE  TallyInv'
<1>1. CASE signal[r]
  <2>. DEFINE new == [read[r] EXCEPT !.pc = "requested", !.handle = "null"]
  <2>1. read' = [read EXCEPT ![r] = new] /\ UNCHANGED <<body, inflight, signal>>
    BY <1>1 DEF Speculate, TallyInv, TypeOK
  <2>2. read[r] \in ReadState /\ read[r].handle = "none" /\ ReadTally(read[r])
    BY DEF TallyInv, TypeOK, ReadsTally, ReadTally, Speculate
  <2>3. /\ new.pc = "requested" /\ new.handle = "null" /\ new.at = read[r].at
        /\ new.run = read[r].run /\ new.outcome = read[r].outcome
        /\ new.cancelled = read[r].cancelled
    BY <2>2 DEF ReadState
  <2>. HIDE DEF new
  <2>4. ReadTally(new)
    BY <2>2, <2>3 DEF ReadTally
  <2>. QED
    BY <2>1, <2>2, <2>3, <2>4, ReadAlone
<1>2. CASE ~signal[r]
  BY <1>2, JoinTally
<1>. QED
  BY <1>1, <1>2

-----------------------------------------------------------------------------
(* A read learns what became of its body, or reports on it.                 *)

\* The handle of r goes on, and its fetch is settled.  If r is through, its
\* report is in: the tally counts it no longer.
LEMMA JudgeTally ==
  ASSUME TallyInv, DataOK', NEW r \in Reads, NEW new, NEW e \in Reads, NEW nb,
         read[r].at = e, read[r].handle \in {"waiting", "got"}, body[e].pc = "settled",
         read' = [read EXCEPT ![r] = new], ReadTally(new),
         new.at = e, new.outcome = read[r].outcome,
         new.pc \notin {"idle", "descending"},
         body' = [body EXCEPT ![e] = nb],
         \/ /\ read[r].handle = "waiting" /\ new.handle = "got" /\ body[e].arrived
            /\ nb = body[e]
         \/ /\ new.handle = "null" /\ nb = Reported(body[e], "unused")
         \/ /\ read[r].handle = "got" /\ new.handle = "reported"
            /\ nb = Reported(body[e], read[r].outcome),
         UNCHANGED <<inflight, signal>>
  PROVE  TallyInv'
<1>. USE DEF TallyInv
<1>. DEFINE over == new.handle # "got"
            v == IF new.handle = "reported" THEN read[r].outcome ELSE "unused"
<1>1. \A q \in Reads : read'[q] = IF q = r THEN new ELSE read[q]
  BY DEF TypeOK
<1>2. \A f \in Reads : body'[f] = IF f = e THEN nb ELSE body[f]
  BY DEF TypeOK
<1>3. /\ body[e] \in BodyState /\ v \in Verdicts /\ body[e].waiting \in Nat /\ body[e].refs \in Nat
      /\ body[e].verdict \in Verdicts
  BY DEF TypeOK, BodyState, ReadState, Verdicts
<1>4. r \in Unjudged(e) /\ IsFiniteSet(Unjudged(e)) /\ IsFiniteSet(Live(e))
  BY LiveFinite DEF Unjudged
<1>5. body[e].waiting = Cardinality(Unjudged(e)) /\ body[e].waiting >= 1
  BY <1>3, <1>4, OneLess DEF CountInv
<1>6. body[e].told = "none"
  BY <1>5 DEF VerdictInv
<1>7. over => nb = Reported(body[e], v)
  OBVIOUS
<1>8. /\ nb \in BodyState /\ nb.pc = "settled" /\ nb.refs = body[e].refs
      /\ nb.arrived = body[e].arrived
      /\ nb.waiting = IF over THEN body[e].waiting - 1 ELSE body[e].waiting
      /\ nb.verdict = IF over THEN Stronger(body[e].verdict, v) ELSE body[e].verdict
      /\ nb.told # "none" => nb.waiting = 0 /\ nb.told = nb.verdict
  <2>1. CASE over
    <3>1. nb = Reported(body[e], v)
      BY <1>7, <2>1
    <3>. HIDE DEF over, v
    <3>. QED
      BY <1>3, <1>5, <1>6, <2>1, <3>1, ReportedFields
  <2>2. CASE ~over
    BY <1>3, <1>6, <2>2
  <2>. QED
    BY <2>1, <2>2
<1>9. TypeOK'
  <2>1. body' \in [Reads -> BodyState]
    BY <1>8 DEF TypeOK
  <2>. QED
    BY <2>1 DEF TypeOK, DataOK
<1>10. ReadsTally'
  BY <1>1 DEF ReadsTally
<1>11. LinkInv'
  <2>1. new.handle \in {"got", "reported"} => body[e].arrived
    BY DEF LinkInv
  <2>2. ASSUME NEW q \in Reads
        PROVE  /\ read'[q].pc \in {"idle", "descending"} => body'[q] = NoBody
               /\ read'[q].at \in Reads => body'[read'[q].at].pc # "none"
               /\ read'[q].handle \in {"got", "reported"} =>
                    body'[read'[q].at].pc = "settled" /\ body'[read'[q].at].arrived
    <3>1. CASE q = r
      BY <1>1, <1>2, <1>8, <2>1, <3>1
    <3>2. CASE q # r
      <4>1. read'[q] = read[q]
        BY <1>1, <3>2
      <4>2. read[q].pc \in {"idle", "descending"} => q # e
        BY DEF LinkInv, NoBody
      <4>3. read[q].handle \in {"got", "reported"} => read[q].at \in Reads
        BY DEF ReadsTally, ReadTally
      <4>. QED
        BY <1>2, <1>8, <4>1, <4>2, <4>3 DEF LinkInv
    <3>. QED
      BY <3>1, <3>2
  <2>. QED
    BY <2>2 DEF LinkInv
<1>12. \A f \in Reads : f # e => Live(f)' = Live(f) /\ Unjudged(f)' = Unjudged(f)
  <2>1. \A q \in Reads : q # r => read'[q] = read[q] /\ (Merged(q)' <=> Merged(q))
    BY <1>1 DEF Merged
  <2>. QED
    BY <1>1, <2>1 DEF Live, Unjudged
<1>13. /\ Live(e)' = Live(e) \ {r}
       /\ Unjudged(e)' = IF over THEN Unjudged(e) \ {r} ELSE Unjudged(e)
  <2>1. \A q \in Reads : q # r => read'[q] = read[q] /\ (Merged(q)' <=> Merged(q))
    BY <1>1 DEF Merged
  <2>. QED
    BY <1>1, <2>1 DEF Live, Unjudged
<1>14. CountInv'
  <2>1. Cardinality(Live(e)') \in Nat /\ Cardinality(Live(e)') <= Cardinality(Live(e))
    BY <1>4, <1>13, FS_Subset, FS_CardinalityType
  <2>2. nb.refs >= Cardinality(Live(e)')
    BY <1>3, <1>8, <2>1, LiveFinite DEF CountInv
  <2>3. nb.waiting = Cardinality(Unjudged(e)')
    BY <1>4, <1>5, <1>8, <1>13, OneLess
  <2>. QED
    BY <1>2, <1>8, <1>12, <2>2, <2>3 DEF CountInv
<1>15. MapInv'
  <2>1. \A g \in Ranges : inflight[g] # NoRead => inflight[g] # e /\ inflight[g] \in Reads
    BY DEF MapInv, TypeOK
  <2>. QED
    BY <1>2, <1>8, <2>1 DEF MapInv
<1>16. VerdictInv'
  <2>. SUFFICES ASSUME NEW f \in Reads
                PROVE  /\ body'[f].told # "none" =>
                            body'[f].pc = "settled" /\ body'[f].waiting = 0
                            /\ body'[f].told = body'[f].verdict
                       /\ \A q \in Reads : read'[q].at = f /\ read'[q].handle = "reported" =>
                            Stronger(read'[q].outcome, body'[f].verdict) = body'[f].verdict
                       /\ body'[f].verdict # "unused" =>
                            \E q \in Reads : /\ read'[q].at = f /\ read'[q].handle = "reported"
                                             /\ read'[q].outcome = body'[f].verdict
    BY DEF VerdictInv
  <2>1. CASE f # e
    <3>1. \A q \in Reads : read[q].at = f \/ read'[q].at = f => read'[q] = read[q]
      BY <1>1, <2>1
    <3>. QED
      BY <1>2, <2>1, <3>1 DEF VerdictInv
  <2>2. CASE f = e
    <3>1. body'[e] = nb
      BY <1>2
    <3>2. ASSUME NEW q \in Reads, read'[q].at = e, read'[q].handle = "reported"
          PROVE  Stronger(read'[q].outcome, nb.verdict) = nb.verdict
      <4>1. CASE q = r
        BY <1>1, <1>3, <1>8, <3>2, <4>1, StrongerType
      <4>2. CASE q # r
        <5>1. /\ read'[q] = read[q] /\ read[q].outcome \in Verdicts
              /\ Stronger(read[q].outcome, body[e].verdict) = body[e].verdict
          BY <1>1, <3>2, <4>2 DEF VerdictInv, TypeOK, ReadState
        <5>. HIDE DEF over, v
        <5>. QED
          BY <1>3, <1>8, <5>1, StrongerType
      <4>. QED
        BY <4>1, <4>2
    <3>3. ASSUME nb.verdict # "unused"
          PROVE  \E q \in Reads : /\ read'[q].at = e /\ read'[q].handle = "reported"
                                  /\ read'[q].outcome = nb.verdict
      <4>1. CASE nb.verdict = body[e].verdict
        <5>1. PICK q \in Reads : /\ read[q].at = e /\ read[q].handle = "reported"
                                 /\ read[q].outcome = body[e].verdict
          BY <3>3, <4>1 DEF VerdictInv
        <5>2. read'[q] = read[q]
          BY <1>1, <5>1
        <5>. QED
          BY <4>1, <5>1, <5>2
      <4>2. CASE nb.verdict # body[e].verdict
        <5>1. over /\ nb.verdict = v
          <6>. HIDE DEF over, v
          <6>. QED
            BY <1>3, <1>8, <4>2, StrongerType
        <5>2. new.handle = "reported" /\ nb.verdict = read[r].outcome
          BY <3>3, <5>1
        <5>. QED
          BY <1>1, <5>2
      <4>. QED
        BY <4>1, <4>2
    <3>. QED
      BY <1>8, <2>2, <3>1, <3>2, <3>3
  <2>. QED
    BY <2>1, <2>2
<1>. QED
  BY <1>9, <1>10, <1>11, <1>14, <1>15, <1>16

LEMMA HandleTally ==
  ASSUME TallyInv, DataOK', NEW r \in Reads, TakeBody(r) \/ Report(r)
  PROVE  TallyInv'
<1>1. /\ read \in [Reads -> ReadState] /\ read[r] \in ReadState /\ ReadTally(read[r])
      /\ body \in [Reads -> BodyState]
  BY DEF TallyInv, TypeOK, ReadsTally
<1>2. PICK e : e = read[r].at
  OBVIOUS
<1>3. e \in Reads /\ read[r].pc \notin {"idle", "descending"}
  BY <1>1, <1>2 DEF TakeBody, Report, ReadTally
<1>4. CASE TakeBody(r)
  <2>. DEFINE got == body[e].arrived /\ ~Merged(r)
              handle == IF got THEN "got" ELSE "null"
              new == [read[r] EXCEPT !.handle = handle]
              nb == IF got THEN body[e] ELSE Reported(body[e], "unused")
  <2>1. /\ read[r].handle = "waiting" /\ body[e].pc = "settled"
        /\ read' = [read EXCEPT ![r] = new] /\ body' = [body EXCEPT ![e] = nb]
        /\ UNCHANGED <<inflight, signal>>
    BY <1>1, <1>2, <1>4 DEF TakeBody
  <2>2. /\ new.handle = handle /\ new.at = e /\ new.outcome = read[r].outcome
        /\ new.pc = read[r].pc /\ new.run = read[r].run
    BY <1>1, <1>2 DEF ReadState
  <2>. HIDE DEF new
  <2>3. ReadTally(new)
    BY <1>1, <1>3, <2>1, <2>2 DEF ReadTally
  <2>4. \/ new.handle = "got" /\ body[e].arrived /\ nb = body[e]
        \/ new.handle = "null" /\ nb = Reported(body[e], "unused")
    BY <2>2
  <2>. HIDE DEF nb, handle, got
  <2>. QED
    BY <1>2, <1>3, <2>1, <2>2, <2>3, <2>4, JudgeTally
<1>5. CASE Report(r)
  <2>. DEFINE new == [read[r] EXCEPT !.handle = "reported"]
              nb == Reported(body[e], read[r].outcome)
  <2>1. /\ read[r].handle = "got"
        /\ read' = [read EXCEPT ![r] = new] /\ body' = [body EXCEPT ![e] = nb]
        /\ UNCHANGED <<inflight, signal>>
        /\ read[r].pc \in {"reading", "served", "failed"}
        /\ \A l \in Leaves : read[r].run[l] \in RunOver \cup {"no"}
    BY <1>1, <1>2, <1>5 DEF Report
  <2>2. /\ new.handle = "reported" /\ new.at = e /\ new.outcome = read[r].outcome
        /\ new.pc = read[r].pc /\ new.run = read[r].run
    BY <1>1, <1>2 DEF ReadState
  <2>3. body[e].pc = "settled"
    BY <1>2, <2>1 DEF TallyInv, LinkInv
  <2>. HIDE DEF new, nb
  <2>4. ReadTally(new)
    BY <1>3, <2>1, <2>2 DEF ReadTally, RunOver
  <2>. QED
    BY <1>2, <1>3, <2>1, <2>2, <2>3, <2>4, JudgeTally DEF nb
<1>. QED
  BY <1>4, <1>5

-----------------------------------------------------------------------------
(* A read starts, finds its leaves, or fails to.                            *)

LEMMA LocatedTally ==
  ASSUME TallyInv, DataOK', NEW r \in Reads, read[r].pc \in {"idle", "requested"}, Located(r)
  PROVE  TallyInv'
<1>. DEFINE adopting == {R \in Runs(Missing(r)) : Adoptable(r, R)}
            unwanted == read[r].handle # "none" /\ adopting = {}
            run == [l \in Leaves |->
                      IF l \notin Missing(r) THEN "no"
                      ELSE IF l \in UNION adopting THEN "waiting" ELSE Fetching(r)]
            out == [l \in Leaves |-> IF l \in Covers[RangeOf[r]] THEN cache[l] ELSE "none"]
            cancelled == read[r].cancelled \/ unwanted
            new == [read[r] EXCEPT !.pc = "reading", !.cancelled = cancelled,
                                   !.out = out, !.run = run]
<1>1. /\ read \in [Reads -> ReadState] /\ read[r] \in ReadState /\ ReadTally(read[r])
      /\ signal \in [Reads -> BOOLEAN]
  BY DEF TallyInv, TypeOK, ReadsTally
<1>2. read' = [read EXCEPT ![r] = new] /\ UNCHANGED signal
  BY <1>1 DEF Located
<1>3. IF unwanted THEN Leave(r) ELSE UNCHANGED <<body, inflight>>
  BY DEF Located, Cancel
<1>4. read[r].handle # "none" /\ ~unwanted => \E l \in Leaves : run[l] = "waiting"
  <2>. SUFFICES ASSUME read[r].handle # "none", ~unwanted
                PROVE  \E l \in Leaves : run[l] = "waiting"
    OBVIOUS
  <2>1. PICK R \in adopting : R # {} /\ R \subseteq Missing(r)
    BY DEF Runs
  <2>2. PICK l \in R : l \in Missing(r) /\ l \in UNION adopting
    BY <2>1
  <2>3. l \in Leaves
    BY <2>2, CoversType DEF Missing
  <2>. QED
    BY <2>2, <2>3
<1>5. \A l \in Leaves : run[l] # "adopting"
  BY DEF Fetching
<1>. HIDE DEF run, out, unwanted
<1>6. /\ new.pc = "reading" /\ new.cancelled = cancelled /\ new.run = run /\ new.at = read[r].at
      /\ new.handle = read[r].handle /\ new.outcome = read[r].outcome
  BY <1>1 DEF ReadState
<1>. HIDE DEF new
<1>7. read[r].handle # "reported" /\ read[r].pc \notin {"reading", "served", "failed"}
  BY <1>1 DEF ReadTally
<1>8. ReadTally(new)
  BY <1>1, <1>4, <1>5, <1>6, <1>7 DEF ReadTally
<1>9. CASE unwanted
  <2>1. new.cancelled /\ new.pc \notin {"idle", "descending"}
    BY <1>6, <1>9
  <2>2. Leave(r)
    BY <1>3, <1>9
  <2>3. signal' \in [Reads -> BOOLEAN] /\ \A q \in Reads : q # r => signal'[q] = signal[q]
    BY <1>1, <1>2
  <2>. QED
    BY <1>2, <1>6, <1>8, <2>1, <2>2, <2>3, LeaveInv
<1>10. CASE ~unwanted
  <2>1. new.cancelled = read[r].cancelled /\ new.pc \notin {"idle", "descending"}
    BY <1>1, <1>6, <1>10 DEF ReadState
  <2>2. UNCHANGED <<body, inflight, signal>>
    BY <1>2, <1>3, <1>10
  <2>. QED
    BY <1>2, <1>6, <1>8, <2>1, <2>2, ReadAlone
<1>. QED
  BY <1>9, <1>10

LEMMA LookupFailsTally ==
  ASSUME TallyInv, DataOK', NEW r \in Reads, LookupFails(r)
  PROVE  TallyInv'
<1>. DEFINE new == [read[r] EXCEPT !.pc = "failed", !.cancelled = read[r].handle # "none"]
<1>1. /\ read \in [Reads -> ReadState] /\ read[r] \in ReadState /\ ReadTally(read[r])
      /\ signal \in [Reads -> BOOLEAN]
  BY DEF TallyInv, TypeOK, ReadsTally
<1>2. read' = [read EXCEPT ![r] = new] /\ UNCHANGED signal /\ Leave(r)
  BY <1>1 DEF LookupFails, Cancel
<1>3. /\ new.pc = "failed" /\ new.cancelled = (read[r].handle # "none") /\ new.run = read[r].run
      /\ new.at = read[r].at /\ new.handle = read[r].handle /\ new.outcome = read[r].outcome
  BY <1>1 DEF ReadState
<1>. HIDE DEF new
<1>4. read[r].handle # "reported"
  BY <1>1 DEF ReadTally, LookupFails
<1>5. ReadTally(new)
  BY <1>1, <1>3, <1>4 DEF ReadTally
<1>6. new.handle = "waiting" => new.cancelled
  BY <1>3
<1>. QED
  BY <1>1, <1>2, <1>3, <1>5, <1>6, LeaveInv

LEMMA AbortTally ==
  ASSUME TallyInv, DataOK', NEW r \in Reads, Abort(r)
  PROVE  TallyInv'
<1>1. read \in [Reads -> ReadState] /\ ReadTally(read[r]) /\ signal \in [Reads -> BOOLEAN]
  BY DEF TallyInv, TypeOK, ReadsTally
<1>2. read' = [read EXCEPT ![r] = read[r]] /\ Leave(r) /\ signal' = [signal EXCEPT ![r] = TRUE]
  BY <1>1 DEF Abort
<1>3. /\ signal' \in [Reads -> BOOLEAN] /\ signal'[r]
      /\ \A q \in Reads : q # r => signal'[q] = signal[q]
  BY <1>1, <1>2
<1>. QED
  BY <1>1, <1>2, <1>3, LeaveInv

\* A step that changes a read's pc alone.
LEMMA StartColdTally ==
  ASSUME TallyInv, DataOK', NEW r \in Reads, StartCold(r)
  PROVE  TallyInv'
<1>. DEFINE new == [read[r] EXCEPT !.pc = "descending"]
<1>1. read \in [Reads -> ReadState] /\ read[r] \in ReadState /\ ReadTally(read[r])
  BY DEF TallyInv, TypeOK, ReadsTally
<1>2. /\ read' = [read EXCEPT ![r] = new] /\ UNCHANGED <<body, inflight, signal>>
      /\ read[r].pc = "idle"
  BY <1>1 DEF StartCold
<1>3. /\ new.pc = "descending" /\ new.cancelled = read[r].cancelled /\ new.run = read[r].run
      /\ new.at = read[r].at /\ new.handle = read[r].handle /\ new.outcome = read[r].outcome
  BY <1>1 DEF ReadState
<1>. HIDE DEF new
<1>4. ReadTally(new)
  BY <1>1, <1>2, <1>3 DEF ReadTally
<1>. QED
  BY <1>2, <1>3, <1>4, ReadAlone

LEMMA EndTally ==
  ASSUME TallyInv, DataOK', NEW r \in Reads, End(r)
  PROVE  TallyInv'
<1>1. read \in [Reads -> ReadState] /\ read[r] \in ReadState /\ ReadTally(read[r])
  BY DEF TallyInv, TypeOK, ReadsTally
<1>2. PICK pc \in {"served", "failed"} :
        /\ read' = [read EXCEPT ![r] = [read[r] EXCEPT !.pc = pc]]
        /\ UNCHANGED <<body, inflight, signal>>
        /\ read[r].pc = "reading"
  BY <1>1 DEF End
<1>. DEFINE new == [read[r] EXCEPT !.pc = pc]
<1>3. /\ new.pc = pc /\ new.cancelled = read[r].cancelled /\ new.run = read[r].run
      /\ new.at = read[r].at /\ new.handle = read[r].handle /\ new.outcome = read[r].outcome
  BY <1>1 DEF ReadState
<1>4. ReadTally(new)
  BY <1>1, <1>2, <1>3 DEF ReadTally
<1>5. read' = [read EXCEPT ![r] = new] /\ UNCHANGED <<body, inflight, signal>>
  BY <1>2
<1>6. new.pc \notin {"idle", "descending"}
  BY <1>3
<1>. HIDE DEF new
<1>. QED
  BY <1>3, <1>4, <1>5, <1>6, ReadAlone

-----------------------------------------------------------------------------
(* A run goes on: its read stays where it is with its body.                 *)

LEMMA RunTally ==
  ASSUME TallyInv, DataOK', NEW r \in Reads, NEW R \in RunsOf(r),
         NEW from \in {"waiting", "adopting", "fetching"}, NEW to, NEW outcome, NEW out,
         In(r, R, from),
         from \in {"waiting", "adopting"} => read[r].handle \in {"got", "null"},
         to = "adopting" => read[r].handle = "got",
         outcome = read[r].outcome \/ read[r].handle = "got",
         read' = [read EXCEPT ![r].run = To(read[r].run, R, to), ![r].out = out,
                              ![r].outcome = outcome],
         UNCHANGED <<body, inflight, signal>>
  PROVE  TallyInv'
<1>. DEFINE run == To(read[r].run, R, to)
            new == [read[r] EXCEPT !.run = run, !.out = out, !.outcome = outcome]
<1>1. read \in [Reads -> ReadState] /\ read[r] \in ReadState /\ ReadTally(read[r])
  BY DEF TallyInv, TypeOK, ReadsTally
<1>2. \A l \in Leaves : run[l] = IF l \in R THEN to ELSE read[r].run[l]
  BY DEF To
<1>3. PICK l \in R : l \in Leaves /\ read[r].run[l] = from
  BY DEF RunsOf, Runs, In
<1>4. read[r].handle # "reported"
  BY <1>1, <1>3 DEF ReadTally, RunOver
<1>. HIDE DEF run
<1>5. read' = [read EXCEPT ![r] = new]
  BY <1>1 DEF run
<1>6. /\ new.pc = read[r].pc /\ new.cancelled = read[r].cancelled /\ new.run = run
      /\ new.at = read[r].at /\ new.handle = read[r].handle /\ new.outcome = outcome
  BY <1>1 DEF ReadState
<1>. HIDE DEF new
<1>7. read[r].handle = "waiting" => \A m \in Leaves : read[r].run[m] = "waiting" => run[m] = "waiting"
  BY <1>2 DEF In
<1>8. ReadTally(new)
  <2>1. \A m \in Leaves : run[m] = "adopting" => read[r].handle = "got"
    BY <1>1, <1>2 DEF ReadTally
  <2>2. read[r].handle \notin {"got", "reported"} => outcome = "unused"
    BY <1>1 DEF ReadTally
  <2>3. read[r].handle = "waiting" /\ ~read[r].cancelled =>
          read[r].pc = "requested" \/ \E m \in Leaves : run[m] = "waiting"
    BY <1>1, <1>7 DEF ReadTally
  <2>. QED
    BY <1>1, <1>4, <1>6, <2>1, <2>2, <2>3 DEF ReadTally
<1>. QED
  BY <1>5, <1>6, <1>8, ReadAlone

LEMMA RunStepTally ==
  ASSUME TallyInv, DataOK', NEW r \in Reads, NEW R \in RunsOf(r), RunStep(r, R)
  PROVE  TallyInv'
<1>1. read \in [Reads -> ReadState] /\ read[r] \in ReadState /\ ReadTally(read[r])
  BY DEF TallyInv, TypeOK, ReadsTally
<1>2. PICK l \in R : l \in Leaves
  BY DEF RunsOf, Runs
<1>3. In(r, R, "adopting") => read[r].handle = "got"
  BY <1>1, <1>2 DEF In, ReadTally
<1>4. CASE RunResumes(r, R)
  <2>. DEFINE to == IF read[r].handle = "got" /\ ~signal[r] THEN "adopting" ELSE Fetching(r)
              out == read[r].out
              outcome == read[r].outcome
  <2>1. read' = [read EXCEPT ![r].run = To(read[r].run, R, to), ![r].out = out,
                             ![r].outcome = outcome]
    BY <1>1, <1>4 DEF RunResumes, ReadState
  <2>2. (to = "adopting" => read[r].handle = "got") /\ outcome = read[r].outcome
    BY DEF Fetching
  <2>3. read[r].handle \in {"got", "null"} /\ UNCHANGED <<body, inflight, signal>>
    BY <1>4 DEF RunResumes
  <2>4. PICK from \in {"waiting", "adopting", "fetching"} : In(r, R, from)
    BY <1>4 DEF RunResumes
  <2>. HIDE DEF to, out, outcome
  <2>. QED
    BY <2>1, <2>2, <2>3, <2>4, RunTally
<1>5. CASE Adopt(r, R)
  <2>. DEFINE out == Copy(read[r].out, R, Slices(r))
              outcome == IF read[r].outcome = "unused" THEN "verified" ELSE read[r].outcome
  <2>1. read' = [read EXCEPT ![r].run = To(read[r].run, R, "done"), ![r].out = out,
                             ![r].outcome = outcome]
    BY <1>1, <1>5 DEF Adopt, ReadState
  <2>2. In(r, R, "adopting") /\ UNCHANGED <<body, inflight, signal>>
    BY <1>5 DEF Adopt
  <2>. HIDE DEF out, outcome
  <2>. QED
    BY <1>3, <2>1, <2>2, RunTally
<1>6. CASE Reject(r, R)
  <2>. DEFINE out == read[r].out
              outcome == "rejected"
  <2>1. read' = [read EXCEPT ![r].run = To(read[r].run, R, Fetching(r)), ![r].out = out,
                             ![r].outcome = outcome]
    BY <1>1, <1>6 DEF Reject, ReadState
  <2>2. In(r, R, "adopting") /\ UNCHANGED <<body, inflight, signal>>
    BY <1>6 DEF Reject
  <2>. HIDE DEF out, outcome
  <2>. QED
    BY <1>3, <2>1, <2>2, RunTally
<1>7. CASE RunServed(r, R)
  <2>. DEFINE to == IF signal[r] THEN "failed" ELSE "done"
              out == IF signal[r] THEN read[r].out
                     ELSE Copy(read[r].out, R, [m \in Leaves |-> "right"])
  <2>1. read' = [read EXCEPT ![r].run = To(read[r].run, R, to), ![r].out = out,
                             ![r].outcome = read[r].outcome]
    BY <1>1, <1>7 DEF RunServed, ReadState
  <2>2. In(r, R, "fetching") /\ to # "adopting" /\ UNCHANGED <<body, inflight, signal>>
    BY <1>7 DEF RunServed
  <2>. HIDE DEF out, to
  <2>. QED
    BY <2>1, <2>2, RunTally
<1>8. CASE RunFails(r, R)
  <2>. DEFINE to == "failed"
              out == read[r].out
  <2>1. read' = [read EXCEPT ![r].run = To(read[r].run, R, to), ![r].out = out,
                             ![r].outcome = read[r].outcome]
    BY <1>1, <1>8 DEF RunFails, ReadState
  <2>2. In(r, R, "fetching") /\ to # "adopting" /\ UNCHANGED <<body, inflight, signal>>
    BY <1>8 DEF RunFails
  <2>. HIDE DEF to, out
  <2>. QED
    BY <2>1, <2>2, RunTally
<1>. QED
  BY <1>4, <1>5, <1>6, <1>7, <1>8 DEF RunStep

\* Every step keeps the counts.
LEMMA TallyNext == TallyInv /\ DataOK' /\ [Next]_vars => TallyInv'
<1>. SUFFICES ASSUME TallyInv, DataOK', [Next]_vars PROVE TallyInv'
  OBVIOUS
<1>1. ASSUME NEW r \in Reads, StartWarm(r) \/ StartCold(r) \/ Abort(r) PROVE TallyInv'
  BY <1>1, LocatedTally, StartColdTally, AbortTally DEF StartWarm
<1>2. ASSUME NEW r \in Reads, ReadStep(r) PROVE TallyInv'
  <2>1. CASE LookupEnds(r)
    BY <2>1, LocatedTally DEF LookupEnds
  <2>2. ASSUME NEW R \in RunsOf(r), RunStep(r, R) PROVE TallyInv'
    BY <2>2, RunStepTally
  <2>. QED
    BY <1>2, <2>1, <2>2, SpeculateTally, LookupFailsTally, HandleTally, EndTally DEF ReadStep
<1>3. ASSUME NEW e \in Reads, BodyStep(e) PROVE TallyInv'
  BY <1>3, BodyStepTally
<1>4. CASE UNCHANGED vars
  <2>1. UNCHANGED <<cache, body, inflight, read, signal>>
    BY <1>4 DEF vars
  <2>2. \A e \in Reads : Live(e)' = Live(e) /\ Unjudged(e)' = Unjudged(e)
    BY <2>1 DEF Live, Unjudged, Merged
  <2>3. TypeOK' /\ ReadsTally' /\ LinkInv' /\ MapInv' /\ VerdictInv'
    BY <2>1 DEF TallyInv, TypeOK, ReadsTally, LinkInv, MapInv, VerdictInv
  <2>4. CountInv'
    BY <2>1, <2>2 DEF TallyInv, CountInv
  <2>. QED
    BY <2>3, <2>4 DEF TallyInv
<1>. QED
  BY <1>1, <1>2, <1>3, <1>4 DEF Next

-----------------------------------------------------------------------------
(* The theorems.                                                            *)

\* Both invariants hold at the start and every step keeps them.
THEOREM Invariance == Spec => [](IInv /\ TallyInv)
<1>1. Init => InflightOK
  BY DEF Init, InflightOK
<1>2. IInv => DataOK
  BY DEF IInv
<1>. QED
  BY InitInv, InflightStep, NextInv, TallyInit, TallyNext, <1>1, <1>2, PTL DEF Spec

\* The types; neither a fetch's count of readers nor a tally's of verdicts
\* still to come goes below none (dedup's onAbort, Tally.report).
THEOREM TypeCorrect == Spec => []TypeOK
<1>1. TallyInv => TypeOK
  BY DEF TallyInv
<1>. QED
  BY Invariance, <1>1, PTL

\* The leaves of a read that is served are all right, and nothing wrong is
\* cached: integrity never depends on the speculation (RangedReader.read,
\* adoptSlices, fetchRun).
THEOREM ReadsAreVerified == Spec => []Verified
<1>1. IInv => Verified
  BY CoversType DEF IInv, CacheInv, LeafInv, ServedInv, Verified
<1>. QED
  BY Invariance, <1>1, PTL

LEMMA TallyJudges == TallyInv => OneVerdict
<1>. SUFFICES ASSUME TallyInv, NEW e \in Reads, body[e].told # "none"
              PROVE  /\ \A r \in Readers(e) : read[r].handle \in {"null", "reported"}
                     /\ \A r \in Readers(e) : Stronger(read[r].outcome, body[e].told) = body[e].told
                     /\ body[e].told # "unused" => \E r \in Readers(e) : read[r].outcome = body[e].told
  BY DEF OneVerdict
<1>. USE DEF TallyInv
<1>1. body[e].waiting = 0 /\ body[e].told = body[e].verdict /\ body[e].verdict \in Verdicts
  BY DEF VerdictInv, TypeOK, BodyState
<1>2. Unjudged(e) = {}
  <2>1. Cardinality(Unjudged(e)) = 0
    BY <1>1 DEF CountInv
  <2>. QED
    BY <2>1, LiveFinite, FS_EmptySet
<1>3. ASSUME NEW r \in Readers(e) PROVE read[r].handle \in {"null", "reported"}
  <2>1. read[r] \in ReadState /\ r \in Reads /\ read[r].at = e /\ read[r].handle # "none"
    BY SpeculationAssumption DEF Readers, ReadsTally, ReadTally, TypeOK
  <2>2. read[r].handle \notin {"waiting", "got"}
    BY <1>2, <2>1 DEF Unjudged
  <2>. QED
    BY <2>1, <2>2 DEF ReadState
<1>4. ASSUME NEW r \in Readers(e) PROVE Stronger(read[r].outcome, body[e].told) = body[e].told
  <2>1. CASE read[r].handle = "reported"
    BY <1>1, <2>1 DEF VerdictInv, Readers
  <2>2. CASE read[r].handle = "null"
    <3>1. read[r].outcome = "unused"
      BY <2>2 DEF Readers, ReadsTally, ReadTally
    <3>. QED
      BY <1>1, <3>1 DEF Stronger, Verdicts
  <2>. QED
    BY <1>3, <2>1, <2>2
<1>5. body[e].told # "unused" => \E r \in Readers(e) : read[r].outcome = body[e].told
  BY <1>1 DEF VerdictInv, Readers
<1>. QED
  BY <1>3, <1>4, <1>5

\* A shared body's verdict goes out once every reader of it is through, late
\* ones and early ones too, and is the strongest any of them came to (the
\* comment on Tally in verdict.ts; Tally.report, fetchRangeUnverified).
THEOREM OneVerdictPerBody == Spec => []OneVerdict
BY Invariance, TallyJudges, PTL

LEMMA TallyServes == TallyInv => NoIdleBody
<1>. SUFFICES ASSUME TallyInv, NEW e \in Reads, body[e].pc = "fetching", ~body[e].aborted
              PROVE  /\ inflight[RangeOf[e]] = e
                     /\ body[e].refs = Cardinality({r \in Readers(e) : Wants(r)})
                     /\ body[e].refs > 0
  BY DEF NoIdleBody
<1>1. {r \in Readers(e) : Wants(r)} = Live(e)
  BY DEF TallyInv, ReadsTally, ReadTally, Readers, Wants, Live, Merged
<1>2. Cardinality({r \in Readers(e) : Wants(r)}) = Cardinality(Live(e))
  BY <1>1
<1>. QED
  BY <1>2 DEF TallyInv, CountInv, MapInv

\* No body is fetched for nobody: while one is under way and not aborted, the
\* map has it, and it counts its readers that have not left, each of which may
\* still adopt it (onShardsRequested, Speculation.cancel, dedup's onAbort).
THEOREM NoBodyForNobody == Spec => []NoIdleBody
BY Invariance, TallyServes, PTL

=============================================================================
