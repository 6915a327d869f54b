------------------------- MODULE VerifiedStoreProofs -------------------------
(***************************************************************************)
(* Proofs about VerifiedStore, for every set of readers, keys and fetches  *)
(* and every bound.                                                        *)
(*                                                                         *)
(* The inductive invariant adds to the types and to FetchesAreShared what  *)
(* keeps readers apart from the fetches that were cancelled: the map names *)
(* only live fetches, each under its own key (MapInv), and whoever awaits  *)
(* a fetch that was aborted has aborted too (AbortInv), so that nobody     *)
(* else is told of it.                                                     *)
(*                                                                         *)
(* CacheExact is inductive by itself; what it needs is that Bytes is a     *)
(* sum, which is shown for every finite set of keys (BytesIsTotal) by      *)
(* taking the smallest set it could be false of.                           *)
(***************************************************************************)
EXTENDS VerifiedStore, FiniteSetTheorems, SequenceTheorems, TLAPS

ReadingInv == \A r \in Readers : reader[r].pc = "reading" => reader[r].at \in Fetches

MapInv ==
  \A k \in Keys : inflight[k] # NoFetch =>
    /\ Live(inflight[k])
    /\ fetch[inflight[k]].key = k

AbortInv ==
  \A e \in Fetches :
    /\ fetch[e].pc \in Running \cup {"finally"} /\ fetch[e].aborted => Waiting(e) = {}
    /\ fetch[e].pc = "finally" /\ fetch[e].outcome = "aborted" => fetch[e].aborted
    /\ fetch[e].pc = "settled" /\ fetch[e].outcome = "aborted" => Waiting(e) = {}

IInv ==
  /\ TypeOK
  /\ ReadingInv
  /\ MapInv
  /\ AbortInv
  /\ FetchesAreShared

-----------------------------------------------------------------------------
(* Counting the readers of a fetch.                                         *)

LEMMA WaitingFinite ==
  ASSUME NEW e
  PROVE  IsFiniteSet(Waiting(e)) /\ Cardinality(Waiting(e)) \in Nat
<1>1. Waiting(e) \in SUBSET Readers
  BY DEF Waiting
<1>2. IsFiniteSet(Waiting(e))
  BY <1>1, FS_Subset, VerifiedStoreAssumption
<1>. QED
  BY <1>2, FS_CardinalityType

LEMMA RemoveAtType ==
  ASSUME NEW s \in Seq(Keys), NEW i \in 1..Len(s)
  PROVE  RemoveAt(s, i) \in Seq(Keys)
BY DEF RemoveAt

LEMMA RefreshType ==
  ASSUME TypeOK, NEW k \in Keys, Refresh(k)
  PROVE  cache' \in Seq(Keys)
<1>1. PICK i \in DOMAIN cache : cache' = Append(RemoveAt(cache, i), k)
  BY DEF Refresh
<1>2. cache \in Seq(Keys) /\ i \in 1..Len(cache)
  BY <1>1 DEF TypeOK
<1>. QED
  BY <1>1, <1>2, RemoveAtType

LEMMA PutType ==
  ASSUME TypeOK, NEW k \in Keys, Put(k)
  PROVE  cache' \in Seq(Keys)
<1>. DEFINE keys == Append(cache, k)
<1>1. keys \in Seq(Keys)
  BY DEF TypeOK
<1>2. CASE k \in Cached
  BY <1>2 DEF Put, TypeOK
<1>3. CASE k \notin Cached
  <2>1. PICK n \in 0..Len(keys) : cache' = SubSeq(keys, n + 1, Len(keys))
    BY <1>3 DEF Put
  <2>. QED
    BY <1>1, <2>1
<1>. QED
  BY <1>2, <1>3

-----------------------------------------------------------------------------
(* Steps of a fetch: no reader comes, goes or aborts.                       *)

\* e moves on, or its promise settles, without leaving the map.
LEMMA FetchStepInv ==
  ASSUME IInv, NEW e \in Fetches, NEW rec \in FetchState,
         fetch[e].pc \in Running,
         fetch' = [fetch EXCEPT ![e] = rec],
         rec.pc \in Running \cup {"finally"},
         rec.key = fetch[e].key, rec.refs = fetch[e].refs, rec.aborted = fetch[e].aborted,
         rec.pc = "finally" /\ rec.outcome = "aborted" => rec.aborted,
         UNCHANGED <<inflight, reader, signal>>
  PROVE  /\ fetch' \in [Fetches -> FetchState]
         /\ ReadingInv' /\ MapInv' /\ AbortInv' /\ FetchesAreShared'
<1>1. fetch \in [Fetches -> FetchState]
  BY DEF IInv, TypeOK
<1>2. \A f \in Fetches : fetch'[f] = IF f = e THEN rec ELSE fetch[f]
  BY <1>1
<1>3. \A f \in Fetches : Waiting(f)' = Waiting(f)
  BY DEF Waiting
<1>4. \A f \in Fetches : Live(f)' <=> Live(f)
  BY <1>2 DEF Live
<1>5. \A f \in Fetches : fetch'[f].key = fetch[f].key /\ fetch'[f].refs = fetch[f].refs
  BY <1>2
<1>6. MapInv'
  <2>1. \A k \in Keys : inflight[k] # NoFetch => inflight[k] \in Fetches
    BY DEF IInv, TypeOK
  <2>. QED
    BY <1>4, <1>5, <2>1 DEF IInv, MapInv
<1>7. AbortInv'
  <2>1. \A f \in Fetches : f # e => fetch'[f] = fetch[f]
    BY <1>2
  <2>2. fetch'[e] = rec
    BY <1>2
  <2>3. fetch[e].aborted => Waiting(e) = {}
    BY DEF IInv, AbortInv
  <2>4. rec.pc # "settled"
    BY DEF Running
  <2>. QED
    BY <1>3, <2>1, <2>2, <2>3, <2>4 DEF IInv, AbortInv
<1>8. FetchesAreShared'
  <2>. SUFFICES ASSUME NEW f \in Fetches, Live(f)'
                PROVE  /\ inflight'[fetch'[f].key] = f
                       /\ fetch'[f].refs = Cardinality(Waiting(f)')
                       /\ Waiting(f)' # {}
    BY DEF FetchesAreShared
  <2>. QED
    BY <1>3, <1>4, <1>5 DEF IInv, FetchesAreShared
<1>9. ReadingInv'
  BY DEF IInv, ReadingInv
<1>. QED
  BY <1>1, <1>6, <1>7, <1>8, <1>9

LEMMA SettledStep ==
  ASSUME IInv, NEW e \in Fetches, fetch[e].pc \in Running, NEW outcome \in Outcomes,
         outcome = "aborted" => fetch[e].aborted,
         fetch' = [fetch EXCEPT ![e] = Settled(e, outcome)],
         UNCHANGED <<inflight, reader, signal>>
  PROVE  /\ fetch' \in [Fetches -> FetchState]
         /\ ReadingInv' /\ MapInv' /\ AbortInv' /\ FetchesAreShared'
<1>. DEFINE rec == Settled(e, outcome)
<1>1. fetch[e] \in FetchState
  BY DEF IInv, TypeOK
<1>2. 0 \in 0..(MaxFailures - 1)
  BY VerifiedStoreAssumption
<1>3. rec \in FetchState
  BY <1>1, <1>2 DEF Settled, FetchState
<1>4. /\ rec.pc = "finally" /\ rec.outcome = outcome
      /\ rec.key = fetch[e].key /\ rec.refs = fetch[e].refs /\ rec.aborted = fetch[e].aborted
  BY <1>1 DEF Settled, FetchState
<1>. HIDE DEF rec
<1>. QED
  BY <1>3, <1>4, FetchStepInv DEF rec

LEMMA AttemptEndsStep ==
  ASSUME IInv, NEW e \in Fetches, fetch[e].pc \in Running, AttemptEnds(e),
         UNCHANGED <<inflight, reader, signal>>
  PROVE  /\ fetch' \in [Fetches -> FetchState]
         /\ ReadingInv' /\ MapInv' /\ AbortInv' /\ FetchesAreShared'
<1>1. CASE fetch' = [fetch EXCEPT ![e] = Settled(e, "failed")]
  BY <1>1, SettledStep DEF Outcomes
<1>2. CASE fetch[e].aborted /\ fetch' = [fetch EXCEPT ![e] = Settled(e, "aborted")]
  BY <1>2, SettledStep DEF Outcomes
<1>. QED
  BY <1>1, <1>2 DEF AttemptEnds

LEMMA AttemptFailsStep ==
  ASSUME IInv, NEW e \in Fetches, fetch[e].pc \in Running, AttemptFails(e),
         UNCHANGED <<inflight, reader, signal>>
  PROVE  /\ fetch' \in [Fetches -> FetchState]
         /\ ReadingInv' /\ MapInv' /\ AbortInv' /\ FetchesAreShared'
<1>. DEFINE failures == fetch[e].failures + 1
<1>1. CASE AttemptEnds(e)
  BY <1>1, AttemptEndsStep
<1>2. CASE failures < MaxFailures /\ AttemptGoesOn(e, failures)
  <2>1. PICK pc \in {"requested", "locating"} :
          fetch' = [fetch EXCEPT ![e] = [@ EXCEPT !.pc = pc, !.failures = failures, !.seen = 0]]
    BY <1>2 DEF AttemptGoesOn
  <2>. DEFINE rec == [fetch[e] EXCEPT !.pc = pc, !.failures = failures, !.seen = 0]
  <2>2. fetch[e] \in FetchState /\ fetch \in [Fetches -> FetchState]
    BY DEF IInv, TypeOK
  <2>3. failures \in 0..(MaxFailures - 1)
    BY <1>2, <2>2, VerifiedStoreAssumption DEF FetchState
  <2>4. pc \in Running
    BY DEF Running
  <2>5. /\ rec \in FetchState /\ rec.pc = pc
        /\ rec.key = fetch[e].key /\ rec.refs = fetch[e].refs /\ rec.aborted = fetch[e].aborted
    BY <2>2, <2>3, <2>4 DEF FetchState
  <2>6. fetch' = [fetch EXCEPT ![e] = rec]
    BY <2>1, <2>2
  <2>7. rec.pc # "finally"
    BY <2>5
  <2>. HIDE DEF rec
  <2>. QED
    BY <2>4, <2>5, <2>6, <2>7, FetchStepInv
<1>. QED
  BY <1>1, <1>2 DEF AttemptFails

LEMMA JudgedType ==
  ASSUME TypeOK, NEW e \in Fetches, NEW wrong \in BOOLEAN, Judged(e, wrong)
  PROVE  stats' \in [verified: Nat, rejected: Nat]
<1>1. PICK n \in {0, 1} : stats' = [stats EXCEPT !.rejected = @ + n]
  BY DEF Judged
<1>2. stats \in [verified: Nat, rejected: Nat] /\ stats.rejected + n \in Nat
  BY DEF TypeOK
<1>. QED
  BY <1>1, <1>2

LEMMA ProgressInv ==
  ASSUME IInv, NEW e \in Fetches, Progress(e)
  PROVE  IInv'
<1>. USE DEF IInv
<1>1. fetch[e] \in FetchState /\ fetch[e].key \in Keys
  BY DEF TypeOK, FetchState
<1>2. CASE Locate(e)
  <2>1. UNCHANGED <<storeVars, inflight, reader, signal, reads>>
    BY <1>2 DEF Locate, readerVars
  <2>2. fetch[e].pc \in Running
    BY <1>2 DEF Locate, Running
  <2>3. CASE fetch' = [fetch EXCEPT ![e] = [@ EXCEPT !.pc = "requested"]]
    <3>. DEFINE rec == [fetch[e] EXCEPT !.pc = "requested"]
    <3>1. /\ rec \in FetchState /\ rec.pc = "requested"
          /\ rec.key = fetch[e].key /\ rec.refs = fetch[e].refs
          /\ rec.aborted = fetch[e].aborted
      BY <1>1 DEF FetchState, Running
    <3>2. fetch' = [fetch EXCEPT ![e] = rec]
      BY <2>3 DEF TypeOK
    <3>3. rec.pc \in Running /\ rec.pc # "finally"
      BY <3>1 DEF Running
    <3>. HIDE DEF rec
    <3>. QED
      BY <2>1, <2>2, <3>1, <3>2, <3>3, FetchStepInv DEF TypeOK, storeVars
  <2>4. CASE AttemptEnds(e)
    BY <2>1, <2>2, <2>4, AttemptEndsStep DEF TypeOK, storeVars
  <2>. QED
    BY <1>2, <2>3, <2>4 DEF Locate
<1>3. CASE RequestFails(e)
  <2>1. stats' \in [verified: Nat, rejected: Nat]
    BY <1>3, JudgedType DEF RequestFails
  <2>. QED
    BY <1>3, <2>1, AttemptFailsStep DEF RequestFails, TypeOK, Running, readerVars
<1>4. CASE Receive(e)
  <2>. DEFINE rec == [fetch[e] EXCEPT !.pc = "checking", !.seen = stats.verified]
  <2>1. /\ rec \in FetchState /\ rec.pc = "checking"
        /\ rec.key = fetch[e].key /\ rec.refs = fetch[e].refs
        /\ rec.aborted = fetch[e].aborted
    BY <1>1 DEF FetchState, Running, TypeOK
  <2>2. fetch' = [fetch EXCEPT ![e] = rec] /\ fetch[e].pc \in Running
    BY <1>4 DEF Receive, TypeOK, Running
  <2>3. rec.pc \in Running /\ rec.pc # "finally"
    BY <2>1 DEF Running
  <2>4. UNCHANGED <<storeVars, inflight, reader, signal, reads>>
    BY <1>4 DEF Receive, readerVars
  <2>. HIDE DEF rec
  <2>. QED
    BY <2>1, <2>2, <2>3, <2>4, FetchStepInv DEF TypeOK, storeVars
<1>5. CASE CheckPasses(e)
  <2>1. UNCHANGED <<inflight, reader, signal, reads>> /\ fetch[e].pc \in Running
    BY <1>5 DEF CheckPasses, readerVars, Running
  <2>2. cache' \in Seq(Keys)
    BY <1>1, <1>5, PutType DEF CheckPasses
  <2>3. Hashes[fetch[e].key] \in Nat /\ fetch[e].seen \in Nat
    BY <1>1, VerifiedStoreAssumption DEF FetchState
  <2>4. stats' \in [verified: Nat, rejected: Nat] /\ passed' \in Nat
    <3>1. stats \in [verified: Nat, rejected: Nat] /\ passed \in Nat
      BY DEF TypeOK
    <3>2. stats' = [stats EXCEPT !.verified = fetch[e].seen + Hashes[fetch[e].key]]
      BY <1>5 DEF CheckPasses
    <3>3. passed' = passed + Hashes[fetch[e].key]
      BY <1>5 DEF CheckPasses
    <3>. QED
      BY <2>3, <3>1, <3>2, <3>3
  <2>5. /\ fetch' \in [Fetches -> FetchState]
        /\ ReadingInv' /\ MapInv' /\ AbortInv' /\ FetchesAreShared'
    BY <1>5, <2>1, SettledStep DEF CheckPasses, Outcomes
  <2>. QED
    BY <2>1, <2>2, <2>4, <2>5 DEF TypeOK
<1>6. CASE CheckFails(e)
  <2>1. stats' \in [verified: Nat, rejected: Nat]
    BY <1>6, JudgedType DEF CheckFails
  <2>. QED
    BY <1>6, <2>1, AttemptFailsStep DEF CheckFails, TypeOK, Running, readerVars
<1>7. CASE Clean(e)
  <2>1. /\ UNCHANGED <<storeVars, reader, signal, reads>>
        /\ fetch[e].pc = "finally"
        /\ fetch' = [fetch EXCEPT ![e] = [@ EXCEPT !.pc = "settled"]]
        /\ inflight' = [inflight EXCEPT ![fetch[e].key] = IF @ = e THEN NoFetch ELSE @]
    BY <1>7 DEF Clean, Abandon, readerVars
  <2>2. [fetch[e] EXCEPT !.pc = "settled"] \in FetchState
    BY <1>1 DEF FetchState
  <2>3. fetch' \in [Fetches -> FetchState]
    BY <2>1, <2>2 DEF TypeOK
  <2>4. TypeOK'
    <3>1. inflight' \in [Keys -> Fetches \cup {NoFetch}]
      BY <1>1, <2>1 DEF TypeOK
    <3>. QED
      BY <2>1, <2>3, <3>1 DEF TypeOK, storeVars
  <2>5. /\ \A f \in Fetches : f # e => fetch'[f] = fetch[f]
        /\ fetch'[e].pc = "settled" /\ fetch'[e].outcome = fetch[e].outcome
    BY <1>1, <2>1 DEF TypeOK, FetchState
  <2>6. \A f \in Fetches : Waiting(f)' = Waiting(f)
    BY <2>1 DEF Waiting
  <2>7. ~Live(e)' /\ \A f \in Fetches : f # e => (Live(f)' <=> Live(f))
    BY <2>5 DEF Live, Running
  <2>8. \A k \in Keys : inflight'[k] # NoFetch => inflight'[k] = inflight[k] /\ inflight'[k] # e
    <3>. SUFFICES ASSUME NEW k \in Keys, inflight'[k] # NoFetch
                  PROVE  inflight'[k] = inflight[k] /\ inflight'[k] # e
      OBVIOUS
    <3>1. CASE k = fetch[e].key
      BY <2>1, <3>1 DEF TypeOK
    <3>2. CASE k # fetch[e].key
      BY <2>1, <3>2 DEF TypeOK, MapInv
    <3>. QED
      BY <3>1, <3>2
  <2>9. MapInv'
    BY <2>5, <2>7, <2>8 DEF MapInv, TypeOK
  <2>10. AbortInv'
    <3>1. fetch[e].outcome = "aborted" => Waiting(e) = {}
      BY <2>1 DEF AbortInv
    <3>2. "settled" \notin Running \cup {"finally"}
      BY DEF Running
    <3>. QED
      BY <2>5, <2>6, <3>1, <3>2 DEF AbortInv
  <2>11. FetchesAreShared'
    <3>. SUFFICES ASSUME NEW f \in Fetches, Live(f)'
                  PROVE  /\ inflight'[fetch'[f].key] = f
                         /\ fetch'[f].refs = Cardinality(Waiting(f)')
                         /\ Waiting(f)' # {}
      BY DEF FetchesAreShared
    <3>1. f # e /\ Live(f)
      BY <2>7
    <3>2. inflight'[fetch[f].key] = inflight[fetch[f].key]
      BY <2>1, <3>1 DEF FetchesAreShared, TypeOK, FetchState
    <3>. QED
      BY <2>5, <2>6, <3>1, <3>2 DEF FetchesAreShared
  <2>12. ReadingInv'
    BY <2>1 DEF ReadingInv
  <2>. QED
    BY <2>4, <2>9, <2>10, <2>11, <2>12
<1>. QED
  BY <1>2, <1>3, <1>4, <1>5, <1>6, <1>7 DEF Progress

-----------------------------------------------------------------------------
(* Steps of a reader.                                                       *)

\* A reader that was not reading and does not start to: nobody awaits anything
\* else than before.
LEMMA OverStep ==
  ASSUME IInv, NEW r \in Readers, reader[r].pc # "reading", NEW outcome \in Outcomes,
         reader' = [reader EXCEPT ![r] = Over(outcome)],
         NEW b \in BOOLEAN, signal' = [signal EXCEPT ![r] = b],
         UNCHANGED <<fetch, inflight>>
  PROVE  /\ reader' \in [Readers -> [pc: {"idle", "reading"} \cup Outcomes,
                                     at: Fetches \cup {NoFetch}]]
         /\ signal' \in [Readers -> BOOLEAN]
         /\ ReadingInv' /\ MapInv' /\ AbortInv' /\ FetchesAreShared'
<1>. USE DEF IInv
<1>1. /\ reader' \in [Readers -> [pc: {"idle", "reading"} \cup Outcomes,
                                  at: Fetches \cup {NoFetch}]]
      /\ signal' \in [Readers -> BOOLEAN]
  BY DEF TypeOK, Over
<1>2. /\ \A q \in Readers : q # r => reader'[q] = reader[q] /\ signal'[q] = signal[q]
      /\ reader'[r].pc # "reading"
  BY DEF TypeOK, Over, Outcomes
<1>3. \A e \in Fetches : Waiting(e)' = Waiting(e)
  BY <1>2 DEF Waiting
<1>4. ReadingInv'
  BY <1>2 DEF ReadingInv
<1>5. MapInv' /\ AbortInv' /\ FetchesAreShared'
  BY <1>3 DEF MapInv, AbortInv, FetchesAreShared, Live
<1>. QED
  BY <1>1, <1>4, <1>5

LEMMA AwaitWaiting ==
  ASSUME TypeOK, NEW r \in Readers, NEW e \in Fetches, reader[r].pc # "reading", Await(r, e)
  PROVE  /\ reader' \in [Readers -> [pc: {"idle", "reading"} \cup Outcomes,
                                     at: Fetches \cup {NoFetch}]]
         /\ signal' \in [Readers -> BOOLEAN]
         /\ reader'[r].at = e
         /\ \A q \in Readers : q # r => reader'[q] = reader[q]
         /\ Waiting(e)' = Waiting(e) \cup {r}
         /\ r \notin Waiting(e)
         /\ \A f \in Fetches : f # e => Waiting(f)' = Waiting(f)
<1>1. /\ reader' \in [Readers -> [pc: {"idle", "reading"} \cup Outcomes,
                                  at: Fetches \cup {NoFetch}]]
      /\ signal' \in [Readers -> BOOLEAN]
  BY DEF TypeOK, Await
<1>2. /\ reader'[r].pc = "reading" /\ reader'[r].at = e /\ ~signal'[r]
      /\ \A q \in Readers : q # r => reader'[q] = reader[q] /\ signal'[q] = signal[q]
  BY DEF TypeOK, Await
<1>. QED
  BY <1>1, <1>2 DEF Waiting

LEMMA ReadsType ==
  ASSUME TypeOK, NEW r \in Readers, Reads(r)
  PROVE  reads' \in [Readers -> Nat] /\ reader[r].pc # "reading"
BY DEF TypeOK, Reads

LEMMA JoinInv ==
  ASSUME IInv, NEW r \in Readers, Join(r)
  PROVE  IInv'
<1>. USE DEF IInv
<1>1. Key[r] \in Keys
  BY VerifiedStoreAssumption
<1>2. PICK e \in Fetches :
      /\ e = inflight[Key[r]]
      /\ reads' \in [Readers -> Nat] /\ reader[r].pc # "reading"
      /\ fetch' = [fetch EXCEPT ![e].refs = @ + 1]
      /\ Await(r, e)
      /\ UNCHANGED <<storeVars, inflight>>
  BY <1>1, ReadsType DEF Join, TypeOK
<1>3. Live(e)
  BY <1>1, <1>2, VerifiedStoreAssumption DEF MapInv
<1>4. fetch \in [Fetches -> FetchState] /\ fetch[e] \in FetchState /\ fetch[e].refs + 1 \in Int
  BY <1>2 DEF TypeOK, FetchState
<1>5. fetch' \in [Fetches -> FetchState]
  BY <1>2, <1>4 DEF FetchState
<1>6. /\ \A f \in Fetches : f # e => fetch'[f] = fetch[f]
      /\ fetch'[e].pc = fetch[e].pc /\ fetch'[e].key = fetch[e].key
      /\ fetch'[e].aborted = fetch[e].aborted /\ fetch'[e].outcome = fetch[e].outcome
      /\ fetch'[e].refs = fetch[e].refs + 1
  BY <1>2, <1>4 DEF FetchState
<1>7. TypeOK'
  BY <1>2, <1>5, AwaitWaiting DEF TypeOK, storeVars
<1>8. /\ Waiting(e)' = Waiting(e) \cup {r} /\ r \notin Waiting(e)
      /\ \A f \in Fetches : f # e => Waiting(f)' = Waiting(f)
      /\ reader'[r].at = e /\ \A q \in Readers : q # r => reader'[q] = reader[q]
  <2>1. TypeOK /\ e \in Fetches /\ reader[r].pc # "reading" /\ Await(r, e)
    BY <1>2
  <2>. QED
    BY <2>1, AwaitWaiting
<1>9. \A f \in Fetches : Live(f)' <=> Live(f)
  BY <1>6 DEF Live
<1>10. MapInv'
  BY <1>2, <1>6, <1>9 DEF MapInv, TypeOK
<1>11. AbortInv'
  <2>1. ~fetch[e].aborted /\ fetch[e].pc # "settled"
    BY <1>3 DEF Live, Running
  <2>. QED
    BY <1>6, <1>8, <2>1 DEF AbortInv
<1>12. FetchesAreShared'
  <2>1. Cardinality(Waiting(e)') = Cardinality(Waiting(e)) + 1
    BY <1>8, WaitingFinite, FS_AddElement
  <2>2. fetch'[e].refs = Cardinality(Waiting(e)') /\ Waiting(e)' # {}
    BY <1>2, <1>3, <1>6, <1>8, <2>1 DEF FetchesAreShared
  <2>. SUFFICES ASSUME NEW f \in Fetches, Live(f)'
                PROVE  /\ inflight'[fetch'[f].key] = f
                       /\ fetch'[f].refs = Cardinality(Waiting(f)')
                       /\ Waiting(f)' # {}
    BY DEF FetchesAreShared
  <2>3. inflight' = inflight /\ Live(f)
    BY <1>2, <1>9
  <2>4. CASE f = e
    BY <1>6, <2>2, <2>3, <2>4 DEF FetchesAreShared
  <2>5. CASE f # e
    BY <1>6, <1>8, <2>3, <2>5 DEF FetchesAreShared
  <2>. QED
    BY <2>4, <2>5
<1>13. ReadingInv'
  BY <1>2, <1>8 DEF ReadingInv
<1>. QED
  BY <1>7, <1>10, <1>11, <1>12, <1>13

LEMMA OpenInv ==
  ASSUME IInv, NEW r \in Readers, Open(r)
  PROVE  IInv'
<1>. USE DEF IInv
<1>1. Key[r] \in Keys
  BY VerifiedStoreAssumption
<1>2. /\ inflight[Key[r]] = NoFetch /\ UNCHANGED storeVars
      /\ reads' \in [Readers -> Nat] /\ reader[r].pc # "reading"
  BY ReadsType DEF Open
<1>3. PICK e \in Fetches, pc \in {"requested", "locating", "finally"} :
        /\ Free(e)
        /\ fetch' = [fetch EXCEPT ![e] = Opened(Key[r], pc)]
        /\ inflight' = [inflight EXCEPT ![Key[r]] = e]
        /\ Await(r, e)
  BY DEF Open
<1>4. /\ Opened(Key[r], pc) \in FetchState
      /\ Opened(Key[r], pc).pc = pc /\ Opened(Key[r], pc).key = Key[r]
      /\ Opened(Key[r], pc).refs = 1 /\ ~Opened(Key[r], pc).aborted
      /\ Opened(Key[r], pc).outcome = "failed"
  BY <1>1, VerifiedStoreAssumption DEF Opened, FetchState, Running, Outcomes
<1>5. /\ fetch' \in [Fetches -> FetchState]
      /\ \A f \in Fetches : f # e => fetch'[f] = fetch[f]
      /\ fetch'[e] = Opened(Key[r], pc)
  BY <1>3, <1>4 DEF TypeOK
<1>6. inflight' \in [Keys -> Fetches \cup {NoFetch}]
  BY <1>3 DEF TypeOK
<1>7. TypeOK'
  BY <1>2, <1>3, <1>5, <1>6, AwaitWaiting DEF TypeOK, storeVars
<1>8. /\ Waiting(e)' = Waiting(e) \cup {r} /\ r \notin Waiting(e)
      /\ \A f \in Fetches : f # e => Waiting(f)' = Waiting(f)
      /\ reader'[r].at = e /\ \A q \in Readers : q # r => reader'[q] = reader[q]
  BY <1>2, <1>3, AwaitWaiting
<1>9. Waiting(e) = {} /\ ~Live(e)
  BY <1>3 DEF Free, Waiting, Live, Running
<1>10. Live(e)' /\ \A f \in Fetches : f # e => (Live(f)' <=> Live(f))
  BY <1>3, <1>4, <1>5 DEF Live, Running
<1>11. \A k \in Keys : inflight'[k] = IF k = Key[r] THEN e ELSE inflight[k]
  BY <1>3 DEF TypeOK
<1>12. MapInv'
  <2>. SUFFICES ASSUME NEW k \in Keys, inflight'[k] # NoFetch
                PROVE  Live(inflight[k])' /\ fetch'[inflight'[k]].key = k
    BY DEF MapInv
  <2>1. CASE k = Key[r]
    BY <1>4, <1>5, <1>10, <1>11, <2>1 DEF Live
  <2>2. CASE k # Key[r]
    <3>1. inflight'[k] = inflight[k] /\ inflight[k] \in Fetches
      BY <1>11, <2>2 DEF TypeOK
    <3>2. Live(inflight[k]) /\ fetch[inflight[k]].key = k
      BY <3>1 DEF MapInv
    <3>3. inflight[k] # e
      BY <1>9, <3>2
    <3>. QED
      BY <1>5, <1>10, <3>1, <3>2, <3>3 DEF Live
  <2>. QED
    BY <2>1, <2>2
<1>13. AbortInv'
  <2>1. /\ fetch'[e].pc # "settled" /\ ~fetch'[e].aborted /\ fetch'[e].outcome # "aborted"
    BY <1>4, <1>5
  <2>. QED
    BY <1>5, <1>8, <2>1 DEF AbortInv
<1>14. FetchesAreShared'
  <2>1. Cardinality(Waiting(e)') = 1 /\ Waiting(e)' # {}
    <3>1. Waiting(e)' = {r}
      BY <1>8, <1>9
    <3>. QED
      BY <3>1, FS_Singleton
  <2>2. \A f \in Fetches : f # e /\ Live(f) => fetch[f].key # Key[r]
    BY <1>2 , VerifiedStoreAssumption DEF FetchesAreShared
  <2>3. \A f \in Fetches : fetch[f].key \in Keys
    BY DEF TypeOK, FetchState
  <2>. SUFFICES ASSUME NEW f \in Fetches, Live(f)'
                PROVE  /\ inflight'[fetch'[f].key] = f
                       /\ fetch'[f].refs = Cardinality(Waiting(f)')
                       /\ Waiting(f)' # {}
    BY DEF FetchesAreShared
  <2>4. CASE f = e
    BY <1>1, <1>4, <1>5, <1>11, <2>1, <2>4
  <2>5. CASE f # e
    BY <1>5, <1>8, <1>10, <1>11, <2>2, <2>3, <2>5 DEF FetchesAreShared
  <2>. QED
    BY <2>4, <2>5
<1>15. ReadingInv'
  BY <1>8 DEF ReadingInv
<1>. QED
  BY <1>7, <1>12, <1>13, <1>14, <1>15

LEMMA RefuseInv ==
  ASSUME IInv, NEW r \in Readers, Refuse(r)
  PROVE  IInv'
<1>1. reads' \in [Readers -> Nat] /\ reader[r].pc # "reading"
  BY ReadsType DEF Refuse, IInv
<1>. QED
  BY <1>1, OverStep DEF Refuse, IInv, TypeOK, storeVars, Outcomes

LEMMA HitInv ==
  ASSUME IInv, NEW r \in Readers, Hit(r)
  PROVE  IInv'
<1>1. reads' \in [Readers -> Nat] /\ reader[r].pc # "reading"
  BY ReadsType DEF Hit, IInv
<1>2. cache' \in Seq(Keys)
  BY RefreshType, VerifiedStoreAssumption DEF Hit, IInv
<1>. QED
  BY <1>1, <1>2, OverStep DEF Hit, IInv, TypeOK, Outcomes

\* The one step that cancels a fetch: nobody is left waiting for it.
LEMMA AbortStepInv ==
  ASSUME IInv, NEW r \in Readers, Abort(r)
  PROVE  IInv'
<1>. USE DEF IInv
<1>1. PICK e \in Fetches : e = reader[r].at
  BY DEF Abort, ReadingInv
<1>2. /\ reader[r].pc = "reading" /\ ~signal[r]
      /\ signal' = [signal EXCEPT ![r] = TRUE]
      /\ UNCHANGED <<storeVars, reader, reads>>
      /\ \/ /\ fetch[e].refs = 1
            /\ fetch' = [fetch EXCEPT ![e].refs = 0, ![e].aborted = TRUE]
            /\ inflight' = [inflight EXCEPT ![fetch[e].key] = IF @ = e THEN NoFetch ELSE @]
         \/ /\ fetch[e].refs # 1
            /\ fetch' = [fetch EXCEPT ![e].refs = @ - 1]
            /\ UNCHANGED inflight
  BY <1>1 DEF Abort, Abandon
<1>3. fetch \in [Fetches -> FetchState] /\ fetch[e] \in FetchState
      /\ fetch[e].key \in Keys /\ fetch[e].refs \in Int
  BY DEF TypeOK, FetchState
<1>4. /\ fetch' \in [Fetches -> FetchState]
      /\ \A f \in Fetches : f # e => fetch'[f] = fetch[f]
      /\ fetch'[e].pc = fetch[e].pc /\ fetch'[e].key = fetch[e].key
      /\ fetch'[e].outcome = fetch[e].outcome
      /\ fetch'[e].refs = fetch[e].refs - 1
      /\ fetch'[e].aborted = (fetch[e].refs = 1 \/ fetch[e].aborted)
  <2>1. CASE fetch[e].refs = 1
    BY <1>2, <1>3, <2>1 DEF FetchState
  <2>2. CASE fetch[e].refs # 1
    <3>1. fetch[e].refs - 1 \in Int
      BY <1>3
    <3>. QED
      BY <1>2, <1>3, <2>2, <3>1 DEF FetchState
  <2>. QED
    BY <2>1, <2>2
<1>5. inflight' \in [Keys -> Fetches \cup {NoFetch}]
  BY <1>2, <1>3 DEF TypeOK
<1>6. signal' \in [Readers -> BOOLEAN]
  BY <1>2 DEF TypeOK
<1>7. TypeOK'
  BY <1>2, <1>4, <1>5, <1>6 DEF TypeOK, storeVars
<1>8. /\ Waiting(e)' = Waiting(e) \ {r} /\ r \in Waiting(e)
      /\ \A f \in Fetches : f # e => Waiting(f)' = Waiting(f)
  <2>1. \A q \in Readers : signal'[q] = IF q = r THEN TRUE ELSE signal[q]
    BY <1>2 DEF TypeOK
  <2>. QED
    BY <1>1, <1>2, <2>1 DEF Waiting
<1>9. /\ IsFiniteSet(Waiting(e)') /\ Cardinality(Waiting(e)') = Cardinality(Waiting(e)) - 1
  BY <1>8, WaitingFinite, FS_RemoveElement
<1>10. \A f \in Fetches : f # e => (Live(f)' <=> Live(f))
  BY <1>4 DEF Live
<1>11. Live(e)' <=> Live(e) /\ fetch[e].refs # 1
  BY <1>4 DEF Live
<1>12. \A k \in Keys : /\ inflight'[k] \in {inflight[k], NoFetch}
                       /\ inflight[k] # e => inflight'[k] = inflight[k]
                       /\ fetch[e].refs # 1 => inflight'[k] = inflight[k]
  BY <1>2, <1>3 DEF TypeOK
<1>13. MapInv'
  <2>. SUFFICES ASSUME NEW k \in Keys, inflight'[k] # NoFetch
                PROVE  Live(inflight[k])' /\ fetch'[inflight'[k]].key = k
    BY DEF MapInv
  <2>1. inflight'[k] = inflight[k] /\ inflight[k] \in Fetches
    BY <1>12 DEF TypeOK
  <2>2. Live(inflight[k]) /\ fetch[inflight[k]].key = k
    BY <2>1 DEF MapInv
  <2>3. CASE inflight[k] = e
    <3>1. fetch[e].refs # 1
      BY <1>2, <2>1, <2>2, <2>3, VerifiedStoreAssumption DEF TypeOK
    <3>. QED
      BY <1>4, <1>11, <2>1, <2>2, <2>3, <3>1 DEF Live
  <2>4. CASE inflight[k] # e
    BY <1>4, <1>10, <2>1, <2>2, <2>4 DEF Live
  <2>. QED
    BY <2>3, <2>4
<1>14. AbortInv'
  <2>. SUFFICES ASSUME NEW f \in Fetches
                PROVE  /\ fetch'[f].pc \in Running \cup {"finally"} /\ fetch'[f].aborted
                            => Waiting(f)' = {}
                       /\ fetch'[f].pc = "finally" /\ fetch'[f].outcome = "aborted"
                            => fetch'[f].aborted
                       /\ fetch'[f].pc = "settled" /\ fetch'[f].outcome = "aborted"
                            => Waiting(f)' = {}
    BY DEF AbortInv
  <2>1. CASE f # e
    BY <1>4, <1>8, <2>1 DEF AbortInv
  <2>2. CASE f = e
    <3>1. fetch[e].pc \in Running \cup {"finally"} => ~fetch[e].aborted
      BY <1>8 DEF AbortInv
    <3>2. fetch[e].pc \in Running \cup {"finally"} /\ fetch[e].refs = 1 => Waiting(e)' = {}
      <4>1. SUFFICES ASSUME Live(e), fetch[e].refs = 1
                     PROVE  Waiting(e)' = {}
        BY <3>1 DEF Live
      <4>2. Cardinality(Waiting(e)) = 1
        BY <4>1 DEF FetchesAreShared
      <4>3. Cardinality(Waiting(e)') = 0
        BY <1>9, <4>2
      <4>. QED
        BY <1>9, <4>3, FS_EmptySet
    <3>3. fetch[e].pc = "finally" => fetch[e].outcome # "aborted"
      BY <3>1 DEF AbortInv
    <3>4. fetch[e].pc = "settled" => fetch[e].outcome # "aborted"
      BY <1>8 DEF AbortInv
    <3>. QED
      BY <1>4, <2>2, <3>1, <3>2, <3>3, <3>4
  <2>. QED
    BY <2>1, <2>2
<1>15. FetchesAreShared'
  <2>. SUFFICES ASSUME NEW f \in Fetches, Live(f)'
                PROVE  /\ inflight'[fetch'[f].key] = f
                       /\ fetch'[f].refs = Cardinality(Waiting(f)')
                       /\ Waiting(f)' # {}
    BY DEF FetchesAreShared
  <2>1. CASE f # e
    <3>1. Live(f) /\ fetch[f].key \in Keys
      BY <1>10, <2>1 DEF TypeOK, FetchState
    <3>2. inflight[fetch[f].key] = f
      BY <3>1 DEF FetchesAreShared
    <3>3. inflight'[fetch[f].key] = f
      BY <1>12, <2>1, <3>1, <3>2
    <3>. QED
      BY <1>4, <1>8, <2>1, <3>1, <3>3 DEF FetchesAreShared
  <2>2. CASE f = e
    <3>1. Live(e) /\ fetch[e].refs # 1
      BY <1>11, <2>2
    <3>2. fetch[e].refs = Cardinality(Waiting(e)) /\ inflight[fetch[e].key] = e
      BY <3>1 DEF FetchesAreShared
    <3>3. Cardinality(Waiting(e)') # 0
      BY <1>3, <1>9, <3>1, <3>2
    <3>4. Waiting(e)' # {}
      BY <3>3, FS_EmptySet
    <3>5. inflight'[fetch[e].key] = e
      BY <1>3, <1>12, <3>1, <3>2
    <3>. QED
      BY <1>4, <1>9, <2>2, <3>2, <3>4, <3>5
  <2>. QED
    BY <2>1, <2>2
<1>16. ReadingInv'
  BY <1>2 DEF ReadingInv
<1>. QED
  BY <1>7, <1>13, <1>14, <1>15, <1>16

LEMMA ResumeInv ==
  ASSUME IInv, NEW r \in Readers, Resume(r)
  PROVE  IInv'
<1>. USE DEF IInv
<1>1. PICK e \in Fetches : e = reader[r].at
  BY DEF Resume, ReadingInv
<1>2. PICK outcome \in Outcomes :
        /\ reader[r].pc = "reading" /\ fetch[e].pc = "settled"
        /\ reader' = [reader EXCEPT ![r] = Over(outcome)]
        /\ UNCHANGED <<storeVars, inflight, fetch, signal, reads>>
  <2>1. fetch[e].outcome \in Outcomes
    BY DEF TypeOK, FetchState
  <2>. QED
    BY <1>1, <2>1 DEF Resume, Outcomes
<1>3. TypeOK'
  BY <1>2 DEF TypeOK, Over, storeVars
<1>4. /\ \A q \in Readers : q # r => reader'[q] = reader[q]
      /\ reader'[r].pc # "reading"
  BY <1>2 DEF TypeOK, Over, Outcomes
<1>5. /\ \A f \in Fetches : f # e => Waiting(f)' = Waiting(f)
      /\ Waiting(e)' \subseteq Waiting(e)
  BY <1>1, <1>2, <1>4 DEF Waiting
<1>6. ReadingInv'
  BY <1>4 DEF ReadingInv
<1>7. \A f \in Fetches : Live(f)' <=> Live(f)
  BY <1>2 DEF Live
<1>8. ~Live(e)
  BY <1>2 DEF Live, Running
<1>9. MapInv'
  BY <1>2 DEF MapInv, Live
<1>10. AbortInv'
  BY <1>2, <1>5 DEF AbortInv, Running
<1>11. FetchesAreShared'
  BY <1>2, <1>5, <1>7, <1>8 DEF FetchesAreShared
<1>. QED
  BY <1>3, <1>6, <1>9, <1>10, <1>11

-----------------------------------------------------------------------------
(* The invariant and what follows from it.                                  *)

LEMMA InitInv == Init => IInv
<1>. SUFFICES ASSUME Init PROVE IInv
  OBVIOUS
<1>. DEFINE none == Opened(CHOOSE k \in Keys : TRUE, "settled")
<1>1. (CHOOSE k \in Keys : TRUE) \in Keys
  BY VerifiedStoreAssumption
<1>2. none \in FetchState /\ none.pc = "settled"
  BY <1>1, VerifiedStoreAssumption DEF Opened, FetchState, Outcomes
<1>3. fetch = [e \in Fetches |-> none]
  BY DEF Init
<1>. HIDE DEF none
<1>4. /\ fetch \in [Fetches -> FetchState]
      /\ \A e \in Fetches : fetch[e].pc = "settled"
  BY <1>2, <1>3
<1>5. TypeOK
  BY <1>4 DEF Init, TypeOK, Over
<1>6. \A e \in Fetches : ~Live(e)
  BY <1>4 DEF Live, Running
<1>7. \A r \in Readers : reader[r].pc # "reading"
  BY DEF Init, Over
<1>8. ReadingInv /\ FetchesAreShared
  BY <1>6, <1>7 DEF ReadingInv, FetchesAreShared
<1>9. AbortInv
  BY <1>4, <1>7 DEF AbortInv, Running, Waiting
<1>10. MapInv
  BY DEF MapInv, Init
<1>. QED
  BY <1>5, <1>8, <1>9, <1>10 DEF IInv

LEMMA StutterInv == IInv /\ UNCHANGED vars => IInv'
<1>. SUFFICES ASSUME IInv, UNCHANGED vars PROVE IInv'
  OBVIOUS
<1>1. \A e \in Fetches : Waiting(e)' = Waiting(e) /\ (Live(e)' <=> Live(e))
  BY DEF vars, Waiting, Live
<1>2. TypeOK' /\ ReadingInv' /\ MapInv'
  BY DEF vars, storeVars, IInv, TypeOK, ReadingInv, MapInv, Live
<1>3. AbortInv' /\ FetchesAreShared'
  BY <1>1 DEF vars, IInv, AbortInv, FetchesAreShared
<1>. QED
  BY <1>2, <1>3 DEF IInv

\* The invariant holds at the start and every step of the store keeps it.
THEOREM Invariance == Spec => []IInv
<1>1. IInv /\ [Next]_vars => IInv'
  <2>. SUFFICES ASSUME IInv, [Next]_vars PROVE IInv'
    OBVIOUS
  <2>1. ASSUME NEW r \in Readers, Start(r) PROVE IInv'
    BY <2>1, RefuseInv, HitInv, JoinInv, OpenInv DEF Start
  <2>2. ASSUME NEW r \in Readers, Abort(r) PROVE IInv'
    BY <2>2, AbortStepInv
  <2>3. ASSUME NEW r \in Readers, Resume(r) PROVE IInv'
    BY <2>3, ResumeInv
  <2>4. ASSUME NEW e \in Fetches, Progress(e) PROVE IInv'
    BY <2>4, ProgressInv
  <2>5. CASE UNCHANGED vars
    BY <2>5, StutterInv
  <2>. QED
    BY <2>1, <2>2, <2>3, <2>4, <2>5 DEF Next
<1>. QED
  BY InitInv, <1>1, PTL DEF Spec

\* The types are right in every state of the store.
THEOREM TypeCorrect == Spec => []TypeOK
<1>1. IInv => TypeOK
  BY DEF IInv
<1>. QED
  BY <1>1, Invariance, PTL

\* No fetch runs for nobody, no two for the same key, and each counts exactly
\* the readers that still want it (dedup, verified-store.ts).
THEOREM SharedFetches == Spec => []FetchesAreShared
<1>1. IInv => FetchesAreShared
  BY DEF IInv
<1>. QED
  BY <1>1, Invariance, PTL

-----------------------------------------------------------------------------
(* The refinement: every step of the store is a step of the contract of the *)
(* reader that takes it, or a step its readers do not see.                  *)

LEMMA ContractInit == Init => Contract!Init
<1>. SUFFICES ASSUME Init PROVE Contract!Init
  OBVIOUS
<1>1. [r \in Readers |-> reader[r].pc] = [r \in Readers |-> "idle"]
  BY DEF Init, Over
<1>. QED
  BY <1>1 DEF Init, Contract!Init

\* What the contract sees of a reader's step.
LEMMA StatusStep ==
  ASSUME TypeOK, NEW r \in Readers, NEW pc, NEW at,
         reader' = [reader EXCEPT ![r] = [pc |-> pc, at |-> at]]
  PROVE  [q \in Readers |-> reader'[q].pc] = [[q \in Readers |-> reader[q].pc] EXCEPT ![r] = pc]
<1>1. \A q \in Readers : reader'[q] = IF q = r THEN [pc |-> pc, at |-> at] ELSE reader[q]
  BY DEF TypeOK
<1>2. \A q \in Readers : reader'[q].pc = IF q = r THEN pc ELSE reader[q].pc
  BY <1>1
<1>. QED
  BY <1>2

LEMMA ContractStep ==
  ASSUME IInv, Next
  PROVE  Contract!Next \/ UNCHANGED Contract!vars
<1>. DEFINE status == [r \in Readers |-> reader[r].pc]
<1>. USE DEF IInv
<1>1. \A r \in Readers : status[r] = reader[r].pc
  OBVIOUS
<1>2. ASSUME NEW r \in Readers, Refuse(r) PROVE Contract!Begin(r)
  <2>1. [q \in Readers |-> reader'[q].pc] = [status EXCEPT ![r] = "aborted"]
    BY <1>2, StatusStep DEF Refuse, Over
  <2>. QED
    BY <1>1, <1>2, <2>1 DEF Refuse, Reads, Contract!Begin
<1>3. ASSUME NEW r \in Readers, Hit(r) PROVE Contract!Begin(r)
  <2>1. [q \in Readers |-> reader'[q].pc] = [status EXCEPT ![r] = "served"]
    BY <1>3, StatusStep DEF Hit, Over
  <2>. QED
    BY <1>1, <1>3, <2>1 DEF Hit, Reads, Contract!Begin
<1>4. ASSUME NEW r \in Readers, NEW e, Reads(r), Await(r, e) PROVE Contract!Begin(r)
  <2>1. [q \in Readers |-> reader'[q].pc] = [status EXCEPT ![r] = "reading"]
    BY <1>4, StatusStep DEF Await
  <2>. QED
    BY <1>1, <1>4, <2>1 DEF Await, Reads, Contract!Begin
<1>5. ASSUME NEW r \in Readers, Start(r) PROVE Contract!Begin(r)
  <2>1. CASE Join(r)
    <3>1. PICK e : e = inflight[Key[r]]
      OBVIOUS
    <3>. QED
      BY <1>4, <2>1, <3>1 DEF Join
  <2>2. CASE Open(r)
    BY <1>4, <2>2 DEF Open
  <2>. QED
    BY <1>2, <1>3, <1>5, <2>1, <2>2 DEF Start
<1>6. ASSUME NEW r \in Readers, Abort(r) PROVE Contract!Ask(r)
  BY <1>1, <1>6 DEF Abort, Contract!Ask
<1>7. ASSUME NEW r \in Readers, Resume(r) PROVE Contract!End(r)
  <2>1. PICK e \in Fetches : e = reader[r].at
    BY <1>7 DEF Resume, ReadingInv
  <2>2. fetch[e].pc = "settled" /\ reader[r].pc = "reading" /\ UNCHANGED signal
    BY <1>7, <2>1 DEF Resume
  <2>. DEFINE outcome == IF fetch[e].outcome = "served" /\ signal[r]
                         THEN "aborted" ELSE fetch[e].outcome
  <2>3. reader' = [reader EXCEPT ![r] = Over(outcome)]
    BY <1>7, <2>1 DEF Resume
  <2>4. fetch[e].outcome \in Outcomes
    BY DEF TypeOK, FetchState
  <2>5. fetch[e].outcome = "aborted" => signal[r]
    BY <2>1, <2>2 DEF AbortInv, Waiting
  <2>6. outcome \in Contract!Ended /\ (outcome = "aborted" => signal[r])
        /\ (outcome = "served" => ~signal[r])
    BY <2>4, <2>5 DEF Contract!Ended, Outcomes
  <2>7. [q \in Readers |-> reader'[q].pc] = [status EXCEPT ![r] = outcome]
    BY <2>3, StatusStep DEF Over
  <2>. HIDE DEF outcome
  <2>. QED
    BY <1>1, <2>2, <2>6, <2>7 DEF Contract!End
<1>8. ASSUME NEW e \in Fetches, Progress(e) PROVE UNCHANGED Contract!vars
  <2>1. UNCHANGED <<reader, signal>>
    BY <1>8 DEF Progress, Locate, RequestFails, Receive, CheckPasses, CheckFails, Clean,
                 readerVars
  <2>. QED
    BY <2>1 DEF Contract!vars
<1>. QED
  BY <1>5, <1>6, <1>7, <1>8 DEF Next, Contract!Next

\* A store keeps its readers' contract: each read ends as if its reader
\* fetched alone, and only its own signal aborts it.
THEOREM ReadersContract == Spec => KeepsContract
<1>1. IInv /\ [Next]_vars => [Contract!Next]_(Contract!vars)
  <2>1. UNCHANGED vars => UNCHANGED Contract!vars
    BY DEF vars, Contract!vars
  <2>. QED
    BY <2>1, ContractStep
<1>. QED
  BY <1>1, ContractInit, Invariance, PTL DEF Spec, Contract!Spec, KeepsContract

-----------------------------------------------------------------------------
(* The bytes of a set of keys: a sum, in no particular order.  What it comes  *)
(* to is shown by induction, as there is a least counterexample: a set with   *)
(* the fewest keys.                                                           *)

\* A set of naturals has a least one.
LEMMA LeastNat ==
  ASSUME NEW T \in SUBSET Nat, T # {}
  PROVE  \E m \in T : \A k \in T : m <= k
<1>1. PICK m \in T : \A k \in T : ~(<<k, m>> \in OpToRel(<, Nat))
  BY NatLessThanWellFounded, WFMin
<1>2. ASSUME NEW k \in T PROVE m <= k
  <2>1. <<k, m>> \in Nat \X Nat /\ ~(<<k, m>> \in OpToRel(<, Nat))
    BY <1>1
  <2>2. ~(k < m)
    BY <2>1 DEF OpToRel
  <2>. QED
    BY <2>2
<1>. QED
  BY <1>2

\* The sum as MapThenSumSet takes it: one element at a time, whichever CHOOSE says.
First(T) == CHOOSE k \in T : TRUE
Adds(f, S) == f = [T \in SUBSET S |-> IF T = {} THEN 0 ELSE Size[First(T)] + f[T \ {First(T)}]]
Total(S) == CHOOSE f : Adds(f, S)

LEMMA BytesIsTotal ==
  ASSUME NEW S
  PROVE  Bytes(S) = Total(S)[S]
BY DEF Bytes, MapThenSumSet, MapThenFoldSet, Total, Adds, First

\* A finite set without one of its elements is smaller.
LEMMA Smaller ==
  ASSUME NEW T, IsFiniteSet(T), NEW k \in T
  PROVE  /\ Cardinality(T) \in Nat /\ IsFiniteSet(T \ {k}) /\ Cardinality(T \ {k}) \in Nat
         /\ Cardinality(T \ {k}) < Cardinality(T)
<1>1. T \ {k} \in SUBSET T /\ T \ {k} # T
  OBVIOUS
<1>2. IsFiniteSet(T \ {k}) /\ Cardinality(T \ {k}) <= Cardinality(T) /\ Cardinality(T \ {k}) # Cardinality(T)
  BY <1>1, FS_Subset
<1>3. Cardinality(T) \in Nat /\ Cardinality(T \ {k}) \in Nat
  BY <1>2, FS_CardinalityType
<1>. QED
  BY <1>2, <1>3

\* Of the finite sets of keys with a property one has the fewest elements.
LEMMA LeastSet ==
  ASSUME NEW P \in SUBSET (SUBSET Keys), P # {}, \A T \in P : IsFiniteSet(T)
  PROVE  \E T \in P : \A U \in P : Cardinality(T) <= Cardinality(U)
<1> DEFINE sizes == {Cardinality(T) : T \in P}
<1>1. sizes \in SUBSET Nat /\ sizes # {}
  BY FS_CardinalityType
<1>2. PICK m \in sizes : \A n \in sizes : m <= n
  <2> HIDE DEF sizes
  <2>. QED
    BY <1>1, LeastNat
<1>. QED
  BY <1>2

\* Sums of the same set agree, whatever larger sets they are taken in.
LEMMA TotalUnique ==
  ASSUME NEW S, NEW R, NEW f, NEW g, Adds(f, S), Adds(g, R)
  PROVE  \A T \in SUBSET Keys : T \subseteq S /\ T \subseteq R /\ IsFiniteSet(T) => f[T] = g[T]
<1> DEFINE P == {T \in SUBSET Keys : T \subseteq S /\ T \subseteq R /\ IsFiniteSet(T) /\ f[T] # g[T]}
<1> SUFFICES ASSUME P # {} PROVE FALSE
  OBVIOUS
<1>1. PICK T \in P : \A U \in P : Cardinality(T) <= Cardinality(U)
  <2>1. P \in SUBSET (SUBSET Keys) /\ \A T \in P : IsFiniteSet(T)
    OBVIOUS
  <2> HIDE DEF P
  <2>. QED
    BY <2>1, LeastSet
<1> DEFINE k == First(T)
<1>2. /\ f[T] = IF T = {} THEN 0 ELSE Size[k] + f[T \ {k}]
      /\ g[T] = IF T = {} THEN 0 ELSE Size[k] + g[T \ {k}]
  <2>1. T \in SUBSET S /\ T \in SUBSET R
    OBVIOUS
  <2>. QED
    BY <2>1 DEF Adds
<1>3. T # {} /\ k \in T
  BY <1>2 DEF First
<1> HIDE DEF k
<1>4. T \ {k} \notin P
  <2>1. /\ Cardinality(T) \in Nat /\ Cardinality(T \ {k}) \in Nat /\ Cardinality(T \ {k}) < Cardinality(T)
    BY <1>3, Smaller
  <2>2. ~(Cardinality(T) <= Cardinality(T \ {k}))
    BY <2>1
  <2> HIDE DEF P
  <2>. QED
    BY <1>1, <2>2
<1>5. IsFiniteSet(T \ {k})
  BY <1>3, Smaller
<1>6. f[T \ {k}] = g[T \ {k}]
  BY <1>3, <1>4, <1>5
<1>. QED
  BY <1>2, <1>6

\* A finite set of keys has a sum.
LEMMA TotalExists ==
  ASSUME NEW S \in SUBSET Keys, IsFiniteSet(S)
  PROVE  \E f : Adds(f, S)
<1> DEFINE P == {T \in SUBSET Keys : IsFiniteSet(T) /\ ~\E f : Adds(f, T)}
<1> SUFFICES ASSUME P # {} PROVE FALSE
  OBVIOUS
<1>1. PICK T \in P : \A U \in P : Cardinality(T) <= Cardinality(U)
  <2>1. P \in SUBSET (SUBSET Keys) /\ \A T \in P : IsFiniteSet(T)
    OBVIOUS
  <2> HIDE DEF P
  <2>. QED
    BY <2>1, LeastSet
<1>2. ASSUME NEW U \in SUBSET T, U # T PROVE Adds(Total(U), U)
  <2>1. IsFiniteSet(U) /\ Cardinality(U) <= Cardinality(T) /\ Cardinality(U) # Cardinality(T)
    BY <1>2, FS_Subset
  <2>2. Cardinality(U) \in Nat /\ Cardinality(T) \in Nat
    BY <2>1, FS_CardinalityType
  <2>3. ~(Cardinality(T) <= Cardinality(U))
    BY <2>1, <2>2
  <2>4. U \notin P
    <3> HIDE DEF P
    <3>. QED
      BY <1>1, <2>3
  <2>5. \E f : Adds(f, U)
    BY <2>1, <2>4
  <2>. QED
    BY <2>5 DEF Total
<1> DEFINE rest(U) == U \ {First(U)}
           h == [U \in SUBSET T |-> IF U = {} THEN 0 ELSE Size[First(U)] + Total(rest(U))[rest(U)]]
<1>3. ASSUME NEW U \in SUBSET T, U # {} PROVE First(U) \in U /\ rest(U) \in SUBSET T /\ rest(U) # T /\ IsFiniteSet(rest(U))
  <2>1. First(U) \in U
    BY <1>3 DEF First
  <2>2. rest(U) \in SUBSET T
    OBVIOUS
  <2>. QED
    BY <2>1, <2>2, FS_Subset
<1>4. ASSUME NEW U \in SUBSET T, U # {} PROVE h[rest(U)] = Total(rest(U))[rest(U)]
  <2> DEFINE V == rest(U)
  <2>1. V \in SUBSET T /\ V # T /\ V \in SUBSET V
    BY <1>3, <1>4
  <2>2. Adds(Total(V), V)
    BY <1>2, <2>1
  <2> HIDE DEF V
  <2>3. Total(V)[V] = IF V = {} THEN 0 ELSE Size[First(V)] + Total(V)[rest(V)]
    BY <2>1, <2>2 DEF Adds
  <2>4. h[V] = IF V = {} THEN 0 ELSE Size[First(V)] + Total(rest(V))[rest(V)]
    BY <2>1
  <2>5. V # {} => Total(V)[rest(V)] = Total(rest(V))[rest(V)]
    <3> SUFFICES ASSUME V # {} PROVE Total(V)[rest(V)] = Total(rest(V))[rest(V)]
      OBVIOUS
    <3>1. rest(V) \in SUBSET T /\ rest(V) # T /\ IsFiniteSet(rest(V)) /\ rest(V) \subseteq V
      BY <1>3, <2>1
    <3>2. Adds(Total(rest(V)), rest(V))
      BY <1>2, <3>1
    <3>3. rest(V) \in SUBSET Keys
      BY <3>1
    <3> HIDE DEF rest
    <3>. QED
      BY <2>2, <3>1, <3>2, <3>3, TotalUnique
  <2>6. h[V] = Total(V)[V]
    <3> HIDE DEF h, rest
    <3>. QED
      BY <2>3, <2>4, <2>5
  <2>. QED
    BY <2>6 DEF V
<1>5. h = [U \in SUBSET T |-> IF U = {} THEN 0 ELSE Size[First(U)] + h[rest(U)]]
  <2> HIDE DEF rest
  <2>. QED
    BY <1>4
<1>6. Adds(h, T)
  BY <1>5 DEF Adds
<1>. QED
  BY <1>6

LEMMA BytesStep ==
  ASSUME NEW T \in SUBSET Keys, IsFiniteSet(T)
  PROVE  /\ T = {} => Bytes(T) = 0
         /\ T # {} => First(T) \in T /\ Bytes(T) = Size[First(T)] + Bytes(T \ {First(T)})
<1> DEFINE U == T \ {First(T)}
<1>1. Adds(Total(T), T)
  BY TotalExists DEF Total
<1>2. Bytes(T) = IF T = {} THEN 0 ELSE Size[First(T)] + Total(T)[U]
  BY <1>1, BytesIsTotal DEF Adds
<1>3. U \in SUBSET T /\ IsFiniteSet(U)
  BY FS_Subset
<1>4. Adds(Total(U), U)
  BY <1>3, TotalExists DEF Total
<1>5. Total(T)[U] = Bytes(U)
  <2> HIDE DEF U
  <2>. QED
    BY <1>1, <1>3, <1>4, BytesIsTotal, TotalUnique
<1>6. T # {} => First(T) \in T
  BY DEF First
<1>. QED
  BY <1>2, <1>5, <1>6

\* The order does not matter: any element may be taken out first.
LEMMA BytesWithout ==
  \A T \in SUBSET Keys : IsFiniteSet(T) =>
     /\ Bytes(T) \in Nat
     /\ \A k \in T : Bytes(T) = Size[k] + Bytes(T \ {k})
<1> DEFINE Fits(T) == Bytes(T) \in Nat /\ \A k \in T : Bytes(T) = Size[k] + Bytes(T \ {k})
           P == {T \in SUBSET Keys : IsFiniteSet(T) /\ ~Fits(T)}
<1> SUFFICES ASSUME P # {} PROVE FALSE
  OBVIOUS
<1>1. PICK T \in P : \A U \in P : Cardinality(T) <= Cardinality(U)
  <2>1. P \in SUBSET (SUBSET Keys) /\ \A T \in P : IsFiniteSet(T)
    OBVIOUS
  <2> HIDE DEF P
  <2>. QED
    BY <2>1, LeastSet
<1>2. T \in SUBSET Keys /\ IsFiniteSet(T) /\ ~Fits(T)
  OBVIOUS
<1>3. ASSUME NEW k \in T PROVE IsFiniteSet(T \ {k}) /\ Fits(T \ {k})
  <2>1. IsFiniteSet(T \ {k}) /\ ~(Cardinality(T) <= Cardinality(T \ {k}))
    BY <1>2, Smaller
  <2>2. T \ {k} \notin P
    <3> HIDE DEF P
    <3>. QED
      BY <1>1, <2>1
  <2>. QED
    BY <1>2, <2>1, <2>2
<1> HIDE DEF P
<1>4. T # {}
  BY <1>2, BytesStep
<1> DEFINE f == First(T)
<1>5. f \in T /\ Bytes(T) = Size[f] + Bytes(T \ {f})
  BY <1>2, <1>4, BytesStep
<1>6. \A k \in T : Size[k] \in Nat
  BY <1>2, VerifiedStoreAssumption
<1> HIDE DEF f
<1>7. Bytes(T) \in Nat
  <2>1. Bytes(T \ {f}) \in Nat /\ Size[f] \in Nat
    BY <1>3, <1>5, <1>6
  <2>. QED
    BY <1>5, <2>1
<1>8. ASSUME NEW k \in T, k # f PROVE Bytes(T) = Size[k] + Bytes(T \ {k})
  <2>1. k \in T \ {f} /\ f \in T \ {k} /\ (T \ {f}) \ {k} = (T \ {k}) \ {f}
    BY <1>5, <1>8
  <2>2. Bytes(T \ {f}) = Size[k] + Bytes((T \ {f}) \ {k}) /\ Bytes(T \ {f}) \in Nat
    BY <1>3, <1>5, <2>1
  <2>3. Bytes(T \ {k}) = Size[f] + Bytes((T \ {k}) \ {f}) /\ Bytes(T \ {k}) \in Nat
    BY <1>3, <2>1
  <2>4. IsFiniteSet((T \ {k}) \ {f}) /\ Cardinality((T \ {k}) \ {f}) < Cardinality(T)
    <3>1. IsFiniteSet(T \ {k}) /\ Cardinality(T \ {k}) < Cardinality(T) /\ Cardinality(T) \in Nat /\ Cardinality(T \ {k}) \in Nat
      BY <1>2, Smaller
    <3>2. IsFiniteSet((T \ {k}) \ {f}) /\ Cardinality((T \ {k}) \ {f}) < Cardinality(T \ {k}) /\ Cardinality((T \ {k}) \ {f}) \in Nat
      BY <2>1, <3>1, Smaller
    <3>. QED
      BY <3>1, <3>2
  <2>5. Bytes((T \ {k}) \ {f}) \in Nat
    <3> DEFINE V == (T \ {k}) \ {f}
    <3>1. V \in SUBSET Keys /\ IsFiniteSet(V) /\ Cardinality(V) < Cardinality(T) /\ Cardinality(V) \in Nat /\ Cardinality(T) \in Nat
      BY <1>2, <2>4, FS_CardinalityType
    <3>2. ~(Cardinality(T) <= Cardinality(V))
      <4> HIDE DEF V
      <4>. QED
        BY <3>1
    <3> HIDE DEF V, Fits
    <3>3. V \notin P
      BY <1>1, <3>2
    <3>4. Fits(V)
      BY <3>1, <3>3 DEF P
    <3>. QED
      BY <3>4 DEF Fits, V
  <2> DEFINE a == Bytes((T \ {k}) \ {f})
  <2>6. /\ Bytes(T \ {f}) = Size[k] + a /\ Bytes(T \ {k}) = Size[f] + a /\ a \in Nat
    BY <2>1, <2>2, <2>3, <2>5
  <2> HIDE DEF a
  <2>. QED
    BY <1>5, <1>6, <2>6
<1>. QED
  BY <1>2, <1>5, <1>7, <1>8

\* Sets without a common key add up.
LEMMA BytesOfUnion ==
  ASSUME NEW S \in SUBSET Keys, IsFiniteSet(S)
  PROVE  \A T \in SUBSET Keys : IsFiniteSet(T) /\ S \cap T = {} => Bytes(S \cup T) = Bytes(S) + Bytes(T)
<1> DEFINE P == {T \in SUBSET Keys : IsFiniteSet(T) /\ S \cap T = {} /\ Bytes(S \cup T) # Bytes(S) + Bytes(T)}
<1> SUFFICES ASSUME P # {} PROVE FALSE
  OBVIOUS
<1>1. PICK T \in P : \A U \in P : Cardinality(T) <= Cardinality(U)
  <2>1. P \in SUBSET (SUBSET Keys) /\ \A T \in P : IsFiniteSet(T)
    OBVIOUS
  <2> HIDE DEF P
  <2>. QED
    BY <2>1, LeastSet
<1>2. T \in SUBSET Keys /\ IsFiniteSet(T) /\ S \cap T = {} /\ Bytes(S \cup T) # Bytes(S) + Bytes(T)
  OBVIOUS
<1>3. IsFiniteSet(S \cup T) /\ Bytes(S) \in Nat
  BY <1>2, FS_Union, BytesWithout
<1>4. T # {}
  <2>1. Bytes({}) = 0
    BY FS_EmptySet, BytesStep
  <2>2. S \cup {} = S /\ Bytes(S) + 0 = Bytes(S)
    BY <1>3
  <2>. QED
    BY <1>2, <2>1, <2>2
<1>5. PICK k \in T : TRUE
  BY <1>4
<1> DEFINE U == T \ {k}
<1>6. IsFiniteSet(U) /\ ~(Cardinality(T) <= Cardinality(U)) /\ U \in SUBSET Keys /\ S \cap U = {}
  BY <1>2, Smaller
<1>7. U \notin P
  <2> HIDE DEF P, U
  <2>. QED
    BY <1>1, <1>6
<1>8. Bytes(S \cup U) = Bytes(S) + Bytes(U)
  <2> HIDE DEF U
  <2>. QED
    BY <1>6, <1>7
<1>9. Bytes(T) = Size[k] + Bytes(U) /\ Bytes(U) \in Nat
  BY <1>2, <1>5, <1>6, BytesWithout
<1>10. (S \cup T) \ {k} = S \cup U /\ k \in S \cup T /\ S \cup T \in SUBSET Keys
  BY <1>2, <1>5
<1>11. Bytes(S \cup T) = Size[k] + Bytes(S \cup U)
  BY <1>3, <1>10, BytesWithout
<1>12. Size[k] \in Nat
  BY <1>2, <1>5, VerifiedStoreAssumption
<1> HIDE DEF P, U
<1>. QED
  BY <1>2, <1>3, <1>8, <1>9, <1>11, <1>12

-----------------------------------------------------------------------------
(* The cache.                                                               *)

LEMMA KeysFinite ==
  ASSUME NEW seq \in Seq(Keys)
  PROVE  ToSet(seq) \in SUBSET Keys /\ IsFiniteSet(ToSet(seq))
<1>1. seq \in Surjection(1..Len(seq), ToSet(seq))
  BY DEF Surjection, ToSet
<1>2. IsFiniteSet(1..Len(seq))
  BY FS_Interval
<1>3. ToSet(seq) \in SUBSET Keys
  BY DEF ToSet
<1>. QED
  BY <1>1, <1>2, <1>3, FS_Surjection

\* A key that is used moves to the end.
LEMMA RefreshExact ==
  ASSUME TypeOK, CacheExact, NEW k \in Keys, Refresh(k), UNCHANGED cacheBytes
  PROVE  CacheExact'
<1>1. PICK i \in DOMAIN cache : cache[i] = k /\ cache' = Append(RemoveAt(cache, i), k)
  BY DEF Refresh
<1> DEFINE s == cache
           n == Len(s)
<1>2. s \in Seq(Keys) /\ n = Len(s) /\ n \in Nat /\ i \in 1..n /\ s[i] = k /\ IsInjective(s) /\ DOMAIN s = 1..n
  BY <1>1 DEF TypeOK, CacheExact
<1> HIDE DEF s, n
<1>3. /\ SubSeq(s, 1, i - 1) \in Seq(Keys) /\ Len(SubSeq(s, 1, i - 1)) = i - 1
      /\ \A j \in 1..(i - 1) : SubSeq(s, 1, i - 1)[j] = s[j]
  BY <1>2
<1>4. /\ SubSeq(s, i + 1, n) \in Seq(Keys) /\ Len(SubSeq(s, i + 1, n)) = n - i
      /\ \A j \in 1..(n - i) : SubSeq(s, i + 1, n)[j] = s[j + i]
  BY <1>2
<1> DEFINE rest == RemoveAt(s, i)
<1>5. /\ rest \in Seq(Keys) /\ Len(rest) = n - 1
      /\ \A j \in 1..(n - 1) : rest[j] = IF j < i THEN s[j] ELSE s[j + 1]
  <2>1. rest = SubSeq(s, 1, i - 1) \o SubSeq(s, i + 1, n)
    BY <1>2 DEF RemoveAt
  <2> HIDE DEF rest
  <2> DEFINE a == SubSeq(s, 1, i - 1)
             b == SubSeq(s, i + 1, n)
  <2>2. a \in Seq(Keys) /\ b \in Seq(Keys) /\ Len(a) = i - 1 /\ Len(b) = n - i
    BY <1>3, <1>4
  <2>3. (\A j \in 1..(i - 1) : a[j] = s[j]) /\ \A j \in 1..(n - i) : b[j] = s[j + i]
    BY <1>3, <1>4
  <2> HIDE DEF a, b
  <2>4. a \o b \in Seq(Keys) /\ Len(a \o b) = n - 1
    <3>1. a \o b \in Seq(Keys) /\ Len(a \o b) = Len(a) + Len(b)
      BY <2>2, ConcatProperties
    <3>2. (i - 1) + (n - i) = n - 1
      BY <1>2
    <3>. QED
      BY <2>2, <3>1, <3>2
  <2>5. \A j \in 1..(n - 1) : (a \o b)[j] = IF j < i THEN a[j] ELSE b[j - (i - 1)]
    BY <1>2, <2>2, ConcatProperties
  <2>6. ASSUME NEW j \in 1..(n - 1)
        PROVE  (a \o b)[j] = IF j < i THEN s[j] ELSE s[j + 1]
    <3>1. CASE j < i
      <4>1. j \in 1..(i - 1)
        BY <1>2, <3>1
      <4>. QED
        BY <2>3, <2>5, <3>1, <4>1
    <3>2. CASE ~(j < i)
      <4>1. j - (i - 1) \in 1..(n - i) /\ j - (i - 1) + i = j + 1
        BY <1>2, <3>2
      <4>. QED
        BY <2>3, <2>5, <3>2, <4>1
    <3>. QED
      BY <3>1, <3>2
  <2>. QED
    BY <2>1, <2>4, <2>6 DEF a, b
<1> HIDE DEF rest
<1> DEFINE t == Append(rest, k)
<1>6. /\ t \in Seq(Keys) /\ Len(t) = n /\ DOMAIN t = 1..n /\ t[n] = k
      /\ \A j \in 1..(n - 1) : t[j] = rest[j]
  BY <1>2, <1>5
<1> HIDE DEF t
<1> DEFINE from(j) == IF j = n THEN i ELSE IF j < i THEN j ELSE j + 1
<1>7. \A j \in 1..n : from(j) \in 1..n /\ t[j] = s[from(j)]
  <2> SUFFICES ASSUME NEW j \in 1..n PROVE from(j) \in 1..n /\ t[j] = s[from(j)]
    OBVIOUS
  <2>1. CASE j = n
    BY <1>2, <1>6, <2>1
  <2>2. CASE j # n
    <3>1. j \in 1..(n - 1)
      BY <1>2, <2>2
    <3>. QED
      BY <1>2, <1>5, <1>6, <2>2, <3>1
  <2>. QED
    BY <2>1, <2>2
<1>8. \A j, l \in 1..n : from(j) = from(l) => j = l
  BY <1>2
<1>9. \A m \in 1..n : \E j \in 1..n : from(j) = m
  <2> SUFFICES ASSUME NEW m \in 1..n PROVE \E j \in 1..n : from(j) = m
    OBVIOUS
  <2>1. CASE m = i
    <3>1. n \in 1..n /\ from(n) = m
      BY <1>2, <2>1
    <3>. QED
      BY <3>1
  <2>2. CASE m < i
    <3>1. from(m) = m
      BY <1>2, <2>2
    <3>. QED
      BY <3>1
  <2>3. CASE i < m
    <3>1. m - 1 \in 1..n /\ from(m - 1) = m
      BY <1>2, <2>3
    <3>. QED
      BY <3>1
  <2>. QED
    BY <1>2, <2>1, <2>2, <2>3
<1> HIDE DEF from
<1>10. IsInjective(t)
  BY <1>2, <1>6, <1>7, <1>8 DEF IsInjective
<1>11. ToSet(t) = ToSet(s)
  <2>1. \A j \in 1..n : t[j] \in ToSet(s)
    BY <1>2, <1>7 DEF ToSet
  <2>2. ASSUME NEW m \in 1..n PROVE s[m] \in ToSet(t)
    <3>1. PICK j \in 1..n : from(j) = m
      BY <1>9
    <3>. QED
      BY <1>6, <1>7, <3>1 DEF ToSet
  <2>. QED
    BY <1>2, <1>6, <2>1, <2>2 DEF ToSet
<1>12. cache' = t
  BY <1>1 DEF t, rest, s
<1>. QED
  BY <1>10, <1>11, <1>12 DEF CacheExact, Cached, s

\* What is put, and what goes for it.
LEMMA PutExact ==
  ASSUME TypeOK, CacheExact, NEW k \in Keys, Put(k)
  PROVE  CacheExact'
<1>1. CASE k \in Cached
  BY <1>1 DEF Put, CacheExact, Cached
<1>2. CASE k \notin Cached
  <2> DEFINE keys == Append(cache, k)
             len == Len(keys)
             Evicted(n) == SubSeq(keys, 1, n)
             Kept(n) == SubSeq(keys, n + 1, len)
             Rest(n) == cacheBytes + Size[k] - Bytes(ToSet(Evicted(n)))
  <2>1. PICK n \in 0..len : /\ n = len \/ Rest(n) <= MaxCacheBytes
                            /\ cache' = Kept(n) /\ cacheBytes' = Rest(n)
    BY <1>2 DEF Put
  <2>2. keys \in Seq(Keys) /\ len \in Nat /\ DOMAIN keys = 1..len /\ len = Len(cache) + 1 /\ keys[len] = k
        /\ \A i \in 1..(len - 1) : keys[i] = cache[i]
    BY DEF TypeOK
  <2>3. cache \in Seq(Keys) /\ IsInjective(cache) /\ cacheBytes = Bytes(Cached)
    BY DEF TypeOK, CacheExact
  <2> HIDE DEF keys
  <2>4. ToSet(keys) = Cached \cup {k}
    <3>1. DOMAIN cache = 1..(len - 1) /\ len \in 1..len
      BY <2>2, <2>3
    <3>2. \A i \in 1..len : i = len \/ i \in 1..(len - 1)
      BY <2>2
    <3>3. \A i \in 1..(len - 1) : i \in 1..len
      BY <2>2
    <3>. QED
      BY <2>2, <3>1, <3>2, <3>3 DEF ToSet, Cached
  <2>5. IsInjective(keys)
    <3> SUFFICES ASSUME NEW i \in 1..len, NEW j \in 1..len, keys[i] = keys[j], i # j PROVE FALSE
      BY <2>2 DEF IsInjective
    <3>1. DOMAIN cache = 1..(len - 1)
      BY <2>2, <2>3
    <3>2. \A m \in 1..(len - 1) : keys[m] # k
      BY <1>2, <2>2, <3>1 DEF Cached, ToSet
    <3>3. CASE i = len
      <4>1. j \in 1..(len - 1)
        BY <2>2, <3>3
      <4>. QED
        BY <2>2, <3>2, <3>3, <4>1
    <3>4. CASE j = len
      <4>1. i \in 1..(len - 1)
        BY <2>2, <3>4
      <4>. QED
        BY <2>2, <3>2, <3>4, <4>1
    <3>5. CASE i # len /\ j # len
      <4>1. i \in 1..(len - 1) /\ j \in 1..(len - 1)
        BY <2>2, <3>5
      <4>2. cache[i] = cache[j]
        BY <2>2, <4>1
      <4>. QED
        BY <2>3, <3>1, <4>1, <4>2 DEF IsInjective
    <3>. QED
      BY <3>3, <3>4, <3>5
  <2>6. /\ Evicted(n) \in Seq(Keys) /\ DOMAIN Evicted(n) = 1..n /\ \A i \in 1..n : Evicted(n)[i] = keys[i]
        /\ Kept(n) \in Seq(Keys) /\ DOMAIN Kept(n) = 1..(len - n) /\ \A i \in 1..(len - n) : Kept(n)[i] = keys[i + n]
    BY <2>2
  <2> DEFINE front == Evicted(n)
             back == Kept(n)
  <2>7. /\ front \in Seq(Keys) /\ DOMAIN front = 1..n /\ \A i \in 1..n : front[i] = keys[i]
        /\ back \in Seq(Keys) /\ DOMAIN back = 1..(len - n) /\ \A i \in 1..(len - n) : back[i] = keys[i + n]
    BY <2>6
  <2>8. cache' = back /\ cacheBytes' = cacheBytes + Size[k] - Bytes(ToSet(front)) /\ (n = len \/ cacheBytes' <= MaxCacheBytes)
    BY <2>1
  <2> HIDE DEF front, back, len
  <2>9. ToSet(front) \cap ToSet(back) = {}
    <3> SUFFICES ASSUME NEW i \in 1..n, NEW j \in 1..(len - n), front[i] = back[j] PROVE FALSE
      BY <2>7 DEF ToSet
    <3>1. i \in 1..len /\ j + n \in 1..len /\ i # j + n
      BY <2>2
    <3>2. keys[i] = keys[j + n]
      BY <2>7
    <3>. QED
      BY <2>2, <2>5, <3>1, <3>2 DEF IsInjective
  <2>10. ToSet(front) \cup ToSet(back) = ToSet(keys)
    <3>1. ASSUME NEW i \in 1..len PROVE keys[i] \in ToSet(front) \cup ToSet(back)
      <4>1. CASE i <= n
        <5>1. i \in 1..n
          BY <4>1
        <5>. QED
          BY <2>7, <5>1 DEF ToSet
      <4>2. CASE ~(i <= n)
        <5>1. i - n \in 1..(len - n) /\ (i - n) + n = i
          BY <2>2, <4>2
        <5>. QED
          BY <2>7, <5>1 DEF ToSet
      <4>. QED
        BY <4>1, <4>2
    <3>2. ASSUME NEW i \in 1..n PROVE front[i] \in ToSet(keys)
      <4>1. i \in 1..len
        BY <2>2
      <4>. QED
        BY <2>2, <2>7, <4>1 DEF ToSet
    <3>3. ASSUME NEW i \in 1..(len - n) PROVE back[i] \in ToSet(keys)
      <4>1. i + n \in 1..len
        BY <2>2
      <4>. QED
        BY <2>2, <2>7, <4>1 DEF ToSet
    <3>4. ToSet(keys) = {keys[i] : i \in 1..len} /\ ToSet(front) = {front[i] : i \in 1..n} /\ ToSet(back) = {back[i] : i \in 1..(len - n)}
      BY <2>2, <2>7 DEF ToSet
    <3>. QED
      BY <3>1, <3>2, <3>3, <3>4
  <2>11. /\ ToSet(front) \in SUBSET Keys /\ IsFiniteSet(ToSet(front))
         /\ ToSet(back) \in SUBSET Keys /\ IsFiniteSet(ToSet(back))
         /\ ToSet(keys) \in SUBSET Keys /\ IsFiniteSet(ToSet(keys))
    BY <2>2, <2>7, KeysFinite
  <2>12. Bytes(ToSet(keys)) = Size[k] + Bytes(Cached)
    <3>1. ToSet(keys) \ {k} = Cached
      BY <1>2, <2>4
    <3>. QED
      BY <2>4, <2>11, <3>1, BytesWithout
  <2>13. Bytes(ToSet(keys)) = Bytes(ToSet(front)) + Bytes(ToSet(back))
    BY <2>9, <2>10, <2>11, BytesOfUnion
  <2>14. cacheBytes' = Bytes(ToSet(back))
    <3>1. Bytes(ToSet(front)) \in Nat /\ Bytes(ToSet(back)) \in Nat /\ Bytes(ToSet(keys)) \in Nat /\ Size[k] \in Nat
      BY <2>11, BytesWithout, VerifiedStoreAssumption
    <3>2. Cached \in SUBSET Keys /\ IsFiniteSet(Cached)
      BY <2>3, KeysFinite DEF Cached
    <3>3. Bytes(Cached) \in Nat
      BY <3>2, BytesWithout
    <3>. QED
      BY <2>3, <2>8, <2>12, <2>13, <3>1, <3>3
  <2>15. cacheBytes' <= MaxCacheBytes
    <3>1. CASE n = len
      <4>1. DOMAIN back = {}
        BY <2>2, <2>7, <3>1
      <4>2. ToSet(back) = {}
        BY <4>1 DEF ToSet
      <4>3. Bytes({}) = 0
        BY FS_EmptySet, BytesStep
      <4>. QED
        BY <2>14, <4>2, <4>3, VerifiedStoreAssumption
    <3>2. CASE n # len
      BY <2>8, <3>2
    <3>. QED
      BY <3>1, <3>2
  <2>16. IsInjective(back)
    <3> SUFFICES ASSUME NEW i \in 1..(len - n), NEW j \in 1..(len - n), back[i] = back[j] PROVE i = j
      BY <2>7 DEF IsInjective
    <3>1. i + n \in 1..len /\ j + n \in 1..len
      BY <2>2
    <3>2. keys[i + n] = keys[j + n]
      BY <2>7
    <3>3. i + n = j + n
      BY <2>2, <2>5, <3>1, <3>2 DEF IsInjective
    <3>. QED
      BY <3>3
  <2>. QED
    BY <2>8, <2>14, <2>15, <2>16 DEF CacheExact, Cached
<1>. QED
  BY <1>1, <1>2

LEMMA CacheStep ==
  ASSUME TypeOK, CacheExact, [Next]_vars
  PROVE  CacheExact'
<1>1. ASSUME NEW r \in Readers, Hit(r) PROVE CacheExact'
  BY <1>1, RefreshExact, VerifiedStoreAssumption DEF Hit
<1>2. ASSUME NEW e \in Fetches, CheckPasses(e) PROVE CacheExact'
  <2>1. fetch[e].key \in Keys
    BY DEF TypeOK, FetchState
  <2>. QED
    BY <1>2, <2>1, PutExact DEF CheckPasses
<1>3. CASE UNCHANGED <<cache, cacheBytes>>
  BY <1>3 DEF CacheExact, Cached
<1>4. \/ \E r \in Readers : Hit(r)
      \/ \E e \in Fetches : CheckPasses(e)
      \/ UNCHANGED <<cache, cacheBytes>>
  <2>1. ASSUME NEW r \in Readers, Start(r) \/ Abort(r) \/ Resume(r), ~Hit(r) PROVE UNCHANGED <<cache, cacheBytes>>
    BY <2>1 DEF Start, Refuse, Join, Open, Abort, Resume, storeVars
  <2>2. ASSUME NEW e \in Fetches, Progress(e), ~CheckPasses(e) PROVE UNCHANGED <<cache, cacheBytes>>
    BY <2>2 DEF Progress, Locate, RequestFails, Receive, CheckFails, Clean, storeVars
  <2>3. CASE UNCHANGED vars
    BY <2>3 DEF vars, storeVars
  <2>. QED
    BY <2>1, <2>2, <2>3 DEF Next
<1>. QED
  BY <1>1, <1>2, <1>3, <1>4

\* CacheExact, for every set of keys, their sizes and the budget: the byte count
\* of the cache is what its keys come to, once each, and within the budget.
THEOREM CacheIsExact == Spec => []CacheExact
<1>1. Init => CacheExact
  <2> SUFFICES ASSUME Init PROVE CacheExact
    OBVIOUS
  <2>1. cache = <<>> /\ cacheBytes = 0
    BY DEF Init
  <2>2. Cached = {} /\ IsInjective(cache)
    BY <2>1 DEF Cached, ToSet, IsInjective
  <2>3. Bytes({}) = 0
    BY FS_EmptySet, BytesStep
  <2>. QED
    BY <2>1, <2>2, <2>3, VerifiedStoreAssumption DEF CacheExact
<1>2. IInv /\ CacheExact /\ [Next]_vars => CacheExact'
  BY CacheStep DEF IInv
<1>. QED
  BY Invariance, <1>1, <1>2, PTL DEF Spec

=============================================================================
