---------------------------- MODULE PackingProofs ----------------------------
(***************************************************************************)
(* Proofs about packCommand in Packing, for every sequence of runs over    *)
(* one output directory, wherever they fail or die.                        *)
(*                                                                         *)
(* What is written once the aliases were looked for is not the input       *)
(* (InputInv); a CAR gets its final name from a .tmp that holds the whole  *)
(* order of a run's own DAG, and a run that is over left no .tmp (CarInv). *)
(* The leaves a client accepts: each level of its descent replaces a range *)
(* by ranges that cover what is asked of it (Covers), down to the leaves.  *)
(* And they are the pack's: the tree says only what is true of the leaves  *)
(* it was built of (Says, TrueOf), at every level of the descent.          *)
(* They are all there, once the root is: the files of a directory hold     *)
(* every meta and shard that the entries of its meta name, and of those    *)
(* what they name in turn, each under its own path (Whole).  emitDir makes *)
(* whole directories of whole ones; side by side they are the tree of a    *)
(* pack (PackIsWhole), and a client that has all its files finds at every  *)
(* level what it asks for (StockedReads).  The root is the last file to be *)
(* written (FilesInv).                                                     *)
(*                                                                         *)
(* The shape of the tree.  A fragment of an MP4 is one leaf: the boxes are *)
(* chained, a cut lies at both ends of a fragment and none between them    *)
(* (FragmentCut).  A tree is flat when the shards that are counted fit:    *)
(* each band that is left has a shard at least (TreeFlat).  A tile is held *)
(* by one group once it is grouped (InGroup), and the leaves between the   *)
(* ends of a group span no more than it does (SpanWithin).                 *)
(***************************************************************************)
EXTENDS PackingInvariants, FiniteSetTheorems, SequenceTheorems, TLAPS

LEMMA InitInv == Init => IInv
<1> SUFFICES ASSUME Init PROVE IInv
  OBVIOUS
<1>1. next = 1 /\ runs = 0 /\ ~opened /\ car = None /\ phase \in {"start", "idle", "published"}
  BY DEF Init
<1>2. phase = "start" => DOMAIN disk = {}
  BY DEF Init
<1>. QED
  BY <1>1, <1>2 DEF IInv, InputInv, CarInv, Writing, Begun

\* The file the run is at is one of those it checked.
LEMMA CurrentIsAFile ==
  ASSUME IInv, phase = "proofs", next <= Len(packed.files)
  PROVE  Current.path # alias
<1>1. next \in 1..Len(packed.files)
  BY DEF IInv, InputInv
<1>. QED
  BY <1>1 DEF IInv, InputInv, NotInput, Writing, Current

LEMMA BeginInv ==
  ASSUME IInv, NEW j \in DiskJobs, NEW input, Begin(j, input)
  PROVE  IInv'
BY DEF Begin, output, IInv, InputInv, CarInv, Writing, Begun

LEMMA PackInputInv ==
  ASSUME IInv, PackInput
  PROVE  IInv'
<1>1. phase = "start" /\ ~opened /\ UNCHANGED <<job, runs, tmp, car, alias, opened>>
  BY DEF PackInput, IInv, CarInv
<1>2. phase' \in {"refused", "mkdir", "verify"} /\ (phase' = "mkdir" => job \in DiskJobs)
  BY DEF PackInput
<1>3. next' \in Nat \ {0}
  BY DEF PackInput, IInv, InputInv
<1>. QED
  BY <1>1, <1>2, <1>3 DEF IInv, InputInv, CarInv, Writing, Begun

\* mkdir, and the look for the input among the outputs.
LEMMA PrepareInv ==
  ASSUME IInv, MakeDirs \/ RefuseInputAliases
  PROVE  IInv'
<1>1. CASE MakeDirs
  BY <1>1 DEF MakeDirs, HasCar, IInv, InputInv, CarInv, Writing, Begun
<1>2. CASE RefuseInputAliases
  BY <1>2 DEF RefuseInputAliases, output, IInv, CarInv, NotInput, InputInv, HasCar, Writing, Begun
<1>. QED
  BY <1>1, <1>2

LEMMA OpenCarInv ==
  ASSUME IInv, OpenCar
  PROVE  IInv'
BY DEF OpenCar, IInv, InputInv, CarInv, NotInput, HasCar, Writing, Begun

LEMMA ProofsInv ==
  ASSUME IInv, Truncate \/ Fill \/ EndProofs
  PROVE  IInv'
<1>1. CASE Truncate
  BY <1>1 DEF Truncate, IInv, InputInv, CarInv, NotInput, HasCar, Writing, Begun
<1>2. CASE Fill
  BY <1>2 DEF Fill, IInv, InputInv, CarInv, NotInput, HasCar, Writing, Begun
<1>3. CASE EndProofs
  BY <1>3 DEF EndProofs, output, IInv, InputInv, CarInv, NotInput, HasCar, Writing, Begun
<1>. QED
  BY <1>1, <1>2, <1>3

LEMMA CarStepInv ==
  ASSUME IInv, WriteCar \/ RenameCar
  PROVE  IInv'
<1>1. CASE WriteCar
  BY <1>1 DEF WriteCar, IInv, InputInv, CarInv, NotInput, HasCar, Writing, Begun
<1>2. CASE RenameCar
  BY <1>2 DEF RenameCar, IInv, InputInv, CarInv, HasCar, Begun, Writing
<1>. QED
  BY <1>1, <1>2

LEMMA FailInv ==
  ASSUME IInv, Fail \/ Crash
  PROVE  IInv'
<1>1. CASE Fail
  BY <1>1 DEF Fail, IInv, InputInv, CarInv, HasCar, Writing, Begun
<1>2. CASE Crash
  BY <1>2 DEF Crash, output, IInv, InputInv, CarInv, HasCar, Writing, Begun
<1>. QED
  BY <1>1, <1>2

LEMMA ReadInv ==
  ASSUME IInv, NEW pack, NEW start, NEW end, Read(pack, start, end) \/ UNCHANGED vars
  PROVE  IInv'
<1>1. UNCHANGED <<job, packed, runs, phase, next, output, alias, opened>>
  BY DEF Read, vars
<1>. QED
  BY <1>1 DEF output, IInv, InputInv, CarInv, NotInput, HasCar, Writing, Begun

LEMMA NextInv ==
  ASSUME IInv, [Next]_vars
  PROVE  IInv'
<1>1. CASE Step
  BY <1>1, BeginInv, PackInputInv, PrepareInv, OpenCarInv, ProofsInv, CarStepInv, FailInv DEF Step
<1>2. CASE ~Step
  BY <1>2, ReadInv DEF Next
<1>. QED
  BY <1>1, <1>2

THEOREM Invariance == Spec => []IInv
<1>1. IInv /\ [Next]_vars => IInv'
  BY NextInv
<1>. QED
  BY InitInv, <1>1, PTL DEF Spec

(***************************************************************************)
(* The input.                                                              *)
(***************************************************************************)

\* A step leaves the file it packs alone.
LEMMA NextUntouched ==
  ASSUME IInv, [Next]_vars
  PROVE  Untouched
<1>1. ASSUME NEW j \in DiskJobs, NEW input, Begin(j, input)
      PROVE  Untouched
  BY <1>1 DEF Begin, Untouched, IInv, InputInv
<1>2. CASE PackInput
  BY <1>2 DEF PackInput, Untouched, IInv, InputInv
<1>3. CASE Truncate
  BY <1>3, CurrentIsAFile DEF Truncate, Untouched
<1>4. CASE Fill
  BY <1>4, CurrentIsAFile DEF Fill, Untouched
<1>5. CASE OpenCar \/ WriteCar \/ RenameCar \/ Fail
  BY <1>5 DEF OpenCar, WriteCar, RenameCar, Fail, Writing, IInv, InputInv, CarInv, Untouched, NotInput
<1>6. CASE MakeDirs \/ RefuseInputAliases \/ EndProofs \/ Crash
  BY <1>6 DEF MakeDirs, RefuseInputAliases, EndProofs, Crash, output, Untouched
<1>7. CASE UNCHANGED <<disk, tmp>>
  BY <1>7 DEF Untouched
<1>8. CASE Step
  BY <1>1, <1>2, <1>3, <1>4, <1>5, <1>6, <1>8 DEF Step
<1>9. CASE ~Step
  BY <1>9, <1>7 DEF Next, Read, vars, output
<1>. QED
  BY <1>8, <1>9

\* InputUntouched, for every job, number of runs and fault: a run never writes
\* the file it packs.
THEOREM InputIsKept == Spec => InputUntouched
<1>1. IInv /\ [Next]_vars => [Untouched]_vars
  BY NextUntouched
<1>. QED
  BY <1>1, Invariance, PTL DEF Spec, InputUntouched, Untouched

-----------------------------------------------------------------------------
(***************************************************************************)
(* Ranges in order, and those of them that overlap [start, end).           *)
(***************************************************************************)
\* Every set of naturals has a least element.
LEMMA LeastNat ==
  ASSUME NEW T \in SUBSET Nat, T # {}
  PROVE  \E m \in T : \A k \in T : m <= k
<1>1. PICK m \in T : \A k \in T : ~(<<k, m>> \in OpToRel(<, Nat))
  BY NatLessThanWellFounded, WFMin
<1>2. ASSUME NEW k \in T PROVE m <= k
  <2>1. <<k, m>> \in Nat \X Nat /\ ~(<<k, m>> \in OpToRel(<, Nat))
    BY <1>1
  <2>2. ~(k < m)
    BY <2>1 DEF OpToRel
  <2>. QED
    BY <2>2
<1>. QED
  BY <1>2

LEMMA SumsExist ==
  ASSUME NEW s, NEW n \in Nat
  PROVE  \E f : Sums(f, s, n)
<1> DEFINE Bad == {m \in 0..n : ~\E f : Sums(f, s, m)}
<1>1. Bad = {}
  <2> SUFFICES ASSUME Bad # {} PROVE FALSE
    OBVIOUS
  <2>1. Bad \in SUBSET Nat
    OBVIOUS
  <2>2. PICK m \in Bad : \A k \in Bad : m <= k
    <3> HIDE DEF Bad
    <3>. QED
      BY <2>1, LeastNat
  <2>3. m # 0
    <3>1. Sums(<<>>, s, 0)
      BY DEF Sums
    <3>. QED
      BY <3>1
  <2>4. m \in 1..n /\ m - 1 \in 0..n /\ ~(m <= m - 1)
    BY <2>3
  <2>5. PICK f : Sums(f, s, m - 1)
    <3>1. m - 1 \notin Bad
      <4> HIDE DEF Bad
      <4>. QED
        BY <2>2, <2>4
    <3>. QED
      BY <2>4, <3>1
  <2> DEFINE g == [i \in 1..m |-> IF i = 1 THEN 0 ELSE f[i - 1] + s[i - 1].length]
  <2>6. ASSUME NEW i \in 1..m, i # 1 PROVE g[i - 1] = f[i - 1]
    <3>1. i - 1 \in 1..m /\ i - 1 \in 1..(m - 1)
      BY <2>4, <2>6
    <3>2. f[i - 1] = IF i - 1 = 1 THEN 0 ELSE f[i - 1 - 1] + s[i - 1 - 1].length
      BY <2>5, <3>1 DEF Sums
    <3>3. g[i - 1] = IF i - 1 = 1 THEN 0 ELSE f[i - 1 - 1] + s[i - 1 - 1].length
      BY <3>1
    <3>. QED
      BY <3>2, <3>3
  <2>7. Sums(g, s, m)
    BY <2>6 DEF Sums
  <2> HIDE DEF g
  <2>. QED
    BY <2>7
<1>. QED
  BY <1>1

\* Positions that ascend step by step ascend.
LEMMA StepsAscend ==
  ASSUME NEW n \in Nat, NEW p \in [1..n -> Nat], \A i \in 2..n : p[i - 1] < p[i]
  PROVE  Ascends(p, n)
<1> SUFFICES ASSUME NEW i \in 1..n PROVE \A j \in 1..n : i < j => p[i] < p[j]
  BY DEF Ascends
<1> DEFINE Bad == {j \in 1..n : i < j /\ ~(p[i] < p[j])}
<1>1. ASSUME Bad # {} PROVE FALSE
  <2>1. PICK j \in Bad : \A k \in Bad : j <= k
    <3>1. Bad \in SUBSET Nat
      OBVIOUS
    <3> HIDE DEF Bad
    <3>. QED
      BY <1>1, <3>1, LeastNat
  <2>2. j \in 2..n /\ j - 1 \in 1..n /\ i <= j - 1 /\ ~(j <= j - 1)
    OBVIOUS
  <2>3. j - 1 \notin Bad
    <3> HIDE DEF Bad
    <3>. QED
      BY <2>1, <2>2
  <2>4. p[i] <= p[j - 1]
    BY <2>2, <2>3
  <2>5. p[j - 1] < p[j]
    BY <2>2
  <2>6. {p[i], p[j], p[j - 1]} \subseteq Nat
    BY <2>2
  <2>. QED
    BY <2>4, <2>5, <2>6
<1>. QED
  BY <1>1

LEMMA OffsetsAre ==
  ASSUME NEW s, Lengths(s)
  PROVE  /\ Offsets(s) \in [1..(Len(s) + 1) -> Nat]
         /\ Offsets(s)[1] = 0
         /\ \A i \in 1..Len(s) : Offsets(s)[i + 1] = Offsets(s)[i] + s[i].length
<1> DEFINE n == Len(s) + 1
           at == CHOOSE f : Sums(f, s, n)
<1>1. n \in Nat \ {0} /\ Len(s) \in Nat /\ Len(s) + 1 = n /\ DOMAIN s = 1..Len(s)
  BY DEF Lengths
<1>2. Sums(at, s, n)
  <2> HIDE DEF n
  <2>. QED
    BY <1>1, SumsExist
<1>3. Offsets(s) = at
  BY DEF Offsets, Sums
<1> HIDE DEF at
<1> HIDE DEF n
<1>4. /\ DOMAIN at = 1..n
      /\ \A i \in 1..n : at[i] = IF i = 1 THEN 0 ELSE at[i - 1] + s[i - 1].length
  BY <1>2 DEF Sums
<1>5. at[1] = 0
  BY <1>1, <1>4
<1>6. ASSUME NEW i \in 1..Len(s) PROVE at[i + 1] = at[i] + s[i].length
  BY <1>1, <1>4
<1> DEFINE Bad == {i \in 1..n : at[i] \notin Nat}
<1>7. ASSUME Bad # {} PROVE FALSE
  <2>1. PICK i \in Bad : \A k \in Bad : i <= k
    <3>1. Bad \in SUBSET Nat
      OBVIOUS
    <3> HIDE DEF Bad
    <3>. QED
      BY <1>7, <3>1, LeastNat
  <2>2. i \in 1..n /\ i # 1
    BY <1>5
  <2>3. i - 1 \in 1..n /\ i - 1 \in 1..Len(s) /\ ~(i <= i - 1)
    BY <1>1, <2>2
  <2>4. at[i - 1] \in Nat
    <3>1. i - 1 \notin Bad
      <4> HIDE DEF Bad
      <4>. QED
        BY <2>1, <2>3
    <3>. QED
      BY <2>3, <3>1
  <2>5. s[i - 1].length \in Nat
    BY <1>1, <2>3 DEF Lengths
  <2>6. at[i] = at[i - 1] + s[i - 1].length
    BY <1>4, <2>2
  <2>. QED
    BY <2>4, <2>5, <2>6
<1>8. at \in [1..n -> Nat]
  BY <1>2, <1>7 DEF Sums
<1>. QED
  BY <1>1, <1>3, <1>5, <1>6, <1>8

\* A function on 1..m is a sequence of its values.
LEMMA ValuesAreSeq ==
  ASSUME NEW q, NEW m \in Nat, q = [k \in 1..m |-> q[k]]
  PROVE  IsSeq(q) /\ Len(q) = m /\ DOMAIN q = 1..m
<1>1. DOMAIN q = 1..m
  OBVIOUS
<1>2. \A k \in 1..m : q[k] \in ToSet(q)
  BY <1>1 DEF ToSet
<1>. QED
  BY <1>1, <1>2 DEF IsSeq

\* What is selected at consecutive places is the sequence between them.
LEMMA SelectedBetween ==
  ASSUME NEW s, NEW lo \in Nat, NEW hi \in Nat, lo <= hi
  PROVE  /\ IsSeq(Selected(s, lo..hi))
         /\ Len(Selected(s, lo..hi)) = hi - lo + 1
         /\ DOMAIN Selected(s, lo..hi) = 1..(hi - lo + 1)
         /\ \A k \in 1..(hi - lo + 1) : Selected(s, lo..hi)[k] = s[lo + k - 1]
<1>1. Cardinality(lo..hi) = hi - lo + 1
  BY FS_Interval
<1>2. ASSUME NEW x \in lo..hi PROVE Cardinality({y \in lo..hi : y < x}) = x - lo
  <2> DEFINE below == {y \in lo..hi : y < x}
  <2>1. below = lo..(x - 1)
    OBVIOUS
  <2>2. x \in Int /\ x - 1 \in Int /\ lo \in Int /\ (lo > x - 1 <=> x = lo)
    OBVIOUS
  <2>3. Cardinality(lo..(x - 1)) = IF lo > x - 1 THEN 0 ELSE x - 1 - lo + 1
    BY <2>2, FS_Interval
  <2>4. Cardinality(lo..(x - 1)) = x - lo
    BY <2>2, <2>3
  <2> HIDE DEF below
  <2>5. Cardinality(below) = x - lo
    BY <2>1, <2>4
  <2>. QED
    BY <2>5 DEF below
<1>3. ASSUME NEW k \in 1..(hi - lo + 1)
      PROVE  (CHOOSE x \in lo..hi : Cardinality({y \in lo..hi : y < x}) = k - 1) = lo + k - 1
  BY <1>2
<1> DEFINE q == Selected(s, lo..hi)
           m == hi - lo + 1
<1>4. m \in Nat
  OBVIOUS
<1>5. q = [k \in 1..m |-> s[Ascending(lo..hi)[k]]]
  BY <1>1 DEF Selected
<1>6. \A k \in 1..m : Ascending(lo..hi)[k] = lo + k - 1
  BY <1>1, <1>3 DEF Ascending
<1> HIDE DEF q, m
<1>7. DOMAIN q = 1..m /\ q = [k \in 1..m |-> q[k]]
  BY <1>5
<1>8. \A k \in 1..m : q[k] = s[lo + k - 1]
  BY <1>5, <1>6
<1>9. IsSeq(q) /\ Len(q) = m
  BY <1>4, <1>7, ValuesAreSeq
<1>. QED
  BY <1>7, <1>8, <1>9 DEF q, m

LEMMA Window ==
  ASSUME NEW n \in Nat \ {0}, NEW p \in [1..(n + 1) -> Nat], Ascends(p, n + 1),
         NEW start \in Nat, NEW end \in Nat, start < end, p[n + 1] > start, p[1] < end
  PROVE  Windowed(p, n, start, end)
<1> DEFINE late == {i \in 1..n : p[i + 1] > start}
           far == {i \in 0..(n - 1) : p[n - i] < end}
<1>1. PICK lo \in late : \A k \in late : lo <= k
  <2>1. n \in late /\ late \in SUBSET Nat
    OBVIOUS
  <2> HIDE DEF late
  <2>. QED
    BY <2>1, LeastNat
<1>2. PICK f \in far : \A k \in far : f <= k
  <2>1. n - 1 \in far /\ far \in SUBSET Nat
    OBVIOUS
  <2> HIDE DEF far
  <2>. QED
    BY <2>1, LeastNat
<1> DEFINE hi == n - f
<1>3. lo \in 1..n /\ p[lo + 1] > start /\ hi \in 1..n /\ p[hi] < end
  OBVIOUS
<1>4. \A i \in 1..n : i < lo => ~(p[i + 1] > start)
  BY <1>1
<1>5. \A i \in 1..n : hi < i => ~(p[i] < end)
  <2> SUFFICES ASSUME NEW i \in 1..n, hi < i, p[i] < end PROVE FALSE
    OBVIOUS
  <2>1. n - i \in 0..(n - 1) /\ n - (n - i) = i /\ ~(f <= n - i)
    BY <1>2
  <2>2. n - i \in far
    BY <2>1
  <2> HIDE DEF far
  <2>. QED
    BY <1>2, <2>1, <2>2
<1> HIDE DEF hi, late, far
<1>6. \A i \in 1..(n + 1) : p[i] \in Nat
  OBVIOUS
<1>7. lo = 1 \/ p[lo] <= start
  <2> SUFFICES ASSUME lo # 1 PROVE p[lo] <= start
    OBVIOUS
  <2>1. lo - 1 \in 1..n /\ lo - 1 < lo /\ lo - 1 + 1 = lo /\ lo \in 1..(n + 1)
    BY <1>3
  <2>2. ~(p[lo] > start)
    BY <1>4, <2>1
  <2>. QED
    BY <1>6, <2>1, <2>2
<1>8. hi = n \/ p[hi + 1] >= end
  BY <1>3, <1>5, <1>6
<1>9. lo <= hi
  BY <1>3, <1>5, <1>6, <1>7
<1>10. {i \in 1..n : p[i + 1] > start /\ p[i] < end} = lo..hi
  <2>1. ASSUME NEW i \in lo..hi PROVE i \in 1..n /\ p[i + 1] > start /\ p[i] < end
    <3>1. i \in 1..n /\ i \in 1..(n + 1) /\ i + 1 \in 1..(n + 1) /\ lo + 1 \in 1..(n + 1) /\ hi \in 1..(n + 1)
      BY <1>3
    <3>2. p[i + 1] >= p[lo + 1]
      <4>1. lo + 1 = i + 1 \/ lo + 1 < i + 1
        BY <1>3
      <4>. QED
        BY <1>6, <3>1, <4>1 DEF Ascends
    <3>3. p[i] <= p[hi]
      <4>1. i = hi \/ i < hi
        BY <1>3
      <4>. QED
        BY <1>6, <3>1, <4>1 DEF Ascends
    <3>. QED
      BY <1>3, <1>6, <3>1, <3>2, <3>3
  <2>2. ASSUME NEW i \in 1..n, p[i + 1] > start, p[i] < end PROVE i \in lo..hi
    BY <1>3, <1>4, <1>5, <2>2
  <2>. QED
    BY <2>1, <2>2
<1>. QED
  BY <1>3, <1>7, <1>8, <1>9, <1>10 DEF Windowed

(***************************************************************************)
(* What covers a range asked for.                                          *)
(***************************************************************************)

LEMMA CoversParts ==
  ASSUME NEW g, NEW from, NEW to, NEW start, NEW end, Covers(g, from, to, start, end)
  PROVE  /\ Len(g) \in Nat \ {0} /\ DOMAIN g = 1..Len(g) /\ 1 \in 1..Len(g) /\ Len(g) \in 1..Len(g)
         /\ \A i \in 1..Len(g) : /\ g[i].offset \in Nat /\ g[i].length \in Nat \ {0}
                                 /\ End(g[i]) \in Nat /\ End(g[i]) = g[i].offset + g[i].length
                                 /\ g[i].offset < end /\ End(g[i]) > start
<1>1. Len(g) \in Nat /\ DOMAIN g = 1..Len(g) /\ Len(g) # 0
  BY DEF Covers, IsSeq
<1>2. ASSUME NEW i \in 1..Len(g)
      PROVE  /\ g[i].offset \in Nat /\ g[i].length \in Nat \ {0}
             /\ g[i].offset < end /\ End(g[i]) > start
  BY <1>1 DEF Covers, IsRange, Overlaps
<1>3. \A i \in 1..Len(g) : End(g[i]) = g[i].offset + g[i].length /\ End(g[i]) \in Nat
  BY <1>2 DEF End
<1>. QED
  BY <1>1, <1>2, <1>3

LEMMA OneCovers ==
  ASSUME NEW e, IsRange(e), NEW r, r.offset = e.offset, r.length = e.length,
         NEW start \in Nat, NEW end \in Nat, Overlaps(e, start, end)
  PROVE  Covers(<<r>>, e.offset, End(e), start, end)
<1>1. Len(<<r>>) = 1 /\ DOMAIN <<r>> = 1..1 /\ <<r>>[1] = r
  OBVIOUS
<1>2. IsSeq(<<r>>)
  BY <1>1 DEF ToSet, IsSeq
<1>3. IsRange(r) /\ Overlaps(r, start, end) /\ End(r) = End(e) /\ End(e) \in Nat /\ e.offset \in Nat
  BY DEF IsRange, Overlaps, End
<1>. QED
  BY <1>1, <1>2, <1>3 DEF Covers

LEMMA BetweenIsRange ==
  ASSUME NEW r, NEW a \in Nat, NEW b \in Nat, a < b, r.offset = a, r.length = b - a
  PROVE  IsRange(r) /\ End(r) = b
BY DEF IsRange, End

\* Of ranges between ascending positions, those that overlap cover.
LEMMA SelectedCovers ==
  ASSUME NEW n \in Nat \ {0}, NEW p \in [1..(n + 1) -> Nat], Ascends(p, n + 1),
         NEW start \in Nat, NEW end \in Nat,
         NEW g, \A i \in 1..n : g[i].offset = p[i] /\ g[i].length = p[i + 1] - p[i],
         NEW lo \in Nat, NEW hi \in Nat, 1 <= lo, lo <= hi, hi <= n,
         \A i \in lo..hi : p[i + 1] > start /\ p[i] < end,
         lo = 1 \/ p[lo] <= start, hi = n \/ p[hi + 1] >= end
  PROVE  Covers(Selected(g, lo..hi), p[1], p[n + 1], start, end)
<1>1. /\ IsSeq(Selected(g, lo..hi))
      /\ Len(Selected(g, lo..hi)) = hi - lo + 1
      /\ DOMAIN Selected(g, lo..hi) = 1..(hi - lo + 1)
      /\ \A k \in 1..(hi - lo + 1) : Selected(g, lo..hi)[k] = g[lo + k - 1]
  <2>1. lo \in Nat /\ hi \in Nat /\ lo <= hi
    OBVIOUS
  <2>2. IsSeq(Selected(g, lo..hi))
    BY ONLY <2>1, SelectedBetween
  <2>3. Len(Selected(g, lo..hi)) = hi - lo + 1
    BY ONLY <2>1, SelectedBetween
  <2>4. DOMAIN Selected(g, lo..hi) = 1..(hi - lo + 1)
    BY ONLY <2>2, <2>3 DEF IsSeq
  <2>5. \A k \in 1..(hi - lo + 1) : Selected(g, lo..hi)[k] = g[lo + k - 1]
    BY ONLY <2>1, SelectedBetween
  <2>. QED
    BY ONLY <2>2, <2>3, <2>4, <2>5
<1> DEFINE q == Selected(g, lo..hi)
           m == hi - lo + 1
<1>2. /\ IsSeq(q) /\ Len(q) = m /\ DOMAIN q = 1..m
      /\ \A k \in 1..m : q[k] = g[lo + k - 1]
  BY ONLY <1>1
<1>0. m \in Nat \ {0} /\ lo \in 1..n /\ hi \in 1..n
  OBVIOUS
<1> HIDE DEF q
<1>3. ASSUME NEW i \in 1..n
      PROVE  IsRange(g[i]) /\ End(g[i]) = p[i + 1] /\ g[i].offset = p[i]
  <2>1. i \in 1..(n + 1) /\ i + 1 \in 1..(n + 1) /\ i < i + 1
    OBVIOUS
  <2>2. p[i] \in Nat /\ p[i + 1] \in Nat /\ p[i] < p[i + 1]
    BY <2>1 DEF Ascends
  <2>3. g[i].offset = p[i] /\ g[i].length = p[i + 1] - p[i]
    OBVIOUS
  <2>. QED
    BY <2>2, <2>3, BetweenIsRange
<1>4. ASSUME NEW k \in 1..m PROVE IsRange(q[k]) /\ Overlaps(q[k], start, end)
  <2> DEFINE x == lo + k - 1
  <2>0. {k, lo, hi, n} \subseteq Int /\ 1 <= k /\ k <= hi - lo + 1 /\ 1 <= lo /\ hi <= n
    OBVIOUS
  <2>1. x \in lo..hi /\ x \in 1..n
    BY <2>0
  <2>1b. q[k] = g[x]
    BY <1>2
  <2> HIDE DEF x
  <2>2. p[x + 1] > start /\ p[x] < end
    BY <2>1
  <2>. QED
    BY <1>3, <2>1, <2>1b, <2>2 DEF Overlaps
<1>5. ASSUME NEW k \in 2..m PROVE q[k].offset = End(q[k - 1])
  <2>0. {k, lo, hi, n} \subseteq Int /\ 2 <= k /\ k <= hi - lo + 1 /\ 1 <= lo /\ hi <= n
    OBVIOUS
  <2>1. k \in 1..m /\ k - 1 \in 1..m /\ lo + k - 1 \in 1..n /\ lo + (k - 1) - 1 \in 1..n
        /\ lo + (k - 1) - 1 + 1 = lo + k - 1
    BY <2>0
  <2>2. q[k] = g[lo + k - 1] /\ q[k - 1] = g[lo + (k - 1) - 1]
    BY <1>2, <2>1
  <2>3. g[lo + k - 1].offset = p[lo + k - 1]
    BY <1>3, <2>1
  <2>4. End(g[lo + (k - 1) - 1]) = p[lo + k - 1]
    BY <1>3, <2>1
  <2>. QED
    BY <2>2, <2>3, <2>4
<1>6. q[1].offset = p[lo] /\ End(q[m]) = p[hi + 1]
  <2>1. 1 \in 1..m /\ m \in 1..m /\ lo + 1 - 1 = lo /\ lo + m - 1 = hi
    OBVIOUS
  <2>2. q[1] = g[lo] /\ q[m] = g[hi]
    BY <1>2, <2>1
  <2>. QED
    BY <1>0, <1>3, <2>2
<1>7. p[lo] >= p[1] /\ p[hi + 1] <= p[n + 1]
  <2>0. {1, lo, hi + 1, n + 1} \subseteq 1..(n + 1) /\ (lo = 1 \/ 1 < lo) /\ (hi + 1 = n + 1 \/ hi + 1 < n + 1)
    OBVIOUS
  <2>1. lo = 1 \/ p[1] < p[lo]
    BY <2>0 DEF Ascends
  <2>2. hi + 1 = n + 1 \/ p[hi + 1] < p[n + 1]
    BY <2>0 DEF Ascends
  <2>3. p[1] \in Nat /\ p[lo] \in Nat /\ p[hi + 1] \in Nat /\ p[n + 1] \in Nat
    BY <2>0
  <2>4. p[1] <= p[lo]
    BY ONLY <2>1, <2>3
  <2>5. p[hi + 1] <= p[n + 1]
    BY ONLY <2>2, <2>3
  <2>. QED
    BY ONLY <2>3, <2>4, <2>5
<1> HIDE DEF m
<1>8. Len(q) # 0 /\ q[Len(q)] = q[m]
  BY <1>0, <1>2
<1>9. \A i \in 2..Len(q) : q[i].offset = End(q[i - 1])
  BY <1>2, <1>5
<1>10. /\ q[1].offset >= p[1] /\ (q[1].offset = p[1] \/ q[1].offset <= start)
       /\ End(q[Len(q)]) <= p[n + 1] /\ (End(q[Len(q)]) = p[n + 1] \/ End(q[Len(q)]) >= end)
  BY <1>6, <1>7, <1>8
<1>11. Covers(q, p[1], p[n + 1], start, end)
  BY <1>2, <1>4, <1>8, <1>9, <1>10 DEF Covers
<1>. QED
  BY <1>11 DEF q

\* What covers one range, followed by what covers the next.
LEMMA JoinedCover ==
  ASSUME NEW start \in Nat, NEW end \in Nat, start < end,
         NEW from \in Nat, NEW mid \in Nat, NEW to \in Nat, start < mid, mid < end,
         NEW a, NEW b, Covers(a, from, mid, start, end), Covers(b, mid, to, start, end)
  PROVE  Covers(a \o b, from, to, start, end)
<1> DEFINE c == a \o b
           S == ToSet(a) \cup ToSet(b)
           m == Len(a)
           n == Len(b)
<1>1. a \in Seq(S) /\ b \in Seq(S) /\ m \in Nat \ {0} /\ n \in Nat \ {0}
      /\ DOMAIN a = 1..m /\ DOMAIN b = 1..n
  BY DEF Covers, IsSeq
<1>2. /\ c \in Seq(S) /\ Len(c) = m + n
      /\ \A i \in 1..(m + n) : c[i] = IF i <= m THEN a[i] ELSE b[i - m]
  BY <1>1, ConcatProperties
<1> HIDE DEF c
<1>3. End(a[m]) = mid /\ b[1].offset = mid
  <2>1. /\ End(a[m]) <= mid /\ (End(a[m]) = mid \/ End(a[m]) >= end)
        /\ b[1].offset >= mid /\ (b[1].offset = mid \/ b[1].offset <= start)
    BY DEF Covers
  <2>2. End(a[m]) \in Nat /\ b[1].offset \in Nat
    BY CoversParts
  <2> HIDE DEF m
  <2>. QED
    BY <2>1, <2>2
<1> HIDE DEF m, n
<1>4. DOMAIN c = 1..(m + n) /\ Len(c) = m + n /\ m + n # 0
  BY <1>1, <1>2
<1>5. IsSeq(c)
  BY <1>1, <1>2, <1>4, ValuesAreSeq
<1>6. ASSUME NEW i \in 1..(m + n) PROVE IsRange(c[i]) /\ Overlaps(c[i], start, end)
  <2>1. CASE i <= m
    <3>1. i \in 1..m /\ c[i] = a[i]
      BY <1>1, <1>2, <2>1
    <3>. QED
      BY <1>1, <3>1 DEF Covers
  <2>2. CASE ~(i <= m)
    <3>1. i - m \in 1..n /\ c[i] = b[i - m]
      BY <1>1, <1>2, <2>2
    <3>. QED
      BY <1>1, <3>1 DEF Covers
  <2>. QED
    BY <2>1, <2>2
<1>7. ASSUME NEW i \in 2..(m + n) PROVE c[i].offset = End(c[i - 1])
  <2>0. i \in 1..(m + n) /\ i - 1 \in 1..(m + n)
    BY <1>1
  <2>1. CASE i <= m
    <3>1. i \in 2..m /\ i - 1 <= m
      BY <1>1, <2>0, <2>1
    <3>2. c[i] = a[i] /\ c[i - 1] = a[i - 1]
      BY <1>2, <2>0, <2>1, <3>1
    <3>. QED
      BY <3>1, <3>2 DEF Covers, m
  <2>2. CASE i = m + 1
    <3>1. c[i] = b[1] /\ c[i - 1] = a[m]
      <4>1. ~(i <= m) /\ i - m = 1 /\ i - 1 = m /\ i - 1 <= m
        BY <1>1, <2>2
      <4>. QED
        BY <1>2, <2>0, <4>1
    <3>. QED
      BY <1>3, <3>1
  <2>3. CASE i > m + 1
    <3>1. ~(i <= m) /\ ~(i - 1 <= m) /\ i - m \in 2..n /\ i - 1 - m = i - m - 1
      BY <1>1, <2>3
    <3>2. c[i] = b[i - m] /\ c[i - 1] = b[i - m - 1]
      BY <1>2, <2>0, <3>1
    <3>. QED
      BY <3>1, <3>2 DEF Covers, n
  <2>. QED
    BY <1>1, <2>0, <2>1, <2>2, <2>3
<1>8. c[1] = a[1] /\ c[m + n] = b[n]
  <2>1. 1 \in 1..(m + n) /\ 1 <= m /\ m + n \in 1..(m + n) /\ ~(m + n <= m) /\ m + n - m = n
    BY <1>1
  <2>2. c[1] = a[1]
    BY <1>2, <2>1
  <2> DEFINE x == m + n
  <2>3. x \in 1..(m + n) /\ ~(x <= m) /\ x - m = n
    BY <1>1, <2>1
  <2> HIDE DEF x
  <2>4. c[x] = b[n]
    BY <1>2, <2>3
  <2>. QED
    BY <2>2, <2>4 DEF x
<1>9. /\ a[1].offset >= from /\ (a[1].offset = from \/ a[1].offset <= start)
      /\ End(b[n]) <= to /\ (End(b[n]) = to \/ End(b[n]) >= end)
  BY DEF Covers, n
<1>. QED
  BY <1>2, <1>4, <1>5, <1>6, <1>7, <1>8, <1>9 DEF Covers, c

(***************************************************************************)
(* FlattenSeq joins one sequence after the other.                          *)
(***************************************************************************)

LEMMA JoinsExist ==
  ASSUME NEW seqs, NEW n \in Nat
  PROVE  \E f : Joins(f, seqs, n)
<1> DEFINE Bad == {m \in 0..n : ~\E f : Joins(f, seqs, m)}
<1>1. Bad = {}
  <2> SUFFICES ASSUME Bad # {} PROVE FALSE
    OBVIOUS
  <2>1. Bad \in SUBSET Nat
    OBVIOUS
  <2>2. PICK m \in Bad : \A k \in Bad : m <= k
    <3> HIDE DEF Bad
    <3>. QED
      BY <2>1, LeastNat
  <2>3. m # 0
    <3>1. Joins(<<>>, seqs, 0)
      BY DEF Joins
    <3>. QED
      BY <3>1
  <2>4. m \in 1..n /\ m - 1 \in 0..n /\ ~(m <= m - 1)
    BY <2>3
  <2>5. PICK f : Joins(f, seqs, m - 1)
    <3>1. m - 1 \notin Bad
      <4> HIDE DEF Bad
      <4>. QED
        BY <2>2, <2>4
    <3>. QED
      BY <2>4, <3>1
  <2> DEFINE g == [i \in 1..m |-> IF i = 1 THEN seqs[i] ELSE f[i - 1] \o seqs[i]]
  <2>6. ASSUME NEW i \in 1..m, i # 1 PROVE g[i - 1] = f[i - 1]
    <3>1. i - 1 \in 1..m /\ i - 1 \in 1..(m - 1)
      BY <2>4, <2>6
    <3>2. f[i - 1] = IF i - 1 = 1 THEN seqs[i - 1] ELSE f[i - 1 - 1] \o seqs[i - 1]
      BY <2>5, <3>1 DEF Joins
    <3>3. g[i - 1] = IF i - 1 = 1 THEN seqs[i - 1] ELSE f[i - 1 - 1] \o seqs[i - 1]
      BY <3>1
    <3>. QED
      BY <3>2, <3>3
  <2>7. Joins(g, seqs, m)
    BY <2>6 DEF Joins
  <2> HIDE DEF g
  <2>. QED
    BY <2>7
<1>. QED
  BY <1>1

\* Every range of what covers is replaced by what covers it.
LEMMA FlattenCovers ==
  ASSUME NEW start \in Nat, NEW end \in Nat, start < end, NEW from \in Nat, NEW to \in Nat,
         NEW es, Covers(es, from, to, start, end), NEW gs, gs = [i \in DOMAIN es |-> gs[i]],
         \A i \in DOMAIN es : Covers(gs[i], es[i].offset, End(es[i]), start, end)
  PROVE  Covers(FlattenSeq(gs), from, to, start, end)
<1> DEFINE n == Len(es)
           F == CHOOSE f : Joins(f, gs, n)
<1>1. n \in Nat \ {0} /\ DOMAIN es = 1..n /\ gs = [i \in 1..n |-> gs[i]]
  BY CoversParts
<1> HIDE DEF n
<1>2. Joins(F, gs, n)
  BY <1>1, JoinsExist
<1>3. FlattenSeq(gs) = F[n]
  BY <1>1, ValuesAreSeq DEF FlattenSeq, Joins
<1> HIDE DEF F
<1>4. \A i \in 1..n : F[i] = IF i = 1 THEN gs[i] ELSE F[i - 1] \o gs[i]
  BY <1>2 DEF Joins
<1>5. ASSUME NEW i \in 1..n
      PROVE  /\ es[i].offset \in Nat /\ End(es[i]) \in Nat
             /\ es[i].offset < end /\ start < End(es[i])
             /\ Covers(gs[i], es[i].offset, End(es[i]), start, end)
  BY <1>1, CoversParts DEF n
<1>6. ASSUME NEW i \in 2..n PROVE es[i].offset = End(es[i - 1])
  BY DEF Covers, n
<1> DEFINE Good(i) == Covers(F[i], es[1].offset, End(es[i]), start, end)
           Bad == {i \in 1..n : ~Good(i)}
<1>7. ASSUME Bad # {} PROVE FALSE
  <2>1. Bad \in SUBSET Nat
    OBVIOUS
  <2>2. PICK i \in Bad : \A k \in Bad : i <= k
    <3> HIDE DEF Bad
    <3>. QED
      BY <1>7, <2>1, LeastNat
  <2>3. i \in 1..n /\ ~Good(i)
    OBVIOUS
  <2>4. i # 1
    BY <1>1, <1>4, <1>5, <2>3
  <2>5. i \in 2..n /\ i - 1 \in 1..n /\ ~(i <= i - 1) /\ 1 \in 1..n
    BY <1>1, <2>3, <2>4
  <2>6. Good(i - 1)
    <3>1. i - 1 \notin Bad
      <4> HIDE DEF Bad
      <4>. QED
        BY <2>2, <2>5
    <3> HIDE DEF Good
    <3>. QED
      BY <2>5, <3>1
  <2>7. F[i] = F[i - 1] \o gs[i]
    BY <1>4, <2>3, <2>4
  <2>8. es[i].offset = End(es[i - 1])
    BY <1>6, <2>5
  <2>9. Good(i)
    <3> DEFINE x == es[1].offset
               y == es[i].offset
               z == End(es[i])
    <3>1. {x, y, z} \subseteq Nat /\ start < y /\ y < end
      BY <1>5, <2>3, <2>5, <2>8
    <3>2. Covers(F[i - 1], x, y, start, end) /\ Covers(gs[i], y, z, start, end)
      BY <1>5, <2>3, <2>6, <2>8
    <3> HIDE DEF x, y, z
    <3>3. Covers(F[i - 1] \o gs[i], x, z, start, end)
      BY <3>1, <3>2, JoinedCover
    <3>. QED
      BY <2>7, <3>3 DEF x, z
  <2>. QED
    BY <2>3, <2>9
<1>8. n \in 1..n /\ 1 \in 1..n
  BY <1>1
<1>9. Covers(F[n], es[1].offset, End(es[n]), start, end)
  BY <1>7, <1>8
<1>10. /\ es[1].offset >= from /\ (es[1].offset = from \/ es[1].offset <= start)
       /\ End(es[n]) <= to /\ (End(es[n]) = to \/ End(es[n]) >= end)
  BY DEF Covers, n
<1> DEFINE g == F[n]
           m == Len(g)
<1>11. /\ g[1].offset \in Nat /\ End(g[m]) \in Nat
  <2>1. Covers(g, es[1].offset, End(es[n]), start, end)
    BY <1>9
  <2> HIDE DEF g
  <2>. QED
    BY <2>1, CoversParts
<1>12. es[1].offset \in Nat /\ End(es[n]) \in Nat
  BY <1>5, <1>8
<1>13. /\ g[1].offset >= from /\ (g[1].offset = from \/ g[1].offset <= start)
       /\ End(g[m]) <= to /\ (End(g[m]) = to \/ End(g[m]) >= end)
  <2>1. /\ g[1].offset >= es[1].offset /\ (g[1].offset = es[1].offset \/ g[1].offset <= start)
        /\ End(g[m]) <= End(es[n]) /\ (End(g[m]) = End(es[n]) \/ End(g[m]) >= end)
    BY <1>9 DEF Covers
  <2> HIDE DEF g, m
  <2>. QED
    BY <1>10, <1>11, <1>12, <2>1
<1>14. Covers(g, from, to, start, end)
  BY <1>9, <1>13 DEF Covers
<1>. QED
  BY <1>3, <1>14

(***************************************************************************)
(* The client's descent.                                                   *)
(***************************************************************************)

LEMMA EntriesCover ==
  ASSUME NEW start \in Nat, NEW end \in Nat, start < end,
         NEW dir, IsRange(dir), Overlaps(dir, start, end)
  PROVE  Covers(Entries(dir, start, end), dir.offset, End(dir), start, end)
<1>1. CASE ~MetaDecodes(dir.digest, dir.length)
  <2>1. Entries(dir, start, end) = Unusable(dir)
    BY <1>1 DEF Entries
  <2> DEFINE r == [kind |-> Broken, offset |-> dir.offset, length |-> dir.length]
  <2>2. Unusable(dir) = <<r>> /\ r.offset = dir.offset /\ r.length = dir.length
    BY DEF Unusable
  <2> HIDE DEF r
  <2>. QED
    BY <2>1, <2>2, OneCovers
<1>2. CASE MetaDecodes(dir.digest, dir.length)
  <2> DEFINE m == dir.digest
             n == Len(m)
             p == [i \in 1..(n + 1) |-> dir.offset + Offsets(m)[i]]
             g == [i \in DOMAIN m |->
                    LET offset == dir.offset + Offsets(m)[i]
                    IN  [kind |-> m[i].kind, path |-> Append(dir.path, offset), offset |-> offset,
                         length |-> m[i].length, digest |-> m[i].digest]]
             W == {i \in DOMAIN m : Overlaps(g[i], start, end)}
  <2>1. Lengths(m) /\ n \in Nat \ {0} /\ DOMAIN m = 1..n /\ Offsets(m)[n + 1] = dir.length
    BY <1>2 DEF MetaDecodes, MetaEncodes, Lengths, SpanOf
  <2>2. /\ Offsets(m) \in [1..(n + 1) -> Nat] /\ Offsets(m)[1] = 0
        /\ \A i \in 1..n : Offsets(m)[i + 1] = Offsets(m)[i] + m[i].length
    BY <2>1, OffsetsAre
  <2>3. Entries(dir, start, end) = Selected(g, W)
    BY <1>2 DEF Entries
  <2>4. \A i \in 1..n : m[i].length \in Nat \ {0}
    BY <2>1 DEF Lengths
  <2>5. \A i \in 1..n : g[i].offset = dir.offset + Offsets(m)[i] /\ g[i].length = m[i].length
    BY <2>1
  <2> HIDE DEF g, n
  <2>6. dir.offset \in Nat /\ dir.length \in Nat \ {0} /\ dir.offset < end
        /\ dir.offset + dir.length > start
    BY DEF IsRange, Overlaps, End
  <2> HIDE DEF m
  <2>7. p \in [1..(n + 1) -> Nat]
    BY <2>2, <2>6
  <2>8. p[1] = dir.offset /\ p[n + 1] = End(dir) /\ p[1] < end /\ p[n + 1] > start
    BY <2>1, <2>2, <2>6 DEF End
  <2>9. ASSUME NEW i \in 1..n
        PROVE  /\ p[i + 1] = p[i] + m[i].length /\ p[i] < p[i + 1]
               /\ g[i].offset = p[i] /\ g[i].length = p[i + 1] - p[i]
               /\ Overlaps(g[i], start, end) <=> p[i + 1] > start /\ p[i] < end
    <3> DEFINE o == Offsets(m)
    <3>0. i \in 1..(n + 1) /\ i + 1 \in 1..(n + 1)
      BY <2>1
    <3>1. p[i] = dir.offset + o[i] /\ p[i + 1] = dir.offset + o[i + 1] /\ o[i + 1] = o[i] + m[i].length
      BY <2>2, <3>0
    <3>2. o[i] \in Nat /\ m[i].length \in Nat \ {0}
      BY <2>2, <2>4, <3>0
    <3>3. g[i].offset = dir.offset + o[i] /\ g[i].length = m[i].length
      BY <2>5
    <3> HIDE DEF o, p
    <3>4. p[i + 1] = p[i] + m[i].length /\ p[i] < p[i + 1] /\ p[i] \in Nat
      BY <2>6, <3>1, <3>2
    <3>5. g[i].offset = p[i] /\ g[i].length = p[i + 1] - p[i]
      BY <3>1, <3>2, <3>3, <3>4
    <3>6. End(g[i]) = p[i + 1]
      BY <3>2, <3>3, <3>4, <3>5 DEF End
    <3>. QED
      BY <3>4, <3>5, <3>6 DEF Overlaps
  <2> HIDE DEF p
  <2>10. Ascends(p, n + 1)
    <3>1. \A i \in 2..(n + 1) : p[i - 1] < p[i]
      <4> SUFFICES ASSUME NEW i \in 2..(n + 1) PROVE p[i - 1] < p[i]
        OBVIOUS
      <4>1. i - 1 \in 1..n /\ i - 1 + 1 = i
        BY <2>1
      <4>2. p[i - 1] < p[i - 1 + 1]
        BY <2>9, <4>1
      <4>. QED
        BY <4>1, <4>2
    <3>2. n + 1 \in Nat
      BY <2>1
    <3>. QED
      BY <2>7, <3>1, <3>2, StepsAscend
  <2>11. PICK lo \in 1..n, hi \in 1..n :
           /\ lo <= hi
           /\ {i \in 1..n : p[i + 1] > start /\ p[i] < end} = lo..hi
           /\ lo = 1 \/ p[lo] <= start
           /\ hi = n \/ p[hi + 1] >= end
    <3>1. Windowed(p, n, start, end)
      BY <2>1, <2>7, <2>8, <2>10, Window
    <3>. QED
      BY <3>1 DEF Windowed
  <2>12. W = lo..hi
    BY <2>1, <2>9, <2>11
  <2>13. Covers(Selected(g, lo..hi), p[1], p[n + 1], start, end)
    <3>1. lo \in Nat /\ hi \in Nat /\ 1 <= lo /\ lo <= hi /\ hi <= n
      BY <2>1, <2>11
    <3>2. \A i \in lo..hi : p[i + 1] > start /\ p[i] < end
      BY <2>11
    <3>3. lo = 1 \/ p[lo] <= start
      BY <2>11
    <3>4. hi = n \/ p[hi + 1] >= end
      BY <2>11
    <3>5. \A i \in 1..n : g[i].offset = p[i] /\ g[i].length = p[i + 1] - p[i]
      BY <2>9
    <3>. QED
      BY <2>1, <2>7, <2>10, <3>1, <3>2, <3>3, <3>4, <3>5, SelectedCovers
  <2> HIDE DEF W
  <2>. QED
    BY <2>3, <2>8, <2>12, <2>13
<1>. QED
  BY <1>1, <1>2

LEMMA DescendCovers ==
  ASSUME NEW start \in Nat, NEW end \in Nat, start < end, NEW from \in Nat, NEW to \in Nat,
         NEW es, Covers(es, from, to, start, end), NEW store
  PROVE  Covers(Descend(es, start, end, store), from, to, start, end)
<1> DEFINE gs == [i \in DOMAIN es |-> Below(es[i], start, end, store)]
<1>1. ASSUME NEW i \in DOMAIN es
      PROVE  Covers(gs[i], es[i].offset, End(es[i]), start, end)
  <2> DEFINE e == es[i]
  <2>1. IsRange(e) /\ Overlaps(e, start, end)
    BY DEF Covers
  <2> HIDE DEF e
  <2>2. Covers(<<e>>, e.offset, End(e), start, end)
    BY <2>1, OneCovers
  <2>3. Covers(Unusable(e), e.offset, End(e), start, end)
    <3> DEFINE r == [kind |-> Broken, offset |-> e.offset, length |-> e.length]
    <3>1. Unusable(e) = <<r>> /\ r.offset = e.offset /\ r.length = e.length
      BY DEF Unusable
    <3> HIDE DEF r
    <3>. QED
      BY <2>1, <3>1, OneCovers
  <2>4. Covers(Entries(e, start, end), e.offset, End(e), start, end)
    BY <2>1, EntriesCover
  <2>5. Covers(Below(e, start, end, store), e.offset, End(e), start, end)
    BY <2>2, <2>3, <2>4 DEF Below
  <2>. QED
    BY <2>5 DEF e
<1>2. gs = [i \in DOMAIN es |-> gs[i]]
  OBVIOUS
<1>3. Descend(es, start, end, store) = FlattenSeq(gs)
  BY DEF Descend
<1> HIDE DEF gs
<1>. QED
  BY <1>1, <1>2, <1>3, FlattenCovers

LEMMA CoveringExists ==
  ASSUME NEW top, NEW size, NEW start, NEW end, NEW store, NEW n \in Nat
  PROVE  \E f : Covering(f, top, size, start, end, store, n)
<1> DEFINE Is(f, m) == Covering(f, top, size, start, end, store, m)
           Bad == {m \in 0..n : ~\E f : Is(f, m)}
<1>1. Bad = {}
  <2> SUFFICES ASSUME Bad # {} PROVE FALSE
    OBVIOUS
  <2>1. Bad \in SUBSET Nat
    OBVIOUS
  <2>2. PICK m \in Bad : \A k \in Bad : m <= k
    <3> HIDE DEF Bad
    <3>. QED
      BY <2>1, LeastNat
  <2>3. m # 0
    <3> DEFINE f == [depth \in 0..0 |-> Entries(TopDir(top, size), start, end)]
    <3>1. f = [depth \in 0..0 |-> IF depth = 0 THEN Entries(TopDir(top, size), start, end)
                                               ELSE Descend(f[depth - 1], start, end, store)]
      OBVIOUS
    <3>2. Is(f, 0)
      BY <3>1 DEF Covering
    <3>. QED
      BY <3>2
  <2>4. m \in 1..n /\ m - 1 \in 0..n /\ ~(m <= m - 1)
    BY <2>3
  <2>5. PICK f : Is(f, m - 1)
    <3>1. m - 1 \notin Bad
      <4> HIDE DEF Bad
      <4>. QED
        BY <2>2, <2>4
    <3>. QED
      BY <2>4, <3>1
  <2> DEFINE g == [depth \in 0..m |-> IF depth = 0 THEN Entries(TopDir(top, size), start, end)
                                      ELSE Descend(f[depth - 1], start, end, store)]
  <2>6. ASSUME NEW d \in 0..m, d # 0 PROVE g[d - 1] = f[d - 1]
    BY <2>4, <2>6, <2>5 DEF Covering
  <2>7. Is(g, m)
    BY <2>6 DEF Covering
  <2> HIDE DEF g
  <2>. QED
    BY <2>7
<1>. QED
  BY <1>1

LEMMA CoveringShardsCover ==
  ASSUME NEW start \in Nat, NEW end \in Nat, start < end, NEW size \in Nat, end <= size,
         NEW top, NEW store
  PROVE  Covers(CoveringShards(top, size, start, end, store), 0, size, start, end)
<1> DEFINE F == CHOOSE f : Covering(f, top, size, start, end, store, MaxDepth)
           Good(d) == Covers(F[d], 0, size, start, end)
           Bad == {d \in 0..MaxDepth : ~Good(d)}
<1>1. MaxDepth \in Nat
  BY TreeAssumption
<1>2. Covering(F, top, size, start, end, store, MaxDepth)
  BY <1>1, CoveringExists
<1>3. CoveringShards(top, size, start, end, store) = F[MaxDepth]
  BY DEF CoveringShards, Covering
<1> HIDE DEF F
<1>4. \A d \in 0..MaxDepth : F[d] = IF d = 0 THEN Entries(TopDir(top, size), start, end)
                                    ELSE Descend(F[d - 1], start, end, store)
  BY <1>2 DEF Covering
<1>5. Good(0)
  <2> DEFINE dir == TopDir(top, size)
  <2>1. dir.offset = 0 /\ dir.length = size
    BY DEF TopDir
  <2> HIDE DEF dir
  <2>2. IsRange(dir) /\ Overlaps(dir, start, end) /\ End(dir) = size
    BY <2>1 DEF IsRange, Overlaps, End
  <2>3. Covers(Entries(dir, start, end), 0, size, start, end)
    BY <2>1, <2>2, EntriesCover
  <2>4. F[0] = Entries(dir, start, end)
    BY <1>1, <1>4 DEF dir
  <2>. QED
    BY <2>3, <2>4
<1>6. ASSUME Bad # {} PROVE FALSE
  <2>1. Bad \in SUBSET Nat
    OBVIOUS
  <2>2. PICK d \in Bad : \A k \in Bad : d <= k
    <3> HIDE DEF Bad
    <3>. QED
      BY <1>6, <2>1, LeastNat
  <2>3. d \in 0..MaxDepth /\ ~Good(d)
    OBVIOUS
  <2>4. d # 0
    BY <1>5, <2>3
  <2>5. d - 1 \in 0..MaxDepth /\ ~(d <= d - 1)
    BY <1>1, <2>3, <2>4
  <2>6. Good(d - 1)
    <3>1. d - 1 \notin Bad
      <4> HIDE DEF Bad
      <4>. QED
        BY <2>2, <2>5
    <3> HIDE DEF Good
    <3>. QED
      BY <2>5, <3>1
  <2>7. F[d] = Descend(F[d - 1], start, end, store)
    BY <1>4, <2>3, <2>4
  <2>8. Good(d)
    BY <2>6, <2>7, DescendCovers
  <2>. QED
    BY <2>3, <2>8
<1>. QED
  BY <1>1, <1>3, <1>6

\* The search finds the only place where it may stop.
LEMMA SearchFinds ==
  ASSUME NEW s, NEW n \in Nat, Len(s) = n, DOMAIN s = 1..n, \A i \in 1..n : s[i].rel \in Nat,
         NEW rel \in Int, NEW lo \in 1..n, lo = 1 \/ s[lo].rel <= rel,
         \A j \in (lo + 1)..n : s[j].rel > rel
  PROVE  Search(s, rel) = lo
<1> DEFINE Stop(i) == (i = 1 \/ s[i].rel <= rel) /\ \A j \in (i + 1)..n : s[j].rel > rel
<1>1. Stop(lo)
  OBVIOUS
<1>2. ASSUME NEW i \in 1..n, Stop(i) PROVE i = lo
  BY <1>2
<1>3. Search(s, rel) = CHOOSE i \in 1..n : Stop(i)
  BY DEF Search
<1> HIDE DEF Stop
<1>. QED
  BY <1>1, <1>2, <1>3

LEMMA ShardLeavesCover ==
  ASSUME NEW start \in Nat, NEW end \in Nat, start < end,
         NEW e, IsRange(e), Overlaps(e, start, end), ValidShard(e.digest, e.length)
  PROVE  Covers(ShardLeavesFor(e, start, end), e.offset, End(e), start, end)
<1> DEFINE s == e.digest
           n == Len(s)
           p == [i \in 1..(n + 1) |-> IF i <= n THEN e.offset + s[i].rel ELSE End(e)]
           g == [i \in DOMAIN s |->
                    [offset |-> e.offset + s[i].rel,
                     length |-> (IF i < Len(s) THEN s[i + 1].rel ELSE e.length) - s[i].rel,
                     digest |-> s[i].digest]]
<1>1. /\ n \in Nat \ {0} /\ DOMAIN s = 1..n /\ s[1].rel = 0 /\ s[n].rel < e.length
      /\ \A i \in 1..n : s[i].rel \in Nat
      /\ \A i \in 2..n : s[i - 1].rel < s[i].rel
  BY DEF ValidShard, ShardEncodes
<1>2. e.offset \in Nat /\ e.length \in Nat \ {0} /\ e.offset < end /\ End(e) > start
      /\ End(e) = e.offset + e.length /\ End(e) \in Nat
  BY DEF IsRange, Overlaps, End
<1>3. \A i \in 1..n : /\ g[i].offset = e.offset + s[i].rel
                      /\ g[i].length = (IF i < n THEN s[i + 1].rel ELSE e.length) - s[i].rel
  BY <1>1
<1>4. ShardLeavesFor(e, start, end) =
        Selected(g, {i \in Search(s, start - e.offset)..n : g[i].offset < end})
  BY DEF ShardLeavesFor
<1> HIDE DEF g
<1> HIDE DEF n
<1> HIDE DEF s
<1>5. p \in [1..(n + 1) -> Nat]
  BY <1>1, <1>2
<1>6. /\ \A i \in 1..n : p[i] = e.offset + s[i].rel
      /\ p[n + 1] = End(e) /\ p[1] = e.offset
  BY <1>1, <1>2
<1> HIDE DEF p
<1>7. ASSUME NEW i \in 1..n
      PROVE  /\ p[i] \in Nat /\ p[i + 1] \in Nat /\ p[i] < p[i + 1]
             /\ g[i].offset = p[i] /\ g[i].length = p[i + 1] - p[i]
  <2>1. CASE i = n
    <3>1. p[i] = e.offset + s[i].rel /\ p[i + 1] = e.offset + e.length
      BY <1>2, <1>6, <2>1
    <3>2. s[i].rel \in Nat /\ s[i].rel < e.length
      BY <1>1, <2>1
    <3>3. g[i].offset = e.offset + s[i].rel /\ g[i].length = e.length - s[i].rel
      BY <1>1, <1>3, <2>1
    <3>. QED
      BY <1>2, <3>1, <3>2, <3>3
  <2>2. CASE i # n
    <3>1. i + 1 \in 1..n /\ i + 1 \in 2..n /\ i + 1 - 1 = i /\ i < n
      BY <1>1, <2>2
    <3>2. p[i] = e.offset + s[i].rel /\ p[i + 1] = e.offset + s[i + 1].rel
      BY <1>6, <3>1
    <3>3. s[i].rel \in Nat /\ s[i + 1].rel \in Nat
      BY <1>1, <3>1
    <3>4. s[i + 1 - 1].rel < s[i + 1].rel
      BY <1>1, <3>1
    <3>5. g[i].offset = e.offset + s[i].rel /\ g[i].length = s[i + 1].rel - s[i].rel
      BY <1>3, <3>1
    <3>. QED
      BY <1>2, <3>1, <3>2, <3>3, <3>4, <3>5
  <2>. QED
    BY <2>1, <2>2
<1>8. Ascends(p, n + 1)
  <2>1. \A i \in 2..(n + 1) : p[i - 1] < p[i]
    <3> SUFFICES ASSUME NEW i \in 2..(n + 1) PROVE p[i - 1] < p[i]
      OBVIOUS
    <3>1. i - 1 \in 1..n /\ i - 1 + 1 = i
      BY <1>1
    <3>2. p[i - 1] < p[i - 1 + 1]
      BY <1>7, <3>1
    <3>. QED
      BY <3>1, <3>2
  <2>2. n + 1 \in Nat
    BY <1>1
  <2>. QED
    BY <1>5, <2>1, <2>2, StepsAscend
<1>9. PICK lo \in 1..n, hi \in 1..n :
        /\ lo <= hi
        /\ {i \in 1..n : p[i + 1] > start /\ p[i] < end} = lo..hi
        /\ lo = 1 \/ p[lo] <= start
        /\ hi = n \/ p[hi + 1] >= end
  <2>1. n \in Nat \ {0} /\ p[n + 1] > start /\ p[1] < end
    BY <1>1, <1>2, <1>6
  <2>. QED
    <3>1. Windowed(p, n, start, end)
      BY <1>5, <1>8, <2>1, Window
    <3>. QED
      BY <3>1 DEF Windowed
<1>10. /\ lo \in Nat /\ hi \in Nat /\ 1 <= lo /\ lo <= hi /\ hi <= n
       /\ \A i \in lo..hi : p[i + 1] > start /\ p[i] < end
       /\ lo = 1 \/ p[lo] <= start
       /\ hi = n \/ p[hi + 1] >= end
  <2>1. lo \in Nat /\ hi \in Nat /\ 1 <= lo /\ lo <= hi /\ hi <= n
    BY <1>1, <1>9
  <2>2. \A i \in lo..hi : p[i + 1] > start /\ p[i] < end
    BY <1>9
  <2>3. (lo = 1 \/ p[lo] <= start) /\ (hi = n \/ p[hi + 1] >= end)
    BY <1>9
  <2>. QED
    BY <2>1, <2>2, <2>3
<1>11. ASSUME NEW i \in lo..n PROVE i \in 1..n /\ p[i + 1] > start
  <2>1. i \in 1..n /\ lo \in lo..hi /\ lo + 1 \in 1..(n + 1) /\ i + 1 \in 1..(n + 1)
        /\ (lo + 1 = i + 1 \/ lo + 1 < i + 1)
    BY <1>1, <1>10
  <2>2. p[lo + 1] > start
    BY <1>10, <2>1
  <2>3. p[lo + 1] = p[i + 1] \/ p[lo + 1] < p[i + 1]
    BY <1>8, <2>1 DEF Ascends
  <2>4. p[lo + 1] \in Nat /\ p[i + 1] \in Nat
    BY <1>5, <2>1
  <2>. QED
    BY <2>1, <2>2, <2>3, <2>4
<1>12. Search(s, start - e.offset) = lo
  <2> DEFINE rel == start - e.offset
  <2>1. rel \in Int
    BY <1>2
  <2>2. lo = 1 \/ s[lo].rel <= rel
    <3>1. p[lo] = e.offset + s[lo].rel /\ s[lo].rel \in Nat
      BY <1>1, <1>6
    <3>. QED
      BY <1>2, <1>10, <3>1
  <2>3. ASSUME NEW j \in (lo + 1)..n PROVE s[j].rel > rel
    <3>1. j - 1 \in lo..n /\ j - 1 + 1 = j /\ j \in 1..n
      BY <1>1, <1>10
    <3>2. p[j] > start
      BY <1>11, <3>1
    <3>3. p[j] = e.offset + s[j].rel /\ s[j].rel \in Nat
      BY <1>1, <1>6, <3>1
    <3>. QED
      BY <1>2, <3>2, <3>3
  <2>4. Len(s) = n
    BY DEF n
  <2> HIDE DEF rel
  <2>5. Search(s, rel) = lo
    BY <1>1, <2>1, <2>2, <2>3, <2>4, SearchFinds
  <2>. QED
    BY <2>5 DEF rel
<1>13. {i \in Search(s, start - e.offset)..n : g[i].offset < end} = lo..hi
  <2>1. ASSUME NEW i \in lo..n, g[i].offset < end PROVE i \in lo..hi
    BY <1>7, <1>11, <2>1, <1>9
  <2>2. ASSUME NEW i \in lo..hi PROVE i \in lo..n /\ g[i].offset < end
    <3>1. i \in 1..n /\ i \in lo..n /\ p[i] < end
      BY <1>1, <1>10
    <3>. QED
      BY <1>7, <3>1
  <2>. QED
    BY <1>12, <2>1, <2>2
<1>14. Covers(Selected(g, lo..hi), p[1], p[n + 1], start, end)
  BY <1>7, <1>1, <1>5, <1>8, <1>10, SelectedCovers
<1>. QED
  BY <1>4, <1>6, <1>13, <1>14

\* What leavesFor accepts covers the range it was asked for.
LEMMA LeavesCover ==
  ASSUME NEW start \in Nat, NEW end \in Nat, start < end, NEW size \in Nat, end <= size,
         NEW top, NEW store, LeavesFor(top, size, start, end, store).ok
  PROVE  Covers(LeavesFor(top, size, start, end, store).leaves, 0, size, start, end)
<1> DEFINE shards == CoveringShards(top, size, start, end, store)
           gs == [i \in DOMAIN shards |-> ShardLeavesFor(shards[i], start, end)]
<1>1. /\ \A i \in DOMAIN shards : GoodShard(shards[i], store)
      /\ LeavesFor(top, size, start, end, store).leaves = FlattenSeq(gs)
  BY DEF LeavesFor
<1>2. Covers(shards, 0, size, start, end)
  BY CoveringShardsCover
<1> HIDE DEF shards
<1>3. ASSUME NEW i \in DOMAIN shards
      PROVE  Covers(gs[i], shards[i].offset, End(shards[i]), start, end)
  <2> DEFINE e == shards[i]
  <2>1. IsRange(e) /\ Overlaps(e, start, end)
    BY <1>2 DEF Covers
  <2>2. ValidShard(e.digest, e.length)
    BY <1>1 DEF GoodShard
  <2> HIDE DEF e
  <2>3. Covers(ShardLeavesFor(e, start, end), e.offset, End(e), start, end)
    BY <2>1, <2>2, ShardLeavesCover
  <2>. QED
    BY <2>3 DEF e
<1>4. gs = [i \in DOMAIN shards |-> gs[i]]
  OBVIOUS
<1> HIDE DEF gs
<1>5. Covers(FlattenSeq(gs), 0, size, start, end)
  BY <1>2, <1>3, <1>4, FlattenCovers
<1>. QED
  BY <1>1, <1>5

-----------------------------------------------------------------------------
\* Every read is of [start, end) within the file its anchor names.
LEMMA ReadTiles ==
  ASSUME NEW pack, NEW start \in 0..(pack.anchor[2] - 1), NEW end \in (start + 1)..pack.anchor[2],
         Read(pack, start, end)
  PROVE  LeavesTile'
<1> DEFINE anchor == pack.anchor
           size == anchor[2]
           found == IF Supplies(ProofReader, <<Root>>, anchor) /\ DecodesDescriptor(anchor)
                    THEN LeavesFor(anchor[3], size, start, end, ProofReader)
                    ELSE [ok |-> FALSE, leaves |-> <<>>]
           r == [of |-> pack, start |-> start, end |-> end, ok |-> found.ok, leaves |-> found.leaves]
<1>1. got' = <<r>>
  BY DEF Read
<1>2. r.start = start /\ r.end = end /\ r.ok = found.ok /\ r.leaves = found.leaves
  OBVIOUS
<1> HIDE DEF r
<1>3. ToSet(got') = {r}
  BY <1>1 DEF ToSet
<1>4. CASE found.ok
  <2> DEFINE leaves == LeavesFor(anchor[3], size, start, end, ProofReader).leaves
  <2>1. /\ DecodesDescriptor(anchor) /\ LeavesFor(anchor[3], size, start, end, ProofReader).ok
        /\ found.leaves = leaves
    BY <1>4
  <2>2. size \in Nat
    <3>1. Lengths(anchor[3]) /\ SpanOf(anchor[3]) = size
      BY <2>1 DEF DecodesDescriptor, MetaDecodes, MetaEncodes, Lengths
    <3>2. Len(anchor[3]) + 1 \in 1..(Len(anchor[3]) + 1)
      BY <3>1 DEF Lengths
    <3>. QED
      BY <3>1, <3>2, OffsetsAre DEF SpanOf
  <2>3. start \in Nat /\ end \in Nat /\ start < end /\ end <= size
    BY <2>2
  <2> HIDE DEF found, size
  <2>4. Covers(leaves, 0, size, start, end)
    BY <2>1, <2>2, <2>3, LeavesCover
  <2> DEFINE n == Len(leaves)
  <2>5. /\ n \in Nat \ {0} /\ DOMAIN leaves = 1..n /\ 1 \in 1..n /\ n \in 1..n
        /\ \A i \in 1..n : leaves[i].offset \in Nat /\ End(leaves[i]) \in Nat /\ leaves[i].length \in Nat \ {0}
    BY <2>4, CoversParts
  <2>6. /\ \A i \in 2..n : leaves[i].offset = End(leaves[i - 1])
        /\ leaves[1].offset = 0 \/ leaves[1].offset <= start
        /\ End(leaves[n]) = size \/ End(leaves[n]) >= end
    BY <2>4 DEF Covers
  <2> HIDE DEF leaves, n
  <2>7. /\ leaves # <<>> /\ leaves[1].offset <= start /\ End(leaves[n]) >= end
        /\ \A i \in DOMAIN leaves : leaves[i].length > 0
    BY <2>2, <2>3, <2>5, <2>6
  <2>8. Last(leaves) = leaves[n]
    BY DEF Last, n
  <2>9. r.leaves = leaves
    BY <1>2, <2>1
  <2>. QED
    BY <1>2, <1>3, <2>6, <2>7, <2>8, <2>9 DEF LeavesTile, n
<1>5. CASE ~found.ok
  BY <1>2, <1>3, <1>5 DEF LeavesTile
<1>. QED
  BY <1>4, <1>5

LEMMA NothingReadTiles == ASSUME got' = NoRead PROVE LeavesTile'
<1>1. ToSet(got') = {}
  BY DEF ToSet, NoRead
<1>. QED
  BY <1>1 DEF LeavesTile

\* Whatever tree a publisher committed to, of whatever depth, and whatever the
\* disk holds: the leaves a client accepts follow one another without gap or
\* overlap and cover the range it asked for (leavesFor of proof-index.ts).
THEOREM AcceptedLeavesTile == Spec => []LeavesTile
<1>1. Init => LeavesTile
  BY DEF Init, ToSet, NoRead, LeavesTile
<1>2. LeavesTile /\ [Next]_vars => LeavesTile'
  BY NothingReadTiles, ReadTiles DEF LeavesTile, vars, Next
<1>. QED
  BY <1>1, <1>2, PTL DEF Spec

-----------------------------------------------------------------------------
(***************************************************************************)
(* The CAR: a DAG's post-order, each block at its first place in it.       *)
(***************************************************************************)
\* A set with 0 in it, and with every number its successor, up to m.
LEMMA Ascent ==
  ASSUME NEW T, NEW m \in Nat, 0 \in T,
         \A k \in 0..m : k \in T /\ k < m => k + 1 \in T
  PROVE  \A k \in 0..m : k \in T
<1> DEFINE Bad == {k \in 0..m : k \notin T}
<1> SUFFICES ASSUME Bad # {} PROVE FALSE
  OBVIOUS
<1>1. PICK k \in Bad : \A j \in Bad : k <= j
  <2>1. Bad \in SUBSET Nat
    OBVIOUS
  <2> HIDE DEF Bad
  <2>. QED
    BY <2>1, LeastNat
<1>2. k \in 0..m /\ k # 0
  OBVIOUS
<1> DEFINE j == k - 1
<1>3. j \in 0..m /\ ~(k <= j) /\ j < m /\ j + 1 = k
  BY <1>2
<1>4. j \in T
  <2> HIDE DEF j
  <2>. QED
    BY <1>1, <1>3
<1>5. j + 1 \in T
  <2> HIDE DEF j
  <2>. QED
    BY <1>3, <1>4
<1>. QED
  BY <1>3, <1>5

\* A function given step by step exists.
LEMMA Recursion ==
  ASSUME NEW S, NEW base \in S, NEW n \in Nat, NEW G \in [1..n -> [S -> S]]
  PROVE  \E f \in [0..n -> S] : f[0] = base /\ \A i \in 1..n : f[i] = G[i][f[i - 1]]
<1> DEFINE Upto(f, m) == f[0] = base /\ \A i \in 1..m : f[i] = G[i][f[i - 1]]
           T == {m \in 0..n : \E f \in [0..n -> S] : Upto(f, m)}
<1>1. 0 \in T
  <2> DEFINE f == [i \in 0..n |-> base]
  <2>1. f \in [0..n -> S] /\ Upto(f, 0)
    OBVIOUS
  <2>2. 0 \in 0..n
    OBVIOUS
  <2> HIDE DEF Upto, f
  <2>. QED
    BY <2>1, <2>2
<1>2. ASSUME NEW k \in 0..n, k \in T, k < n PROVE k + 1 \in T
  <2>1. PICK f \in [0..n -> S] : Upto(f, k)
    BY <1>2
  <2> DEFINE g == [i \in 0..n |-> IF i = k + 1 THEN G[k + 1][f[k]] ELSE f[i]]
  <2>2. k + 1 \in 1..n /\ f[k] \in S
    BY <1>2
  <2>3. G[k + 1] \in [S -> S]
    BY <2>2
  <2>4. G[k + 1][f[k]] \in S
    BY <2>2, <2>3
  <2>5. g \in [0..n -> S]
    BY <2>4
  <2>6. \A i \in 0..k : g[i] = f[i]
    BY <1>2
  <2>7. g[k + 1] = G[k + 1][f[k]]
    BY <2>2
  <2> HIDE DEF g
  <2>8. ASSUME NEW i \in 1..(k + 1) PROVE g[i] = G[i][g[i - 1]]
    BY <2>6, <2>7, <2>1
  <2>9. g[0] = base
    BY <2>1, <2>6
  <2>10. Upto(g, k + 1)
    BY <2>8, <2>9
  <2> HIDE DEF Upto
  <2>. QED
    BY <2>2, <2>5, <2>10
<1> HIDE DEF T
<1>3. \A k \in 0..n : k \in T
  BY <1>1, <1>2, Ascent
<1>. QED
  BY <1>3 DEF T

\* Removing repeated elements loses none and repeats none.
LEMMA KeptExists ==
  ASSUME NEW B, NEW s \in Seq(B)
  PROVE  \E f \in [0..Len(s) -> Seq(B)] : Kept(f, s, Len(s))
<1> DEFINE n == Len(s)
           S == Seq(B)
           base == <<>>
           G == [i \in 1..n |-> [q \in S |-> IF \E k \in DOMAIN q : q[k] = s[i] THEN q
                                             ELSE Append(q, s[i])]]
<1>1. n \in Nat /\ \A i \in 1..n : s[i] \in B
  OBVIOUS
<1>2. ASSUME NEW i \in 1..n, NEW q \in S
      PROVE  /\ G[i][q] = IF \E k \in DOMAIN q : q[k] = s[i] THEN q ELSE Append(q, s[i])
             /\ G[i][q] \in S
  BY <1>1
<1>3. G \in [1..n -> [S -> S]]
  BY <1>2
<1>4. base \in S
  OBVIOUS
<1> HIDE DEF G
<1> HIDE DEF S
<1>5. PICK f \in [0..n -> S] : f[0] = base /\ \A i \in 1..n : f[i] = G[i][f[i - 1]]
  <2> HIDE DEF n, base
  <2>1. n \in Nat
    BY <1>1
  <2>. QED
    BY ONLY <2>1, <1>3, <1>4, Recursion
<1>6. ASSUME NEW i \in 0..n
      PROVE  f[i] = LET before == f[i - 1]
                    IN  IF i = 0 THEN <<>>
                        ELSE IF \E k \in DOMAIN before : before[k] = s[i] THEN before
                        ELSE Append(before, s[i])
  <2>1. CASE i = 0
    BY <1>5, <2>1
  <2>2. CASE i # 0
    <3>1. i \in 1..n /\ f[i - 1] \in S
      BY <1>1, <2>2
    <3>. QED
      BY <1>2, <1>5, <2>2, <3>1
  <2>. QED
    BY <2>1, <2>2
<1>7. Kept(f, s, n)
  BY <1>6 DEF Kept
<1>. QED
  BY <1>7 DEF S

LEMMA FirstsAppend ==
  ASSUME NEW B, NEW u \in Seq(B), NEW s \in Seq(B), NEW m \in Nat, m + 1 \in 1..Len(s), Firsts(u, s, m),
         NEW v \in Seq(B), v = IF \E i \in DOMAIN u : u[i] = s[m + 1] THEN u ELSE Append(u, s[m + 1])
  PROVE  Firsts(v, s, m + 1)
<1> DEFINE n == Len(u)
           x == s[m + 1]
<1>1. n \in Nat /\ DOMAIN u = 1..n /\ x \in B /\ m + 1 \in 1..(m + 1)
      /\ \A y \in 1..(m + 1) : y \in 1..m \/ y = m + 1
  OBVIOUS
<1>2. CASE \E i \in DOMAIN u : u[i] = x
  <2>1. v = u
    BY <1>2
  <2>2. \A y \in 1..(m + 1) : \E i \in DOMAIN u : u[i] = s[y]
    BY <1>1, <1>2 DEF Firsts
  <2>3. ASSUME NEW i \in DOMAIN u
        PROVE  \E z \in 1..(m + 1) : s[z] = u[i] /\ \A y \in 1..(z - 1) : \E w \in 1..(i - 1) : u[w] = s[y]
    <3>1. PICK z \in 1..m : s[z] = u[i] /\ \A y \in 1..(z - 1) : \E w \in 1..(i - 1) : u[w] = s[y]
      BY DEF Firsts
    <3>2. z \in 1..(m + 1)
      OBVIOUS
    <3>. QED
      BY <3>1, <3>2
  <2>4. \A i, j \in DOMAIN u : u[i] = u[j] => i = j
    BY DEF Firsts
  <2> HIDE DEF x, n
  <2>. QED
    BY ONLY <2>1, <2>2, <2>3, <2>4 DEF Firsts
<1>3. CASE ~\E i \in DOMAIN u : u[i] = x
  <2>1. v = Append(u, x)
    BY <1>3
  <2>2. Len(v) = n + 1 /\ DOMAIN v = 1..(n + 1) /\ v[n + 1] = x /\ \A i \in 1..n : v[i] = u[i]
    BY <1>1, <2>1
  <2> HIDE DEF n, x
  <2>3. \A i \in 1..(n + 1) : i \in 1..n \/ i = n + 1
    BY <1>1
  <2>7. n \in Nat /\ n + 1 \in 1..(n + 1) /\ m + 1 \in 1..(m + 1)
    BY <1>1
  <2>8. v[n + 1] = s[m + 1]
    BY <2>2 DEF x
  <2>9. \A i \in 1..n : u[i] # x
    BY <1>1, <1>3
  <2>10. \A i, j \in 1..n : u[i] = u[j] => i = j
    BY <1>1 DEF Firsts
  <2>4. ASSUME NEW i \in 1..(n + 1), NEW j \in 1..(n + 1), v[i] = v[j]
        PROVE  i = j
    BY <2>3, <2>2, <2>4, <2>9, <2>10
  <2>5. ASSUME NEW y \in 1..(m + 1)
        PROVE  \E i \in 1..(n + 1) : v[i] = s[y]
    <3>1. CASE y = m + 1
      BY <2>8, <3>1, <2>7
    <3>2. CASE y \in 1..m
      <4>1. PICK i \in 1..n : u[i] = s[y]
        BY <1>1, <3>2 DEF Firsts
      <4>2. i \in 1..(n + 1) /\ v[i] = s[y]
        BY <2>2, <2>7, <4>1
      <4>. QED
        BY ONLY <4>2
    <3>. QED
      BY <1>1, <3>1, <3>2
  <2>6. ASSUME NEW i \in 1..(n + 1)
        PROVE  \E z \in 1..(m + 1) : s[z] = v[i] /\ \A y \in 1..(z - 1) : \E w \in 1..(i - 1) : v[w] = s[y]
    <3>1. CASE i = n + 1
      <4>1. ASSUME NEW y \in 1..m PROVE \E w \in 1..n : v[w] = s[y]
        BY <1>1, <2>2 DEF Firsts
      <4>2. m + 1 - 1 = m /\ i - 1 = n
        BY <1>1, <3>1
      <4>3. s[m + 1] = v[i]
        BY <2>8, <3>1
      <4>4. \A y \in 1..(m + 1 - 1) : \E w \in 1..(i - 1) : v[w] = s[y]
        BY <4>1, <4>2
      <4>5. m + 1 \in 1..(m + 1)
        BY <2>7
      <4> WITNESS m + 1 \in 1..(m + 1)
      <4>. QED
        BY ONLY <4>3, <4>4
    <3>2. CASE i \in 1..n
      <4>1. PICK z \in 1..m : s[z] = u[i] /\ \A y \in 1..(z - 1) : \E w \in 1..(i - 1) : u[w] = s[y]
        BY <1>1, <3>2 DEF Firsts
      <4>2. ASSUME NEW y \in 1..(z - 1) PROVE \E w \in 1..(i - 1) : v[w] = s[y]
        <5>1. PICK w \in 1..(i - 1) : u[w] = s[y]
          BY <4>1
        <5>2. w \in 1..n
          BY <1>1, <3>2
        <5>. QED
          BY <2>2, <5>1, <5>2
      <4>3. z \in 1..(m + 1) /\ s[z] = v[i]
        BY <2>2, <3>2, <4>1
      <4>. QED
        BY <4>2, <4>3
    <3>. QED
      BY <2>3, <3>1, <3>2
  <2>. QED
    BY <2>2, <2>4, <2>5, <2>6, ZenonT(60) DEF Firsts
<1>. QED
  BY <1>2, <1>3

\* UniqueBy of the elements themselves.
LEMMA UniqueIsFirsts ==
  ASSUME NEW B, NEW s \in Seq(B)
  PROVE  UniqueBy(s, LAMBDA b : b) \in Seq(B) /\ Firsts(UniqueBy(s, LAMBDA b : b), s, Len(s))
<1> DEFINE n == Len(s)
           f == CHOOSE f : Kept(f, s, n)
<1>1. n \in Nat
  OBVIOUS
<1>2. Kept(f, s, n)
  <2>1. \E g : Kept(g, s, n)
    BY KeptExists
  <2> HIDE DEF n
  <2>. QED
    BY <2>1
<1>3. UniqueBy(s, LAMBDA b : b) = f[n]
  BY DEF UniqueBy, Kept
<1> HIDE DEF f
<1>4. f[0] = <<>>
  BY <1>1, <1>2 DEF Kept
<1>5. \A i \in 1..n : f[i] = IF \E k \in DOMAIN f[i - 1] : f[i - 1][k] = s[i] THEN f[i - 1]
                            ELSE Append(f[i - 1], s[i])
  <2>1. ASSUME NEW i \in 1..n
        PROVE  f[i] = IF \E k \in DOMAIN f[i - 1] : f[i - 1][k] = s[i] THEN f[i - 1]
                      ELSE Append(f[i - 1], s[i])
    <3>1. i \in 0..n /\ i # 0
      OBVIOUS
    <3>. QED
      BY <1>2, <3>1 DEF Kept
  <2>. QED
    BY <2>1
<1> DEFINE T == {m \in 0..n : f[m] \in Seq(B) /\ Firsts(f[m], s, m)}
<1>6. 0 \in T
  <2>1. DOMAIN f[0] = {} /\ f[0] \in Seq(B) /\ 0 \in 0..n
    BY <1>1, <1>4
  <2>2. Firsts(f[0], s, 0)
    BY <2>1 DEF Firsts
  <2>. QED
    BY <2>1, <2>2
<1>7. ASSUME NEW k \in 0..n, k \in T, k < n PROVE k + 1 \in T
  <2>1. f[k] \in Seq(B) /\ Firsts(f[k], s, k) /\ k \in Nat /\ k + 1 \in 1..n /\ k + 1 - 1 = k
    BY <1>7
  <2>2. f[k + 1] = IF \E i \in DOMAIN f[k] : f[k][i] = s[k + 1] THEN f[k] ELSE Append(f[k], s[k + 1])
    BY <1>5, <2>1
  <2>3. s[k + 1] \in B
    BY <2>1
  <2>4. f[k + 1] \in Seq(B)
    BY <2>1, <2>2, <2>3
  <2>5. Firsts(f[k + 1], s, k + 1)
    BY <2>1, <2>2, <2>4, FirstsAppend
  <2>. QED
    BY <2>1, <2>4, <2>5
<1> HIDE DEF T
<1>8. \A k \in 0..n : k \in T
  BY <1>1, <1>6, <1>7, Ascent
<1>9. n \in 0..n
  BY <1>1
<1>. QED
  BY <1>3, <1>8, <1>9 DEF T

LEMMA KidsFirstJoin ==
  ASSUME NEW dag, NEW v, NEW w, KidsFirst(dag, v), KidsFirst(dag, w)
  PROVE  KidsFirst(dag, v \o w)
<1> DEFINE c == v \o w
           m == Len(v)
           n == Len(w)
           S == DOMAIN dag
<1>1. v \in Seq(S) /\ w \in Seq(S) /\ m \in Nat /\ n \in Nat /\ DOMAIN v = 1..m /\ DOMAIN w = 1..n
  BY DEF KidsFirst
<1>2. c \in Seq(S) /\ Len(c) = m + n /\ DOMAIN c = 1..(m + n)
      /\ (\A i \in 1..m : c[i] = v[i]) /\ \A i \in 1..n : c[m + i] = w[i]
  BY <1>1
<1> HIDE DEF c, m, n
<1>3. ASSUME NEW x \in 1..(m + n), NEW i \in DOMAIN dag[c[x]]
      PROVE  \E y \in 1..(x - 1) : c[y] = dag[c[x]][i]
  <2>1. CASE x \in 1..m
    <3>1. c[x] = v[x]
      BY <1>2, <2>1
    <3>2. PICK y \in 1..(x - 1) : v[y] = dag[v[x]][i]
      BY <1>1, <2>1, <3>1 DEF KidsFirst
    <3>3. y \in 1..m
      BY <1>1, <2>1
    <3>4. c[y] = dag[c[x]][i]
      BY <1>2, <3>1, <3>2, <3>3
    <3>. QED
      BY ONLY <3>4
  <2>2. CASE x \notin 1..m
    <3> DEFINE z == x - m
    <3>1. z \in 1..n /\ m + z = x
      BY <1>1, <2>2
    <3> HIDE DEF z
    <3>2. c[x] = w[z]
      BY <1>2, <3>1
    <3>3. PICK y \in 1..(z - 1) : w[y] = dag[w[z]][i]
      BY <1>1, <3>1, <3>2 DEF KidsFirst
    <3>4. y \in 1..n /\ m + y \in 1..(x - 1)
      BY <1>1, <3>1
    <3>5. c[m + y] = dag[c[x]][i]
      BY <1>2, <3>2, <3>3, <3>4
    <3>. QED
      BY ONLY <3>4, <3>5
  <2>. QED
    BY <2>1, <2>2
<1>. QED
  BY <1>2, <1>3 DEF KidsFirst, c

\* What is in a concatenation.
LEMMA ConcatSet ==
  ASSUME NEW S, NEW v \in Seq(S), NEW w \in Seq(S)
  PROVE  ToSet(v) \subseteq ToSet(v \o w) /\ ToSet(w) \subseteq ToSet(v \o w)
<1> DEFINE c == v \o w
           m == Len(v)
           n == Len(w)
<1>1. m \in Nat /\ n \in Nat /\ DOMAIN v = 1..m /\ DOMAIN w = 1..n
  OBVIOUS
<1>2. DOMAIN c = 1..(m + n) /\ (\A i \in 1..m : c[i] = v[i]) /\ \A i \in 1..n : c[m + i] = w[i]
  OBVIOUS
<1> HIDE DEF c, m, n
<1>3. ASSUME NEW i \in 1..m PROVE v[i] \in ToSet(c)
  BY <1>1, <1>2 DEF ToSet
<1>4. ASSUME NEW i \in 1..n PROVE w[i] \in ToSet(c)
  BY <1>1, <1>2 DEF ToSet
<1>5. ToSet(v) \subseteq ToSet(c)
  BY <1>1, <1>3 DEF ToSet
<1>6. ToSet(w) \subseteq ToSet(c)
  BY <1>1, <1>4 DEF ToSet
<1>. QED
  BY <1>5, <1>6 DEF c

\* The visits of a block's links, one after the other.
LEMMA FlattenKidsFirst ==
  ASSUME NEW dag, NEW n \in Nat, NEW gs, gs = [i \in 1..n |-> gs[i]],
         \A i \in 1..n : KidsFirst(dag, gs[i])
  PROVE  /\ KidsFirst(dag, FlattenSeq(gs))
         /\ \A i \in 1..n : ToSet(gs[i]) \subseteq ToSet(FlattenSeq(gs))
<1> DEFINE F == CHOOSE f : Joins(f, gs, n)
<1>1. Joins(F, gs, n)
  BY JoinsExist
<1> HIDE DEF F
<1>2. Len(gs) = n
  BY ValuesAreSeq
<1>3. CASE n = 0
  BY <1>2, <1>3 DEF FlattenSeq, KidsFirst
<1>4. CASE n # 0
  <2>1. FlattenSeq(gs) = F[n]
    BY <1>2, <1>4 DEF FlattenSeq, Joins, F
  <2>7. \A i \in 1..n : F[i] = IF i = 1 THEN gs[i] ELSE F[i - 1] \o gs[i]
    BY <1>1 DEF Joins
  <2>8. 1 \in 1..n /\ \A i \in 2..n : i \in 1..n /\ i # 1
    BY <1>4
  <2>2. F[1] = gs[1] /\ \A i \in 2..n : F[i] = F[i - 1] \o gs[i]
    BY <2>7, <2>8
  <2> DEFINE Good(m) == /\ KidsFirst(dag, F[m])
                        /\ \A i \in 1..m : ToSet(gs[i]) \subseteq ToSet(F[m])
             T == {m \in 0..(n - 1) : Good(m + 1)}
  <2>3. 0 \in T
    <3>1. 1 \in 1..n /\ 0 \in 0..(n - 1) /\ 0 + 1 = 1 /\ \A i \in 1..1 : i = 1
      BY <1>4
    <3>2. Good(1)
      BY <2>2, <3>1
    <3> HIDE DEF Good
    <3>. QED
      BY <3>1, <3>2
  <2>4. ASSUME NEW k \in 0..(n - 1), k \in T, k < n - 1 PROVE k + 1 \in T
    <3> DEFINE j == k + 1
    <3>1. Good(j) /\ j \in 1..n /\ j \in 0..(n - 1) /\ j + 1 \in 2..n /\ j + 1 \in 1..n /\ j + 1 - 1 = j /\ j \in Nat
      BY <2>4
    <3> HIDE DEF j
    <3>2. F[j + 1] = F[j] \o gs[j + 1]
      <4> DEFINE i == j + 1
      <4>1. i \in 2..n /\ i - 1 = j
        BY <3>1
      <4> HIDE DEF i
      <4>2. F[i] = F[j] \o gs[i]
        BY <2>2, <4>1
      <4>. QED
        BY <4>2 DEF i
    <3>3. KidsFirst(dag, gs[j + 1])
      BY <3>1
    <3>4. KidsFirst(dag, F[j + 1])
      BY <3>1, <3>2, <3>3, KidsFirstJoin
    <3>5. F[j] \in Seq(DOMAIN dag) /\ gs[j + 1] \in Seq(DOMAIN dag)
      BY <3>1, <3>3 DEF KidsFirst
    <3>6. ToSet(F[j]) \subseteq ToSet(F[j + 1]) /\ ToSet(gs[j + 1]) \subseteq ToSet(F[j + 1])
      BY ONLY <3>2, <3>5, ConcatSet
    <3>7. \A i \in 1..(j + 1) : i \in 1..j \/ i = j + 1
      BY <3>1
    <3>8. Good(j + 1)
      BY <3>1, <3>4, <3>6, <3>7
    <3> HIDE DEF Good
    <3>. QED
      BY <3>1, <3>8 DEF j
  <2>5. n - 1 \in Nat /\ n - 1 \in 0..(n - 1) /\ n - 1 + 1 = n
    BY <1>4
  <2> HIDE DEF T
  <2>6. \A k \in 0..(n - 1) : k \in T
    BY <2>3, <2>4, <2>5, Ascent
  <2>. QED
    BY <2>1, <2>5, <2>6 DEF T
<1>. QED
  BY <1>3, <1>4

LEMMA VisitsExist ==
  ASSUME NEW dag, IsDag(dag)
  PROVE  \E visit : Visits(visit, dag)
<1> DEFINE N == Len(dag)
           X == DOMAIN dag
           Body(f, b) == Append(FlattenSeq([i \in DOMAIN dag[b] |-> f[dag[b][i]]]), b)
           Upto(f, m) == \A b \in X : b > N - m => f[b] = Body(f, b)
           T == {m \in 0..N : \E f : Upto(f, m)}
<1>1. N \in Nat /\ X = 1..N
  BY DEF IsDag
<1>2. \A b \in X : \A i \in DOMAIN dag[b] : dag[b][i] \in (b + 1)..N
  BY DEF IsDag, ToSet
<1> HIDE DEF N
<1>3. 0 \in T
  <2>1. \A f : Upto(f, 0)
    BY <1>1
  <2>2. 0 \in 0..N
    BY <1>1
  <2> HIDE DEF Upto
  <2>. QED
    BY <2>1, <2>2
<1>4. ASSUME NEW k \in 0..N, k \in T, k < N PROVE k + 1 \in T
  <2>1. PICK f : Upto(f, k)
    BY <1>4
  <2> DEFINE g == [b \in X |-> Body(f, b)]
  <2>2. ASSUME NEW b \in X, b > N - (k + 1) PROVE g[b] = Body(g, b)
    <3>1. ASSUME NEW i \in DOMAIN dag[b] PROVE g[dag[b][i]] = f[dag[b][i]]
      <4> DEFINE c == dag[b][i]
      <4>1. c \in (b + 1)..N
        BY <1>2
      <4>2. c \in X /\ c > N - k
        BY <1>1, <1>4, <2>2, <4>1
      <4> HIDE DEF c
      <4>3. f[c] = Body(f, c)
        <5> HIDE DEF Body
        <5>. QED
          BY <2>1, <4>2
      <4>4. g[c] = Body(f, c)
        <5> HIDE DEF Body
        <5>. QED
          BY <4>2
      <4>. QED
        BY <4>3, <4>4 DEF c
    <3>2. [i \in DOMAIN dag[b] |-> g[dag[b][i]]] = [i \in DOMAIN dag[b] |-> f[dag[b][i]]]
      <4> HIDE DEF g
      <4>. QED
        BY <3>1
    <3>3. Body(g, b) = Body(f, b)
      <4> HIDE DEF g
      <4>. QED
        BY ONLY <3>2
    <3>4. g[b] = Body(f, b)
      <4> HIDE DEF Body
      <4>. QED
        BY <2>2
    <3> HIDE DEF Body, g
    <3>. QED
      BY <3>3, <3>4
  <2>3. k + 1 \in 0..N
    BY <1>1, <1>4
  <2> HIDE DEF g, Body
  <2>4. Upto(g, k + 1)
    BY <2>2
  <2> HIDE DEF Upto
  <2>. QED
    BY <2>3, <2>4
<1> HIDE DEF T
<1>5. \A k \in 0..N : k \in T
  BY <1>1, <1>3, <1>4, Ascent
<1>6. N \in 0..N
  BY <1>1
<1>7. PICK f : Upto(f, N)
  <2>1. N \in T
    BY <1>5, <1>6
  <2> HIDE DEF Upto
  <2>. QED
    BY <2>1 DEF T
<1> DEFINE h == [b \in X |-> f[b]]
<1>8. ASSUME NEW b \in X PROVE h[b] = Body(h, b)
  <2>1. b > N - N
    BY <1>1
  <2>2. f[b] = Body(f, b)
    <3> HIDE DEF Body
    <3>. QED
      BY <1>7, <2>1
  <2>3. ASSUME NEW i \in DOMAIN dag[b] PROVE h[dag[b][i]] = f[dag[b][i]]
    <3> DEFINE c == dag[b][i]
    <3>1. c \in X
      BY <1>1, <1>2
    <3> HIDE DEF c
    <3>2. h[c] = f[c]
      BY <3>1
    <3>. QED
      BY <3>2 DEF c
  <2>4. [i \in DOMAIN dag[b] |-> h[dag[b][i]]] = [i \in DOMAIN dag[b] |-> f[dag[b][i]]]
    <3> HIDE DEF h
    <3>. QED
      BY <2>3
  <2>5. Body(h, b) = Body(f, b)
    <3> HIDE DEF h
    <3>. QED
      BY ONLY <2>4
  <2>6. h[b] = f[b]
    OBVIOUS
  <2> HIDE DEF h, Body
  <2>. QED
    BY <2>2, <2>5, <2>6
<1>9. h = [b \in X |-> h[b]]
  OBVIOUS
<1> HIDE DEF h
<1>10. h = [b \in X |-> Body(h, b)]
  <2> HIDE DEF Body
  <2>. QED
    BY <1>8, <1>9
<1>11. Visits(h, dag)
  BY <1>10 DEF Visits
<1>. QED
  BY <1>11

\* Every visit ends with its block, after what it links to.
LEMMA VisitsAre ==
  ASSUME NEW dag, IsDag(dag), NEW visit, Visits(visit, dag), NEW b \in DOMAIN dag
  PROVE  KidsFirst(dag, visit[b]) /\ visit[b] # <<>> /\ visit[b][Len(visit[b])] = b
<1> DEFINE N == Len(dag)
           X == DOMAIN dag
           Good(c) == KidsFirst(dag, visit[c]) /\ c \in ToSet(visit[c]) /\ visit[c] # <<>>
                      /\ visit[c][Len(visit[c])] = c
           T == {m \in 0..N : \A c \in X : c > N - m => Good(c)}
<1>1. N \in Nat /\ X = 1..N
  BY DEF IsDag
<1>2. \A c \in X : \A i \in DOMAIN dag[c] : dag[c][i] \in (c + 1)..N
  BY DEF IsDag, ToSet
<1> HIDE DEF N
<1>3. 0 \in T
  <2>1. 0 \in 0..N /\ \A c \in X : ~(c > N - 0)
    BY <1>1
  <2> HIDE DEF Good
  <2>. QED
    BY <2>1
<1>4. ASSUME NEW k \in 0..N, k \in T, k < N PROVE k + 1 \in T
  <2>1. ASSUME NEW c \in X, c > N - (k + 1) PROVE Good(c)
    <3> DEFINE n == Len(dag[c])
               gs == [i \in DOMAIN dag[c] |-> visit[dag[c][i]]]
               v == FlattenSeq(gs)
    <3>1. dag[c] \in Seq(Nat) /\ n \in Nat /\ DOMAIN dag[c] = 1..n
      BY DEF IsDag
    <3>2. ASSUME NEW i \in 1..n PROVE Good(dag[c][i]) /\ gs[i] = visit[dag[c][i]]
      <4>1. dag[c][i] \in (c + 1)..N
        BY <1>2, <3>1
      <4>2. dag[c][i] \in X /\ dag[c][i] > N - k
        BY <1>1, <1>4, <2>1, <4>1
      <4>3. gs[i] = visit[dag[c][i]]
        BY <3>1
      <4> HIDE DEF Good, gs
      <4>. QED
        BY <1>4, <4>2, <4>3
    <3>3. gs = [i \in 1..n |-> gs[i]]
      BY <3>1
    <3>4. visit[c] = Append(v, c)
      BY DEF Visits
    <3> HIDE DEF gs, n
    <3>5. \A i \in 1..n : KidsFirst(dag, gs[i])
      BY <3>2
    <3>6. KidsFirst(dag, v) /\ \A i \in 1..n : ToSet(gs[i]) \subseteq ToSet(v)
      BY <3>1, <3>3, <3>5, FlattenKidsFirst
    <3> HIDE DEF v
    <3>7. \A i \in 1..n : dag[c][i] \in ToSet(v)
      BY <3>2, <3>6
    <3> DEFINE m == Len(v)
    <3>8. v \in Seq(X) /\ m \in Nat /\ DOMAIN v = 1..m
      BY <3>6 DEF KidsFirst
    <3> DEFINE w == Append(v, c)
    <3>9. w \in Seq(X) /\ Len(w) = m + 1 /\ DOMAIN w = 1..(m + 1) /\ w[m + 1] = c /\ w # <<>>
          /\ \A i \in 1..m : w[i] = v[i]
      BY <3>8
    <3> HIDE DEF w, m
    <3>10. ASSUME NEW x \in 1..(m + 1), NEW i \in DOMAIN dag[w[x]]
           PROVE  \E y \in 1..(x - 1) : w[y] = dag[w[x]][i]
      <4>1. CASE x \in 1..m
        <5>1. w[x] = v[x]
          BY <3>9, <4>1
        <5>2. PICK y \in 1..(x - 1) : v[y] = dag[v[x]][i]
          BY <3>6, <3>8, <4>1, <5>1 DEF KidsFirst
        <5>3. y \in 1..m
          BY <3>8, <4>1
        <5>4. w[y] = dag[w[x]][i]
          BY <3>9, <5>1, <5>2, <5>3
        <5>. QED
          BY ONLY <5>4
      <4>2. CASE x \notin 1..m
        <5>1. x = m + 1 /\ x - 1 = m
          BY <3>8, <4>2
        <5>2. w[x] = c /\ i \in 1..n
          BY <3>1, <3>9, <5>1
        <5>3. PICK y \in 1..m : v[y] = dag[c][i]
          BY <3>7, <3>8, <5>2 DEF ToSet
        <5>4. w[y] = dag[w[x]][i]
          BY <3>9, <5>2, <5>3
        <5>. QED
          BY <5>1, <5>4
      <4>. QED
        BY <4>1, <4>2
    <3>11. KidsFirst(dag, w)
      BY <3>9, <3>10 DEF KidsFirst
    <3>12. m + 1 \in 1..(m + 1)
      BY <3>8
    <3>13. c \in ToSet(w)
      BY <3>9, <3>12 DEF ToSet
    <3>. QED
      BY <3>4, <3>9, <3>11, <3>13 DEF w
  <2>2. k + 1 \in 0..N
    BY <1>1, <1>4
  <2> HIDE DEF Good
  <2>. QED
    BY <2>1, <2>2
<1> HIDE DEF T
<1>5. \A k \in 0..N : k \in T
  BY <1>1, <1>3, <1>4, Ascent
<1>6. N \in 0..N /\ b > N - N
  BY <1>1
<1>7. Good(b)
  <2>1. N \in T
    BY <1>5, <1>6
  <2> HIDE DEF Good
  <2>. QED
    BY <1>6, <2>1 DEF T
<1>. QED
  BY <1>7

\* The full CAR's order has every block once, after the blocks it links to.
LEMMA PostOrderIs ==
  ASSUME NEW dag, IsDag(dag), dag # NoCar
  PROVE  /\ KidsFirst(dag, PostOrder(dag))
         /\ ToSet(PostOrder(dag)) = DOMAIN dag
         /\ \A x, y \in DOMAIN PostOrder(dag) : PostOrder(dag)[x] = PostOrder(dag)[y] => x = y
<1> DEFINE N == Len(dag)
           X == DOMAIN dag
           visit == CHOOSE f : Visits(f, dag)
           v == visit[1]
           u == UniqueBy(v, LAMBDA b : b)
<1>1. N \in Nat \ {0} /\ X = 1..N /\ 1 \in X
  BY DEF IsDag, NoCar
<1>2. Visits(visit, dag)
  BY VisitsExist
<1>3. PostOrder(dag) = u
  BY DEF PostOrder, Visits
<1> HIDE DEF visit
<1>4. KidsFirst(dag, v) /\ v # <<>> /\ v[Len(v)] = 1
  BY <1>1, <1>2, VisitsAre
<1> HIDE DEF v
<1>5. v \in Seq(X)
  BY <1>4 DEF KidsFirst
<1>6. u \in Seq(X) /\ Firsts(u, v, Len(v))
  BY <1>5, UniqueIsFirsts
<1> HIDE DEF u
<1> DEFINE m == Len(v)
           n == Len(u)
<1>7. m \in Nat \ {0} /\ DOMAIN v = 1..m /\ n \in Nat /\ DOMAIN u = 1..n
  BY <1>4, <1>5, <1>6
<1> HIDE DEF m, n
<1>8. \A y \in 1..m : \E i \in 1..n : u[i] = v[y]
  BY <1>6, <1>7 DEF Firsts, m
<1>9. ASSUME NEW x \in 1..n, NEW i \in DOMAIN dag[u[x]]
      PROVE  \E y \in 1..(x - 1) : u[y] = dag[u[x]][i]
  <2>1. PICK z \in 1..m : v[z] = u[x] /\ \A y \in 1..(z - 1) : \E w \in 1..(x - 1) : u[w] = v[y]
    BY <1>6, <1>7 DEF Firsts, m
  <2>2. PICK y \in 1..(z - 1) : v[y] = dag[v[z]][i]
    BY <1>4, <1>7, <2>1 DEF KidsFirst
  <2>3. PICK w \in 1..(x - 1) : u[w] = v[y]
    BY <2>1
  <2>. QED
    BY <2>1, <2>2, <2>3
<1>10. KidsFirst(dag, u)
  BY <1>6, <1>7, <1>9 DEF KidsFirst
<1>11. ToSet(u) \subseteq X
  BY <1>6, <1>7 DEF ToSet
<1> DEFINE Bad == {b \in X : b \notin ToSet(u)}
<1>12. Bad = {}
  <2> SUFFICES ASSUME Bad # {} PROVE FALSE
    OBVIOUS
  <2>1. PICK b \in Bad : \A k \in Bad : b <= k
    <3>1. Bad \in SUBSET Nat
      BY <1>1
    <3> HIDE DEF Bad
    <3>. QED
      BY <3>1, LeastNat
  <2>2. b # 1
    BY <1>4, <1>7, <1>8 DEF m, ToSet
  <2>3. b \in 2..N
    BY <1>1, <2>2
  <2>4. PICK a \in X : b \in ToSet(dag[a])
    BY <2>3 DEF IsDag
  <2>5. a < b /\ a \in X
    BY <2>4, <1>1 DEF IsDag
  <2>6. a \notin Bad
    <3>1. ~(b <= a)
      BY <1>1, <2>3, <2>5
    <3> HIDE DEF Bad
    <3>. QED
      BY <2>1, <3>1
  <2>7. PICK x \in 1..n : u[x] = a
    BY <1>7, <2>5, <2>6 DEF ToSet
  <2>8. PICK i \in DOMAIN dag[a] : dag[a][i] = b
    BY <2>4 DEF ToSet
  <2>9. PICK y \in 1..(x - 1) : u[y] = b
    BY <1>9, <2>7, <2>8
  <2>10. y \in 1..n
    BY <1>7
  <2>11. b \in ToSet(u)
    BY <1>7, <2>9, <2>10 DEF ToSet
  <2>. QED
    BY <2>11
<1>13. ToSet(u) = X
  BY <1>11, <1>12
<1>14. \A x, y \in DOMAIN u : u[x] = u[y] => x = y
  BY <1>6 DEF Firsts
<1>. QED
  BY <1>3, <1>10, <1>13, <1>14

\* CarIsWhole, for every job, number of runs and fault: under its final name
\* the CAR has every block of some job's DAG once, after the blocks it links
\* to, and a run that is over left no .tmp.
THEOREM CarsAreWhole == Spec => []CarIsWhole
<1>1. ASSUME NEW j \in DiskJobs, j.car # NoCar, NEW c, c = PostOrder(j.car)
      PROVE  LET at(b) == {i \in DOMAIN c : c[i] = b}
             IN  /\ ToSet(c) = DOMAIN j.car
                 /\ \A b \in DOMAIN j.car : Cardinality(at(b)) = 1
                 /\ \A b \in DOMAIN j.car : \A i \in DOMAIN j.car[b] :
                       \A x \in at(j.car[b][i]), y \in at(b) : x < y
  <2> DEFINE dag == j.car
             at(b) == {i \in DOMAIN c : c[i] = b}
  <2>1. IsDag(dag)
    BY CarAssumption DEF IsDag
  <2>2. /\ KidsFirst(dag, c) /\ ToSet(c) = DOMAIN dag
        /\ \A x, y \in DOMAIN c : c[x] = c[y] => x = y
    BY <1>1, <2>1, PostOrderIs
  <2>3. DOMAIN c = 1..Len(c) /\ Len(c) \in Nat
    BY <2>2 DEF KidsFirst
  <2>4. ASSUME NEW b \in DOMAIN dag
        PROVE  Cardinality(at(b)) = 1
    <3>1. PICK x \in DOMAIN c : c[x] = b
      BY <2>2 DEF ToSet
    <3>2. at(b) = {x}
      BY <2>2, <3>1
    <3>. QED
      BY <3>2, FS_Singleton
  <2>5. ASSUME NEW b \in DOMAIN dag, NEW i \in DOMAIN dag[b], NEW x \in at(dag[b][i]), NEW y \in at(b)
        PROVE  x < y
    <3>1. x \in DOMAIN c /\ y \in DOMAIN c /\ c[x] = dag[b][i] /\ c[y] = b
      OBVIOUS
    <3>2. PICK z \in 1..(y - 1) : c[z] = dag[b][i]
      BY <2>2, <3>1 DEF KidsFirst
    <3>3. z \in DOMAIN c /\ z < y
      BY <2>3, <3>1
    <3>. QED
      BY <2>2, <3>1, <3>2, <3>3
  <2>. QED
    BY <2>2, <2>4, <2>5
<1>2. IInv => CarIsWhole
  <2> SUFFICES ASSUME IInv PROVE CarIsWhole
    OBVIOUS
  <2>1. phase \in {"done", "failed"} /\ opened => tmp = None
    BY DEF IInv, CarInv
  <2>2. ASSUME car # None
        PROVE  \E j \in DiskJobs :
                 LET at(b) == {i \in DOMAIN car : car[i] = b}
                 IN  /\ ToSet(car) = DOMAIN j.car
                     /\ \A b \in DOMAIN j.car : Cardinality(at(b)) = 1
                     /\ \A b \in DOMAIN j.car : \A i \in DOMAIN j.car[b] :
                           \A x \in at(j.car[b][i]), y \in at(b) : x < y
    <3>1. PICK j \in DiskJobs : j.car # NoCar /\ car = PostOrder(j.car)
      BY <2>2 DEF IInv, CarInv
    <3>. QED
      BY <1>1, <3>1
  <2>. QED
    BY <2>1, <2>2 DEF CarIsWhole
<1>. QED
  BY <1>2, Invariance, PTL

-----------------------------------------------------------------------------
(***************************************************************************)
(* The tree of a pack says what is true of its leaves.  First, runs of     *)
(* consecutive indices, and the subdirectories of a directory.             *)
(***************************************************************************)
\* Division that rounds up.
LEMMA CeilDivIs ==
  ASSUME NEW x \in Nat \ {0}, NEW y \in Nat \ {0}
  PROVE  /\ CeilDiv(x, y) \in Nat \ {0}
         /\ (CeilDiv(x, y) - 1) * y < x
         /\ x <= CeilDiv(x, y) * y
<1> DEFINE z == x + y - 1
           q == z \div y
<1>1. z \in Nat /\ z >= y /\ CeilDiv(x, y) = q
  BY DEF CeilDiv
<1> HIDE DEF z
<1>2. q \in Int /\ q * y <= z /\ z < q * y + y
  BY <1>1
<1> HIDE DEF q
<1>3. q >= 1
  BY <1>2, <1>1
<1>4. (q - 1) * y = q * y - y
  BY <1>2
<1>5. q * y \in Int
  BY <1>2
<1> DEFINE w == q * y
<1> HIDE DEF w
<1>6. w \in Int /\ w <= z /\ z < w + y /\ (q - 1) * y = w - y /\ z = x + y - 1
  BY <1>2, <1>4, <1>5 DEF w, z
<1>7. w - y < x /\ x <= w
  BY <1>6
<1>. QED
  BY <1>1, <1>2, <1>3, <1>6, <1>7 DEF w

LEMMA RunsParts ==
  ASSUME NEW g, NEW c, NEW a, NEW b, Runs(g, c, a, b)
  PROVE  /\ DOMAIN g = 1..c
         /\ \A k \in 1..c : g[k][1] \in a..b /\ g[k][2] \in g[k][1]..b
         /\ \A k \in 1..c : k < c => g[k + 1][1] = g[k][2] + 1
         /\ c # 0 => g[1][1] = a /\ g[c][2] = b
BY DEF Runs

\* The products of a factor below a count.
LEMMA Multiples ==
  ASSUME NEW c \in Nat \ {0}, NEW y \in Nat \ {0}, NEW k \in 1..c
  PROVE  /\ (k - 1) * y \in Nat /\ (k - 1) * y <= (c - 1) * y /\ k * y = (k - 1) * y + y
         /\ k < c => k * y <= (c - 1) * y
         /\ (c - 1) * y \in Nat
<1>1. k * y = (k - 1) * y + y /\ (k - 1) * y \in Nat /\ (c - 1) * y \in Nat
  OBVIOUS
<1>2. (c - k) * y \in Nat /\ (c - 1) * y = (k - 1) * y + (c - k) * y
  OBVIOUS
<1>3. (k - 1) * y <= (c - 1) * y
  BY <1>1, <1>2
<1>4. ASSUME k < c PROVE k * y <= (c - 1) * y
  BY <1>4
<1>. QED
  BY <1>1, <1>3, <1>4

\* Part of a directory stays at its top.
LEMMA HeadCountIs ==
  ASSUME NEW n \in Nat \ {0}
  PROVE  /\ HeadCount(n) \in 1..n
         /\ HeadCount(n) # n => n > MetaMaxEntries /\ HeadCount(n) < MetaMaxEntries
BY TreeAssumption DEF HeadCount

\* The subdirectories hold the rest, each less than the directory.
LEMMA NestedRuns ==
  ASSUME NEW a \in Nat, NEW b \in Nat, a <= b, NEW rest, rest = a + HeadCount(b - a + 1)
  PROVE  /\ rest \in (a + 1)..(b + 1)
         /\ NestsFrom(a, b, rest)
<1> DEFINE h == HeadCount(b - a + 1)
           x == b - rest + 1
           y == CeilDiv(x, MetaMaxEntries - h)
           c == IF rest = b + 1 THEN 0 ELSE CeilDiv(x, y)
           g == Nested(a, b)
<1>1. b - a + 1 \in Nat \ {0}
  OBVIOUS
<1>2. h \in 1..(b - a + 1) /\ (h # b - a + 1 => h < MetaMaxEntries)
  BY <1>1, HeadCountIs
<1>3. rest = a + h
  OBVIOUS
<1>4. (b - a + 1 <= MetaMaxEntries => h = b - a + 1) /\ (h = b - a + 1 => h <= MetaMaxEntries)
  BY <1>1, TreeAssumption DEF HeadCount
<1>5. g = [k \in 1..c |-> <<rest + (k - 1) * y, IF k = c THEN b ELSE rest + k * y - 1>>]
  BY DEF Nested
<1> HIDE DEF h, g
<1>6. rest \in (a + 1)..(b + 1)
  BY <1>2, <1>3
<1>7. CASE rest = b + 1
  BY <1>2, <1>3, <1>4, <1>7, <1>5, <1>6 DEF Runs, g, h, NestsFrom
<1>8. CASE rest # b + 1
  <2>1. x \in Nat \ {0} /\ MetaMaxEntries - h \in Nat \ {0} /\ x = b - rest + 1
    BY <1>2, <1>3, <1>6, <1>8, TreeAssumption
  <2> HIDE DEF x
  <2>2. y \in Nat \ {0} /\ x <= y * (MetaMaxEntries - h)
    BY <2>1, CeilDivIs
  <2> HIDE DEF y
  <2>3. c = CeilDiv(x, y)
    BY <1>8
  <2>4. c \in Nat \ {0} /\ (c - 1) * y < x /\ x <= c * y
    BY <2>1, <2>2, <2>3, CeilDivIs
  <2> HIDE DEF c
  <2>5. c <= MetaMaxEntries - h
    <3> SUFFICES ASSUME c > MetaMaxEntries - h PROVE FALSE
      BY <2>1, <2>4
    <3> DEFINE r == MetaMaxEntries - h
    <3>1. r \in Nat \ {0} /\ r <= c - 1 /\ c - 1 - r \in Nat
      BY <2>1, <2>4
    <3> HIDE DEF r
    <3>2. (c - 1) * y = y * r + (c - 1 - r) * y
      BY <2>2, <2>4, <3>1
    <3>3. (c - 1 - r) * y \in Nat /\ y * r \in Nat /\ (c - 1) * y \in Nat
      BY <2>2, <2>4, <3>1
    <3>4. x <= y * r
      BY <2>2 DEF r
    <3>. QED
      BY <2>1, <2>4, <3>2, <3>3, <3>4
  <2>6. ASSUME NEW k \in 1..c
        PROVE  /\ g[k][1] = rest + (k - 1) * y /\ g[k][2] = IF k = c THEN b ELSE rest + k * y - 1
               /\ g[k] = <<g[k][1], g[k][2]>>
    BY <1>5
  <2>7. ASSUME NEW k \in 1..c
        PROVE  /\ g[k][1] \in rest..b /\ g[k][2] \in g[k][1]..b
               /\ k < c => g[k + 1][1] = g[k][2] + 1
    <3> DEFINE u == (k - 1) * y
               w == (c - 1) * y
               v == k * y
    <3>1. u \in Nat /\ w \in Nat /\ u <= w /\ v = u + y /\ (k < c => v <= w)
      BY <2>2, <2>4, Multiples
    <3>2. w < x
      BY <2>4
    <3>3. g[k][1] = rest + u /\ g[k][2] = IF k = c THEN b ELSE rest + v - 1
      BY <2>6
    <3>4. k < c => g[k + 1][1] = rest + v
      BY <2>4, <2>6
    <3> HIDE DEF u, v, w
    <3>5. rest + u <= b /\ (k < c => rest + v <= b)
      BY <1>6, <2>1, <2>2, <3>1, <3>2
    <3>6. g[k][1] \in rest..b
      BY <1>6, <2>2, <3>1, <3>3, <3>5
    <3>7. CASE k = c
      BY <1>6, <2>2, <3>1, <3>3, <3>5, <3>6, <3>7
    <3>8. CASE k < c
      BY <1>6, <2>2, <3>1, <3>3, <3>4, <3>5, <3>6, <3>8
    <3>. QED
      BY <2>4, <3>7, <3>8
  <2>8. g[1][1] = rest /\ g[c][2] = b
    BY <2>2, <2>4, <1>6, <2>6
  <2>9. DOMAIN g = 1..c
    BY <1>5
  <2>10. Runs(g, c, rest, b)
    BY <2>6, <2>7, <2>8, <2>9 DEF Runs
  <2>11. c + h <= MetaMaxEntries
    BY <1>1, <1>2, TreeAssumption, <2>4, <2>5
  <2>12. c \in Nat /\ c # 0
    BY <2>4
  <2>13. \A k \in 1..c : g[k] = <<g[k][1], g[k][2]>>
    BY <2>6
  <2>. QED
    BY <1>6, <1>8, <2>10, <2>11, <2>12, <2>13 DEF g, h, NestsFrom
<1>. QED
  BY <1>7, <1>8

(***************************************************************************)
(* What a tree says of a file.  T is a set of <<kind, offset, length,      *)
(* digest>>; the records s say what T does of the range from x to y.       *)
(***************************************************************************)

\* Two sequences joined.
LEMMA JoinIs ==
  ASSUME NEW a, NEW b, IsSeq(a), IsSeq(b)
  PROVE  /\ IsSeq(a \o b) /\ Len(a) \in Nat /\ Len(b) \in Nat
         /\ Len(a \o b) = Len(a) + Len(b)
         /\ \A i \in 1..Len(a) : (a \o b)[i] = a[i]
         /\ \A i \in 1..Len(b) : (a \o b)[Len(a) + i] = b[i]
<1> DEFINE S == ToSet(a) \cup ToSet(b)
           c == a \o b
<1>1. a \in Seq(S) /\ b \in Seq(S)
  BY DEF IsSeq
<1> HIDE DEF S
<1>2. c \in Seq(S) /\ Len(c) = Len(a) + Len(b) /\ Len(a) \in Nat /\ Len(b) \in Nat
      /\ (\A i \in 1..Len(a) : c[i] = a[i]) /\ \A i \in 1..Len(b) : c[Len(a) + i] = b[i]
  BY <1>1
<1> HIDE DEF c
<1>3. DOMAIN c = 1..Len(c) /\ Len(c) \in Nat /\ c = [i \in 1..Len(c) |-> c[i]]
  BY <1>2
<1>4. IsSeq(c)
  BY <1>3, ValuesAreSeq
<1>. QED
  BY <1>2, <1>4 DEF c

\* What is said of a range, then of the next one.
LEMMA LinedJoin ==
  ASSUME NEW a, NEW b, NEW T, NEW x, NEW y, NEW z, Lined(a, T, x, y), Lined(b, T, y, z)
  PROVE  Lined(a \o b, T, x, z)
<1> DEFINE c == a \o b
           m == Len(a)
           n == Len(b)
<1>1. IsSeq(a) /\ IsSeq(b)
  BY DEF Lined
<1>2. /\ IsSeq(c) /\ m \in Nat /\ n \in Nat /\ Len(c) = m + n
      /\ (\A i \in 1..m : c[i] = a[i]) /\ \A i \in 1..n : c[m + i] = b[i]
  BY <1>1, JoinIs
<1>3. PICK q \in [1..(m + 1) -> Nat] : LinedAt(a, T, q, x, y)
  BY DEF Lined
<1>4. PICK r \in [1..(n + 1) -> Nat] : LinedAt(b, T, r, y, z)
  BY DEF Lined
<1>5. /\ q[1] = x /\ q[m + 1] = y
      /\ \A i \in 1..m : /\ a[i].length \in Nat \ {0} /\ q[i + 1] = q[i] + a[i].length
                         /\ <<a[i].kind, q[i], a[i].length, a[i].digest>> \in T
  BY <1>3 DEF LinedAt
<1>6. /\ r[1] = y /\ r[n + 1] = z
      /\ \A i \in 1..n : /\ b[i].length \in Nat \ {0} /\ r[i + 1] = r[i] + b[i].length
                         /\ <<b[i].kind, r[i], b[i].length, b[i].digest>> \in T
  BY <1>4 DEF LinedAt
<1> HIDE DEF c, m, n
<1> DEFINE p == [i \in 1..(m + n + 1) |-> IF i <= m THEN q[i] ELSE r[i - m]]
<1>7. p \in [1..(m + n + 1) -> Nat]
  <2>1. ASSUME NEW i \in 1..(m + n + 1) PROVE (IF i <= m THEN q[i] ELSE r[i - m]) \in Nat
    BY <1>2
  <2>. QED
    BY <2>1
<1>8. \A i \in 1..(m + n + 1) : p[i] = IF i <= m THEN q[i] ELSE r[i - m]
  OBVIOUS
<1> HIDE DEF p
<1>9. \A i \in 1..(m + 1) : p[i] = q[i]
  <2>1. \A i \in 1..m : p[i] = q[i]
    BY <1>2, <1>8
  <2>2. p[m + 1] = r[1]
    <3> DEFINE j == m + 1
    <3>1. j \in 1..(m + n + 1) /\ ~(j <= m) /\ j - m = 1
      BY <1>2
    <3> HIDE DEF j
    <3>2. p[j] = r[1]
      BY <1>8, <3>1
    <3>. QED
      BY <3>2 DEF j
  <2>3. \A i \in 1..(m + 1) : i \in 1..m \/ i = m + 1
    BY <1>2
  <2>. QED
    BY <1>5, <1>6, <2>1, <2>2, <2>3
<1>10. \A i \in 1..(n + 1) : p[m + i] = r[i]
  <2> SUFFICES ASSUME NEW i \in 1..(n + 1) PROVE p[m + i] = r[i]
    OBVIOUS
  <2> DEFINE j == m + i
  <2>1. j \in 1..(m + n + 1) /\ ~(j <= m) /\ j - m = i
    BY <1>2
  <2> HIDE DEF j
  <2>2. p[j] = r[i]
    BY <1>8, <2>1
  <2>. QED
    BY <2>2 DEF j
<1>11. ASSUME NEW i \in 1..(m + n)
       PROVE  /\ c[i].length \in Nat \ {0} /\ p[i + 1] = p[i] + c[i].length
              /\ <<c[i].kind, p[i], c[i].length, c[i].digest>> \in T
  <2>1. CASE i \in 1..m
    <3>1. c[i] = a[i] /\ p[i] = q[i] /\ p[i + 1] = q[i + 1]
      BY <1>2, <2>1, <1>9
    <3>. QED
      BY <1>5, <2>1, <3>1
  <2>2. CASE i \notin 1..m
    <3> DEFINE j == i - m
    <3>1. j \in 1..n /\ m + j = i /\ j \in 1..(n + 1) /\ j + 1 \in 1..(n + 1) /\ m + (j + 1) = i + 1
      BY <1>2, <2>2
    <3> HIDE DEF j
    <3>2. c[i] = b[j]
      BY <1>2, <3>1
    <3>3. p[i] = r[j]
      BY <1>10, <3>1
    <3>4. p[i + 1] = r[j + 1]
      BY <1>10, <3>1
    <3>. QED
      BY <1>6, <3>1, <3>2, <3>3, <3>4
  <2>. QED
    BY <2>1, <2>2
<1>12. p[1] = x /\ p[m + n + 1] = z
  BY <1>2, <1>10, <1>5, <1>6, <1>9
<1>13. LinedAt(c, T, p, x, z)
  BY <1>2, <1>11, <1>12 DEF LinedAt
<1>. QED
  BY <1>2, <1>7, <1>13 DEF Lined, c

\* Records that say what T does say what a larger set does.
LEMMA LinedLarger ==
  ASSUME NEW s, NEW T, NEW U, T \subseteq U, NEW x, NEW y, Lined(s, T, x, y)
  PROVE  Lined(s, U, x, y)
<1>1. PICK q \in [1..(Len(s) + 1) -> Nat] : LinedAt(s, T, q, x, y)
  BY DEF Lined
<1>2. LinedAt(s, U, q, x, y)
  BY <1>1 DEF LinedAt
<1>. QED
  BY <1>2 DEF Lined

\* Where the client places the records.
LEMMA LinedOffsets ==
  ASSUME NEW s, NEW T, NEW x \in Nat, NEW y, Lined(s, T, x, y)
  PROVE  /\ SpanOf(s) = y - x /\ y \in Nat
         /\ \A i \in DOMAIN s : <<s[i].kind, x + Offsets(s)[i], s[i].length, s[i].digest>> \in T
<1> DEFINE n == Len(s)
           o == Offsets(s)
<1>1. PICK q \in [1..(n + 1) -> Nat] : LinedAt(s, T, q, x, y)
  BY DEF Lined
<1>2. IsSeq(s) /\ n \in Nat /\ DOMAIN s = 1..n
  BY DEF Lined, IsSeq
<1>3. /\ q[1] = x /\ q[n + 1] = y
      /\ \A i \in 1..n : /\ s[i].length \in Nat \ {0} /\ q[i + 1] = q[i] + s[i].length
                         /\ <<s[i].kind, q[i], s[i].length, s[i].digest>> \in T
  BY <1>1 DEF LinedAt
<1>4. Lengths(s)
  BY <1>2, <1>3 DEF Lengths, IsSeq
<1>5. o \in [1..(n + 1) -> Nat] /\ o[1] = 0 /\ \A i \in 1..n : o[i + 1] = o[i] + s[i].length
  BY <1>4, OffsetsAre
<1>6. SpanOf(s) = o[n + 1]
  BY DEF SpanOf
<1> HIDE DEF n, o
<1> DEFINE W == {i \in 0..n : q[i + 1] = x + o[i + 1]}
<1>7. 0 \in W
  BY <1>2, <1>3, <1>5
<1>8. ASSUME NEW k \in 0..n, k \in W, k < n PROVE k + 1 \in W
  <2> DEFINE j == k + 1
  <2>1. j \in 1..n /\ j \in 0..n /\ j \in 1..(n + 1) /\ q[j] = x + o[j]
    BY <1>2, <1>8
  <2> HIDE DEF j
  <2>2. q[j + 1] = q[j] + s[j].length /\ o[j + 1] = o[j] + s[j].length /\ s[j].length \in Nat
    BY <1>3, <1>5, <2>1
  <2>3. o[j] \in Nat /\ q[j] \in Nat
    BY <1>5, <2>1
  <2>4. q[j + 1] = x + o[j + 1]
    BY <2>1, <2>2, <2>3
  <2>5. j \in W
    BY <2>1, <2>4
  <2>. QED
    BY <2>5 DEF j
<1> HIDE DEF W
<1>9. \A k \in 0..n : k \in W
  BY <1>2, <1>7, <1>8, Ascent
<1>10. \A i \in 1..(n + 1) : q[i] = x + o[i]
  <2> SUFFICES ASSUME NEW i \in 1..(n + 1) PROVE q[i] = x + o[i]
    OBVIOUS
  <2>1. i - 1 \in 0..n /\ i - 1 + 1 = i
    BY <1>2
  <2>. QED
    BY <1>9, <2>1 DEF W
<1>11. \A i \in 1..n : i \in 1..(n + 1)
  BY <1>2
<1>12. n + 1 \in 1..(n + 1)
  BY <1>2
<1>13. SpanOf(s) = y - x /\ y \in Nat
  BY <1>3, <1>5, <1>10, <1>12, <1>6
<1>14. \A i \in 1..n : <<s[i].kind, x + o[i], s[i].length, s[i].digest>> \in T
  BY <1>3, <1>10, <1>11
<1>. QED
  BY <1>2, <1>13, <1>14 DEF o

\* A part of a sequence.
LEMMA SubSeqIs ==
  ASSUME NEW s, IsSeq(s), NEW a \in Nat \ {0}, NEW b \in Nat, a <= b + 1, b <= Len(s)
  PROVE  /\ IsSeq(SubSeq(s, a, b)) /\ Len(SubSeq(s, a, b)) = b - a + 1
         /\ DOMAIN SubSeq(s, a, b) = 1..(b - a + 1)
         /\ \A i \in 1..(b - a + 1) : SubSeq(s, a, b)[i] = s[a + i - 1]
<1> DEFINE q == SubSeq(s, a, b)
           m == b - a + 1
<1>1. s \in Seq(ToSet(s)) /\ m \in Nat
  BY DEF IsSeq
<1>2. q \in Seq(ToSet(s)) /\ Len(q) = m
  BY <1>1
<1>3. q = [i \in 1..m |-> q[i]] /\ \A i \in 1..m : q[i] = s[a + i - 1]
  BY <1>1
<1> HIDE DEF q, m
<1>4. IsSeq(q) /\ Len(q) = m /\ DOMAIN q = 1..m
  BY <1>1, <1>3, ValuesAreSeq
<1>. QED
  BY <1>3, <1>4 DEF q, m

\* The range of a part of the shards.
LEMMA PartOfShards ==
  ASSUME NEW shards, NEW r, Placed(shards, r),
         NEW a \in Nat \ {0}, NEW b \in Nat, a <= b + 1, b <= Len(shards)
  PROVE  /\ SpanOf(SubSeq(shards, a, b)) = r[b + 1] - r[a]
         /\ r[a] \in Nat /\ r[b + 1] \in Nat /\ (a <= b => r[b + 1] - r[a] \in Nat \ {0})
<1> DEFINE q == SubSeq(shards, a, b)
           m == b - a + 1
           n == Len(shards)
           T == {<<shards[k].kind, r[k], shards[k].length, shards[k].digest>> : k \in 1..n}
           p == [i \in 1..(m + 1) |-> r[a + i - 1]]
<1>1. /\ IsSeq(shards) /\ r \in [1..(n + 1) -> Nat]
      /\ \A k \in 1..n : shards[k].length \in Nat \ {0} /\ r[k + 1] = r[k] + shards[k].length
  BY DEF Placed
<1>2. n \in Nat /\ m \in Nat
  BY <1>1 DEF IsSeq
<1>3. IsSeq(q) /\ Len(q) = m /\ \A i \in 1..m : q[i] = shards[a + i - 1]
  BY <1>1, SubSeqIs
<1>4. m + 1 = b + 1 - a + 1 /\ a + (m + 1) - 1 = b + 1 /\ a + 1 - 1 = a
  BY <1>2
<1>5. p \in [1..(m + 1) -> Nat]
  <2>1. \A i \in 1..(m + 1) : a + i - 1 \in 1..(n + 1)
    BY <1>2
  <2>. QED
    BY <1>1, <2>1
<1>6. \A i \in 1..(m + 1) : p[i] = r[a + i - 1]
  OBVIOUS
<1>7. p[1] = r[a] /\ p[m + 1] = r[b + 1]
  BY <1>2, <1>4, <1>6
<1>8. r[a] \in Nat /\ r[b + 1] \in Nat
  <2>1. a \in 1..(n + 1) /\ b + 1 \in 1..(n + 1)
    BY <1>2
  <2>. QED
    BY <1>1, <2>1
<1> HIDE DEF q, m, p, n
<1>9. ASSUME NEW i \in 1..m
      PROVE  /\ q[i].length \in Nat \ {0} /\ p[i + 1] = p[i] + q[i].length
             /\ <<q[i].kind, p[i], q[i].length, q[i].digest>> \in T
  <2> DEFINE k == a + i - 1
  <2>1. k \in 1..n /\ i \in 1..(m + 1) /\ i + 1 \in 1..(m + 1) /\ a + (i + 1) - 1 = k + 1
    BY <1>2 DEF m, n
  <2>2. q[i] = shards[k] /\ p[i] = r[k]
    BY <1>3, <1>6, <2>1
  <2>3. p[i + 1] = r[k + 1]
    BY <1>6, <2>1
  <2> HIDE DEF k
  <2>. QED
    BY <1>1, <2>1, <2>2, <2>3
<1>10. LinedAt(q, T, p, r[a], r[b + 1])
  <2> HIDE DEF T
  <2>. QED
    BY <1>3, <1>7, <1>9 DEF LinedAt
<1>11. Lined(q, T, r[a], r[b + 1])
  <2> HIDE DEF T
  <2>. QED
    BY <1>3, <1>5, <1>10 DEF Lined
<1>12. SpanOf(q) = r[b + 1] - r[a]
  <2> HIDE DEF T
  <2>. QED
    BY <1>8, <1>11, LinedOffsets
<1>13. ASSUME a <= b PROVE r[b + 1] - r[a] \in Nat \ {0}
  <2> DEFINE W == {i \in 1..m : ~(p[i + 1] > p[1])}
  <2>1. ASSUME W # {} PROVE FALSE
    <3>1. PICK i \in W : \A j \in W : i <= j
      <4>1. W \in SUBSET Nat
        OBVIOUS
      <4> HIDE DEF W
      <4>. QED
        BY <2>1, <4>1, LeastNat
    <3>2. i \in 1..m /\ i \in 1..(m + 1) /\ i + 1 \in 1..(m + 1) /\ 1 \in 1..(m + 1)
      BY <1>2
    <3>3. p[i + 1] \in Nat /\ p[i] \in Nat /\ p[1] \in Nat /\ p[i + 1] > p[i]
      BY <1>5, <1>9, <3>2
    <3>4. i # 1
      BY <3>2, <3>3
    <3> DEFINE j == i - 1
    <3>5. j \in 1..m /\ ~(i <= j) /\ j + 1 = i
      BY <1>2, <3>2, <3>4 DEF m
    <3>6. j \notin W
      <4> HIDE DEF W, j
      <4>. QED
        BY <3>1, <3>5
    <3>7. p[i] > p[1]
      <4> HIDE DEF j
      <4>. QED
        BY <3>5, <3>6
    <3>. QED
      BY <3>2, <3>3, <3>7
  <2>2. m \in 1..m
    BY <1>2, <1>13 DEF m
  <2>3. p[m + 1] > p[1]
    BY <2>1, <2>2
  <2>. QED
    BY <1>7, <1>8, <2>3
<1>. QED
  BY <1>8, <1>12, <1>13 DEF q

\* The records of a part of the shards.
LEMMA ShardRecordsLined ==
  ASSUME NEW shards, NEW r, Placed(shards, r), NEW T,
         \A k \in 1..Len(shards) : <<Shard, r[k], shards[k].length, shards[k].content>> \in T,
         NEW a \in Nat \ {0}, NEW b \in Nat, a <= b + 1, b <= Len(shards)
  PROVE  Lined(ShardRecords(SubSeq(shards, a, b)), T, r[a], r[b + 1])
<1> DEFINE q == SubSeq(shards, a, b)
           m == b - a + 1
           n == Len(shards)
           s == ShardRecords(q)
           p == [i \in 1..(m + 1) |-> r[a + i - 1]]
<1>1. /\ IsSeq(shards) /\ r \in [1..(n + 1) -> Nat]
      /\ \A k \in 1..n : shards[k].length \in Nat \ {0} /\ r[k + 1] = r[k] + shards[k].length
  BY DEF Placed
<1>2. n \in Nat /\ m \in Nat
  BY <1>1 DEF IsSeq
<1>3. DOMAIN q = 1..m /\ \A i \in 1..m : q[i] = shards[a + i - 1]
  BY <1>1, SubSeqIs
<1>4. m + 1 = b + 1 - a + 1 /\ a + (m + 1) - 1 = b + 1 /\ a + 1 - 1 = a
  BY <1>2
<1>5. p \in [1..(m + 1) -> Nat]
  <2>1. \A i \in 1..(m + 1) : a + i - 1 \in 1..(n + 1)
    BY <1>2
  <2>. QED
    BY <1>1, <2>1
<1>6. \A i \in 1..(m + 1) : p[i] = r[a + i - 1]
  OBVIOUS
<1>7. p[1] = r[a] /\ p[m + 1] = r[b + 1]
  BY <1>2, <1>4, <1>6
<1>8. s = [i \in 1..m |-> [kind |-> Shard, length |-> q[i].length, digest |-> q[i].content]]
  BY <1>3 DEF ShardRecords
<1>9. s = [i \in 1..m |-> s[i]]
      /\ \A i \in 1..m : s[i].kind = Shard /\ s[i].length = q[i].length /\ s[i].digest = q[i].content
  BY <1>8
<1> HIDE DEF s, q, m, p, n
<1>10. IsSeq(s) /\ Len(s) = m
  BY <1>2, <1>9, ValuesAreSeq
<1>11. ASSUME NEW i \in 1..m
       PROVE  /\ s[i].length \in Nat \ {0} /\ p[i + 1] = p[i] + s[i].length
              /\ <<s[i].kind, p[i], s[i].length, s[i].digest>> \in T
  <2> DEFINE k == a + i - 1
  <2>1. k \in 1..n /\ i \in 1..(m + 1) /\ i + 1 \in 1..(m + 1) /\ a + (i + 1) - 1 = k + 1
    BY <1>2 DEF m, n
  <2>2. q[i] = shards[k] /\ p[i] = r[k]
    BY <1>3, <1>6, <2>1
  <2>3. p[i + 1] = r[k + 1]
    BY <1>6, <2>1, SMTT(30)
  <2> HIDE DEF k
  <2>4. s[i].kind = Shard /\ s[i].length = shards[k].length /\ s[i].digest = shards[k].content
    BY <1>9, <2>2
  <2>5. <<Shard, r[k], shards[k].length, shards[k].content>> \in T
    BY <2>1 DEF n
  <2>. QED
    BY <1>1, <2>1, <2>2, <2>3, <2>4, <2>5
<1>12. LinedAt(s, T, p, r[a], r[b + 1])
  BY <1>7, <1>10, <1>11 DEF LinedAt
<1>. QED
  BY <1>5, <1>10, <1>12 DEF Lined, s, q

\* The records of directories of consecutive runs of the shards.
LEMMA DirsLined ==
  ASSUME NEW shards, NEW r, Placed(shards, r), NEW a \in Nat \ {0}, NEW b \in Nat, a <= b, b <= Len(shards),
         NEW c \in Nat \ {0}, NEW g, Runs(g, c, a, b), NEW s, NEW meta, NEW T,
         s = [k \in 1..c |-> DirRecord(SubSeq(shards, g[k][1], g[k][2]), meta[k])],
         \A k \in 1..c : <<Dir, r[g[k][1]], r[g[k][2] + 1] - r[g[k][1]], meta[k]>> \in T
  PROVE  Lined(s, T, r[a], r[b + 1])
<1> DEFINE p == [k \in 1..(c + 1) |-> IF k = c + 1 THEN r[b + 1] ELSE r[g[k][1]]]
           n == Len(shards)
<1>1. /\ IsSeq(shards) /\ r \in [1..(n + 1) -> Nat] /\ n \in Nat /\ b <= n
  BY DEF Placed, IsSeq
<1> HIDE DEF n
<1>2. \A k \in 1..c : /\ g[k][1] \in a..b /\ g[k][2] \in g[k][1]..b
                      /\ k < c => g[k + 1][1] = g[k][2] + 1
  BY RunsParts
<1>3. g[1][1] = a /\ g[c][2] = b
  BY RunsParts
<1>4. ASSUME NEW k \in 1..c
      PROVE  /\ s[k].kind = Dir /\ s[k].digest = meta[k]
             /\ s[k].length = r[g[k][2] + 1] - r[g[k][1]] /\ s[k].length \in Nat \ {0}
             /\ r[g[k][1]] \in Nat /\ r[g[k][2] + 1] \in Nat
  <2> DEFINE x == g[k][1]
             y == g[k][2]
  <2>1. x \in Nat \ {0} /\ y \in Nat /\ x <= y + 1 /\ x <= y /\ y <= Len(shards)
    <3>1. x \in a..b /\ y \in x..b
      BY <1>2
    <3> HIDE DEF x, y
    <3>. QED
      BY <1>1, <3>1 DEF n
  <2>2. s[k] = DirRecord(SubSeq(shards, x, y), meta[k])
    OBVIOUS
  <2> HIDE DEF x, y
  <2>3. /\ SpanOf(SubSeq(shards, x, y)) = r[y + 1] - r[x]
        /\ r[x] \in Nat /\ r[y + 1] \in Nat /\ r[y + 1] - r[x] \in Nat \ {0}
    BY <2>1, PartOfShards
  <2>4. s[k].kind = Dir /\ s[k].digest = meta[k] /\ s[k].length = SpanOf(SubSeq(shards, x, y))
    BY <2>2 DEF DirRecord
  <2>. QED
    BY <2>3, <2>4 DEF x, y
<1>5. s = [k \in 1..c |-> s[k]]
  OBVIOUS
<1>6. IsSeq(s) /\ Len(s) = c
  BY <1>5, ValuesAreSeq
<1>7. \A k \in 1..(c + 1) : p[k] = IF k = c + 1 THEN r[b + 1] ELSE r[g[k][1]]
  OBVIOUS
<1>8. r[b + 1] \in Nat
  BY <1>1
<1>9. p \in [1..(c + 1) -> Nat]
  BY <1>4, <1>8
<1> HIDE DEF p
<1>10. \A k \in 1..c : p[k] = r[g[k][1]]
  BY <1>7
<1>11. p[c + 1] = r[b + 1]
  BY <1>7
<1>12. ASSUME NEW k \in 1..c PROVE p[k + 1] = r[g[k][2] + 1]
  <2>1. CASE k = c
    BY <1>3, <1>11, <2>1
  <2>2. CASE k # c
    <3> DEFINE j == k + 1
    <3>1. j \in 1..c /\ k < c
      BY <2>2
    <3>2. g[j][1] = g[k][2] + 1
      BY <1>2, <3>1
    <3> HIDE DEF j
    <3>3. p[j] = r[g[j][1]]
      BY <1>10, <3>1
    <3>. QED
      BY <3>2, <3>3 DEF j
  <2>. QED
    BY <2>1, <2>2
<1>13. p[1] = r[a]
  BY <1>3, <1>10
<1>14. ASSUME NEW k \in 1..c
       PROVE  /\ s[k].length \in Nat \ {0} /\ p[k + 1] = p[k] + s[k].length
              /\ <<s[k].kind, p[k], s[k].length, s[k].digest>> \in T
  <2> DEFINE x == r[g[k][1]]
             y == r[g[k][2] + 1]
  <2>1. p[k] = x /\ p[k + 1] = y /\ x \in Nat /\ y \in Nat /\ s[k].length = y - x
        /\ s[k].length \in Nat \ {0}
    BY <1>4, <1>10, <1>12
  <2>2. <<Dir, x, y - x, meta[k]>> \in T
    OBVIOUS
  <2>3. s[k].kind = Dir /\ s[k].digest = meta[k]
    BY <1>4
  <2> HIDE DEF x, y
  <2>. QED
    BY <2>1, <2>2, <2>3
<1>15. LinedAt(s, T, p, r[a], r[b + 1])
  BY <1>6, <1>11, <1>13, <1>14 DEF LinedAt
<1>. QED
  BY <1>6, <1>9, <1>15 DEF Lined

-----------------------------------------------------------------------------
(***************************************************************************)
(* What emitDir emits, by the directory it is called for.                  *)
(***************************************************************************)
\* The subdirectories of a..b are parts of it, and smaller.
LEMMA NestedParts ==
  ASSUME NEW a \in Nat \ {0}, NEW b \in Nat \ {0}, NEW k \in DOMAIN Nested(a, b)
  PROVE  \E x \in (a + 1)..b : \E y \in x..b : Nested(a, b)[k] = <<x, y>>
<1> DEFINE g == Nested(a, b)
           rest == a + HeadCount(b - a + 1)
<1>1. CASE a <= b
  <2>8. rest = a + HeadCount(b - a + 1) /\ a \in Nat /\ b \in Nat
    OBVIOUS
  <2> HIDE DEF rest
  <2> HIDE DEF g
  <2>0. /\ rest \in (a + 1)..(b + 1)
        /\ NestsFrom(a, b, rest)
    BY ONLY <1>1, <2>8, NestedRuns
  <2>1. PICK c \in Nat : /\ Runs(g, c, rest, b) /\ (c = 0 <=> rest = b + 1)
                         /\ c + HeadCount(b - a + 1) <= MetaMaxEntries
                         /\ \A i \in 1..c : g[i] = <<g[i][1], g[i][2]>>
    BY ONLY <2>0 DEF g, NestsFrom
  <2>2. rest \in (a + 1)..(b + 1)
    BY <2>0
  <2>3. DOMAIN g = 1..c /\ \A i \in 1..c : g[i][1] \in rest..b /\ g[i][2] \in g[i][1]..b
    BY <2>1, RunsParts
  <2>4. k \in 1..c
    BY <2>3 DEF g
  <2>5. g[k][1] \in rest..b /\ g[k][2] \in g[k][1]..b /\ g[k] = <<g[k][1], g[k][2]>>
    BY <2>1, <2>3, <2>4
  <2> DEFINE x == g[k][1]
             y == g[k][2]
  <2>6. x \in rest..b /\ y \in x..b /\ g[k] = <<x, y>>
    BY <2>5
  <2> HIDE DEF x, y
  <2>7. x \in (a + 1)..b
    BY <2>2, <2>6
  <2>. QED
    BY <2>6, <2>7 DEF g
<1>2. CASE ~(a <= b)
  BY <1>2, TreeAssumption DEF HeadCount, Nested
<1>. QED
  BY <1>1, <1>2

\* The body depends on the subdirectories alone.
LEMMA SameBody ==
  ASSUME NEW shards, NEW f, NEW g, NEW r,
         \A k \in DOMAIN Nested(r[1], r[2]) : f[Nested(r[1], r[2])[k]] = g[Nested(r[1], r[2])[k]]
  PROVE  EmitBody(f, shards, r) = EmitBody(g, shards, r)
<1> DEFINE n == Nested(r[1], r[2])
           Group(k) == SubSeq(shards, n[k][1], n[k][2])
<1>1. \A k \in DOMAIN n : f[n[k]] = g[n[k]]
  OBVIOUS
<1> HIDE DEF n
<1>2. [k \in DOMAIN n |-> Under(Group(k), f[n[k]])] = [k \in DOMAIN n |-> Under(Group(k), g[n[k]])]
  BY <1>1
<1>3. [k \in DOMAIN n |-> DirRecord(Group(k), f[n[k]].meta)] = [k \in DOMAIN n |-> DirRecord(Group(k), g[n[k]].meta)]
  BY <1>1
<1> HIDE DEF Group
<1> DEFINE head == SubSeq(shards, r[1], r[1] + HeadCount(r[2] - r[1] + 1) - 1)
           B(h) == [files |-> FlattenSeq([k \in DOMAIN n |-> Under(Group(k), h[n[k]])])
                               \o ShardFiles(head),
                    meta |-> ShardRecords(head)
                               \o [k \in DOMAIN n |-> DirRecord(Group(k), h[n[k]].meta)]]
<1>4. \A h : EmitBody(h, shards, r) = B(h)
  BY DEF EmitBody, n, Group
<1> HIDE DEF head
<1>5. B(f) = B(g)
  BY <1>2, <1>3
<1>. QED
  BY <1>4, <1>5

\* emitDir's recursion, on ever smaller directories, defines a function.
LEMMA EmitsExist ==
  ASSUME NEW shards, Len(shards) \in Nat
  PROVE  \E f : Emits(f, shards)
<1> DEFINE N == Len(shards)
           X == (1..N) \X (1..N)
           Below2(r, m) == r[2] - r[1] + N < m
           Upto(f, m) == \A r \in X : Below2(r, m) => f[r] = EmitBody(f, shards, r)
           M == N + N
           T == {m \in 0..M : \E f : Upto(f, m)}
<1>1. N \in Nat /\ M \in Nat
  OBVIOUS
<1> HIDE DEF N
<1>2. ASSUME NEW r \in X, NEW k \in DOMAIN Nested(r[1], r[2])
      PROVE  \E s \in X : s = Nested(r[1], r[2])[k] /\ s[2] - s[1] < r[2] - r[1]
  <2> DEFINE a == r[1]
             b == r[2]
  <2>1. a \in 1..N /\ b \in 1..N
    OBVIOUS
  <2> HIDE DEF a, b
  <2>2. PICK x \in (a + 1)..b : \E y \in x..b : Nested(a, b)[k] = <<x, y>>
    BY <2>1, NestedParts DEF a, b
  <2>3. PICK y \in x..b : Nested(a, b)[k] = <<x, y>>
    BY <2>2
  <2> DEFINE s == <<x, y>>
  <2>4. x \in 1..N /\ y \in 1..N /\ y - x < b - a
    BY <1>1, <2>1
  <2>5. s \in X /\ s[2] - s[1] < b - a /\ s = Nested(a, b)[k]
    BY <2>3, <2>4
  <2>. QED
    BY <2>5 DEF a, b
<1>3. ASSUME NEW r \in X PROVE r[1] \in 1..N /\ r[2] \in 1..N
  OBVIOUS
<1> HIDE DEF X
<1>4. 0 \in T
  <2>1. \A r \in X : ~Below2(r, 0)
    BY <1>1, <1>3
  <2>2. \A f : Upto(f, 0)
    <3> HIDE DEF Below2
    <3>. QED
      BY <2>1
  <2>3. 0 \in 0..M
    BY <1>1
  <2> HIDE DEF Upto
  <2>. QED
    BY <2>2, <2>3
<1>5. ASSUME NEW k \in 0..M, k \in T, k < M PROVE k + 1 \in T
  <2>1. PICK f : Upto(f, k)
    BY <1>5
  <2> DEFINE g == [r \in X |-> EmitBody(f, shards, r)]
  <2>2. ASSUME NEW r \in X, Below2(r, k + 1) PROVE g[r] = EmitBody(g, shards, r)
    <3>1. ASSUME NEW i \in DOMAIN Nested(r[1], r[2])
          PROVE  f[Nested(r[1], r[2])[i]] = g[Nested(r[1], r[2])[i]]
      <4>1. PICK s \in X : s = Nested(r[1], r[2])[i] /\ s[2] - s[1] < r[2] - r[1]
        BY <1>2
      <4>2. Below2(s, k)
        <5>1. {s[1], s[2], r[1], r[2]} \subseteq Nat /\ k \in Nat
          BY <1>1, <1>3
        <5>. QED
          BY <1>1, <2>2, <4>1, <5>1
      <4>3. f[s] = EmitBody(f, shards, s)
        <5> HIDE DEF Below2
        <5>. QED
          BY <2>1, <4>2
      <4>4. g[s] = EmitBody(f, shards, s)
        OBVIOUS
      <4> HIDE DEF g
      <4>. QED
        BY <4>1, <4>3, <4>4
    <3>2. g[r] = EmitBody(f, shards, r)
      OBVIOUS
    <3> HIDE DEF g
    <3>3. EmitBody(f, shards, r) = EmitBody(g, shards, r)
      BY <3>1, SameBody
    <3>. QED
      BY <3>2, <3>3
  <2>3. k + 1 \in 0..M
    BY <1>1, <1>5
  <2> HIDE DEF g, Below2
  <2>4. Upto(g, k + 1)
    BY <2>2
  <2> HIDE DEF Upto
  <2>. QED
    BY <2>3, <2>4
<1> HIDE DEF T
<1>6. \A k \in 0..M : k \in T
  <2> HIDE DEF M
  <2>. QED
    BY <1>1, <1>4, <1>5, Ascent
<1>7. PICK f : Upto(f, M)
  <2>1. M \in 0..M
    BY <1>1
  <2>2. M \in T
    BY <1>6, <2>1
  <2> HIDE DEF Upto, M
  <2>. QED
    BY <2>2 DEF T
<1>8. ASSUME NEW r \in X PROVE f[r] = EmitBody(f, shards, r)
  <2>1. Below2(r, M)
    BY <1>1, <1>3
  <2> HIDE DEF Below2
  <2>. QED
    BY <1>7, <2>1
<1> DEFINE h == [r \in X |-> f[r]]
<1>9. ASSUME NEW r \in X PROVE h[r] = EmitBody(h, shards, r)
  <2>1. ASSUME NEW i \in DOMAIN Nested(r[1], r[2])
        PROVE  f[Nested(r[1], r[2])[i]] = h[Nested(r[1], r[2])[i]]
    <3>1. PICK s \in X : s = Nested(r[1], r[2])[i]
      BY <1>2
    <3>2. f[s] = h[s]
      OBVIOUS
    <3> HIDE DEF h
    <3>. QED
      BY <3>1, <3>2
  <2>2. h[r] = f[r]
    OBVIOUS
  <2> HIDE DEF h
  <2>3. EmitBody(f, shards, r) = EmitBody(h, shards, r)
    BY <2>1, SameBody
  <2>. QED
    BY <1>8, <2>2, <2>3
<1>10. h = [r \in X |-> h[r]]
  OBVIOUS
<1> HIDE DEF h
<1>11. h = [r \in X |-> EmitBody(h, shards, r)]
  BY <1>9, <1>10
<1>12. Emits(h, shards)
  BY <1>11 DEF Emits, X, N
<1>. QED
  BY <1>12

\* What EmitDir says of its shards.
LEMMA EmitSays ==
  ASSUME NEW shards, NEW r, Placed(shards, r), Len(shards) # 0, NEW D, NEW p, NEW T0, TrueOf(T0, D, p),
         \A k \in 1..Len(shards) : <<Shard, r[k], shards[k].length, shards[k].content>> \in T0
  PROVE  \E T : /\ TrueOf(T, D, p) /\ T0 \subseteq T
                /\ <<Dir, r[1], r[Len(shards) + 1] - r[1], EmitDir(shards).meta>> \in T
<1> DEFINE N == Len(shards)
           X == (1..N) \X (1..N)
           f == CHOOSE f : Emits(f, shards)
           Tuple(x) == <<Dir, r[x[1]], r[x[2] + 1] - r[x[1]], f[x].meta>>
           Y == {x \in X : x[1] <= x[2]}
           T == T0 \cup {Tuple(x) : x \in Y}
<1>1. N \in Nat \ {0} /\ N \in Nat /\ IsSeq(shards)
  BY DEF Placed, IsSeq
<1>2. Emits(f, shards)
  BY <1>1, EmitsExist
<1>3. EmitDir(shards) = f[<<1, N>>]
  BY DEF EmitDir, Emits, EmitBody
<1> HIDE DEF f
<1>4. \A x \in X : f[x] = EmitBody(f, shards, x)
  BY <1>2 DEF Emits
<1> HIDE DEF N
<1>5. ASSUME NEW a \in 1..N, NEW b \in a..N
      PROVE  Lined(f[<<a, b>>].meta, T, r[a], r[b + 1]) /\ r[a] \in Nat /\ r[b + 1] \in Nat
             /\ r[b + 1] - r[a] \in Nat
  <2> DEFINE rest == a + HeadCount(b - a + 1)
             g == Nested(a, b)
             head == SubSeq(shards, a, rest - 1)
             subs == [k \in DOMAIN g |-> DirRecord(SubSeq(shards, g[k][1], g[k][2]), f[g[k]].meta)]
  <2>1. a \in Nat \ {0} /\ b \in Nat /\ a <= b /\ a <= b + 1 /\ b <= Len(shards) /\ a \in Nat
    BY <1>1 DEF N
  <2>2. <<a, b>> \in X /\ <<a, b>>[1] = a /\ <<a, b>>[2] = b
    BY <1>1, <2>1 DEF N
  <2>3. f[<<a, b>>].meta = ShardRecords(head) \o subs
    <3> DEFINE x == <<a, b>>
    <3>1. x \in X /\ x[1] = a /\ x[2] = b
      BY <2>2
    <3> HIDE DEF x
    <3>2. f[x] = EmitBody(f, shards, x)
      BY <1>4, <3>1
    <3>3. EmitBody(f, shards, x).meta =
            ShardRecords(SubSeq(shards, x[1], x[1] + HeadCount(x[2] - x[1] + 1) - 1))
              \o [k \in DOMAIN Nested(x[1], x[2]) |->
                    DirRecord(SubSeq(shards, Nested(x[1], x[2])[k][1], Nested(x[1], x[2])[k][2]),
                              f[Nested(x[1], x[2])[k]].meta)]
      BY DEF EmitBody
    <3>4. f[x].meta = ShardRecords(SubSeq(shards, a, a + HeadCount(b - a + 1) - 1))
              \o [k \in DOMAIN Nested(a, b) |->
                    DirRecord(SubSeq(shards, Nested(a, b)[k][1], Nested(a, b)[k][2]),
                              f[Nested(a, b)[k]].meta)]
      BY ONLY <3>1, <3>2, <3>3
    <3>8. rest = a + HeadCount(b - a + 1)
      OBVIOUS
    <3> HIDE DEF rest
    <3>5. head = SubSeq(shards, a, rest - 1)
      OBVIOUS
    <3>6. subs = [k \in DOMAIN Nested(a, b) |->
                    DirRecord(SubSeq(shards, Nested(a, b)[k][1], Nested(a, b)[k][2]),
                              f[Nested(a, b)[k]].meta)]
      OBVIOUS
    <3> HIDE DEF head, subs
    <3>9. b - a + 1 \in Nat \ {0}
      BY <2>1
    <3>10. HeadCount(b - a + 1) \in Nat
      BY <3>9, HeadCountIs
    <3>11. rest - 1 = a + HeadCount(b - a + 1) - 1
      BY ONLY <2>1, <3>8, <3>10
    <3>7. f[x].meta = ShardRecords(head) \o subs
      BY ONLY <3>11, <3>4, <3>5, <3>6, <3>8
    <3>. QED
      BY ONLY <3>7 DEF x
  <2>4. rest = a + HeadCount(b - a + 1)
    OBVIOUS
  <2> HIDE DEF rest
  <2>0. /\ rest \in (a + 1)..(b + 1)
        /\ NestsFrom(a, b, rest)
    BY ONLY <2>1, <2>4, NestedRuns
  <2>5. rest \in (a + 1)..(b + 1)
    BY <2>0
  <2>6. PICK c \in Nat : /\ Runs(g, c, rest, b) /\ (c = 0 <=> rest = b + 1)
                         /\ c + HeadCount(b - a + 1) <= MetaMaxEntries
                         /\ \A k \in 1..c : g[k] = <<g[k][1], g[k][2]>>
    BY ONLY <2>0 DEF g, NestsFrom
  <2>7. Lined(ShardRecords(head), T, r[a], r[rest])
    <3> DEFINE e == rest - 1
    <3>1. e \in Nat /\ a <= e + 1 /\ e <= Len(shards) /\ e + 1 = rest /\ a \in Nat \ {0}
      BY <2>1, <2>5
    <3>2. \A k \in 1..Len(shards) : <<Shard, r[k], shards[k].length, shards[k].content>> \in T
      OBVIOUS
    <3> HIDE DEF T, e
    <3>3. Lined(ShardRecords(SubSeq(shards, a, e)), T, r[a], r[e + 1])
      BY <3>1, <3>2, ShardRecordsLined
    <3>. QED
      BY <3>1, <3>3 DEF e
  <2>8. DOMAIN g = 1..c /\ (\A k \in 1..c : g[k][1] \in rest..b /\ g[k][2] \in g[k][1]..b)
    BY <2>6, RunsParts
  <2> HIDE DEF g
  <2>9. \A k \in 1..c : <<Dir, r[g[k][1]], r[g[k][2] + 1] - r[g[k][1]], f[g[k]].meta>> \in T
    <3> SUFFICES ASSUME NEW k \in 1..c
                 PROVE <<Dir, r[g[k][1]], r[g[k][2] + 1] - r[g[k][1]], f[g[k]].meta>> \in T
      OBVIOUS
    <3> DEFINE x == g[k]
    <3>1. x[1] \in rest..b /\ x[2] \in x[1]..b /\ x = <<x[1], x[2]>>
      BY <2>6, <2>8
    <3>2. x[1] \in 1..N /\ x[2] \in 1..N /\ x[1] <= x[2]
      BY <2>1, <2>5, <3>1 DEF N
    <3> HIDE DEF x
    <3>3. x \in X
      BY <3>1, <3>2
    <3>4. x \in Y
      BY <3>2, <3>3
    <3>5. Tuple(x) \in T
      BY <3>4
    <3>. QED
      BY <3>5 DEF x
  <2> HIDE DEF T
  <2>10. Lined(subs, T, r[rest], r[b + 1]) \/ c = 0
    <3> SUFFICES ASSUME c # 0 PROVE Lined(subs, T, r[rest], r[b + 1])
      OBVIOUS
    <3> DEFINE meta == [k \in 1..c |-> f[g[k]].meta]
    <3>1. subs = [k \in 1..c |-> DirRecord(SubSeq(shards, g[k][1], g[k][2]), meta[k])]
      BY <2>8
    <3>2. \A k \in 1..c : <<Dir, r[g[k][1]], r[g[k][2] + 1] - r[g[k][1]], meta[k]>> \in T
      BY <2>9
    <3>3. c \in Nat \ {0} /\ rest \in Nat \ {0} /\ rest <= b
      BY <2>1, <2>5, <2>6
    <3> HIDE DEF meta, subs
    <3>4. Runs(g, c, rest, b)
      BY <2>6
    <3>. QED
      BY <2>1, <3>1, <3>2, <3>3, <3>4, DirsLined
  <2>11. Lined(f[<<a, b>>].meta, T, r[a], r[b + 1])
    <3>1. CASE c = 0
      BY <2>8, <3>1, <2>7, <2>6, <2>3 DEF Lined, IsSeq
    <3>2. CASE c # 0
      <4>1. Lined(subs, T, r[rest], r[b + 1])
        BY <2>10, <3>2
      <4> HIDE DEF subs, head
      <4>2. Lined(ShardRecords(head) \o subs, T, r[a], r[b + 1])
        BY <2>7, <4>1, LinedJoin
      <4>. QED
        BY <2>3, <4>2
    <3>. QED
      BY <3>1, <3>2
  <2>12. r[a] \in Nat /\ r[b + 1] \in Nat /\ r[b + 1] - r[a] \in Nat
    BY <2>1, PartOfShards
  <2>. QED
    BY <2>11, <2>12
<1>6. TrueOf(T, D, p)
  <2> SUFFICES ASSUME NEW t \in T
               PROVE  \/ t[1] = Shard /\ ShardOf(D, p, t)
                      \/ t[1] = Dir /\ t[2] \in Nat /\ t[3] \in Nat /\ Lined(t[4], T, t[2], t[2] + t[3])
    BY DEF TrueOf
  <2>1. CASE t \in T0
    <3>1. T0 \subseteq T
      OBVIOUS
    <3> HIDE DEF T
    <3>2. CASE t[1] = Shard /\ ShardOf(D, p, t)
      BY <3>2
    <3>3. CASE t[1] = Dir /\ t[2] \in Nat /\ t[3] \in Nat /\ Lined(t[4], T0, t[2], t[2] + t[3])
      BY <3>1, <3>3, LinedLarger
    <3>. QED
      BY <2>1, <3>2, <3>3 DEF TrueOf
  <2>2. CASE t \notin T0
    <3>1. PICK x \in Y : t = Tuple(x)
      BY <2>2
    <3>2. x[1] \in 1..N /\ x[2] \in x[1]..N /\ x = <<x[1], x[2]>>
      BY <1>1
    <3> DEFINE a == x[1]
               b == x[2]
    <3>3. a \in 1..N /\ b \in a..N /\ x = <<a, b>>
      BY <3>2
    <3>4. t[1] = Dir /\ t[2] = r[a] /\ t[3] = r[b + 1] - r[a] /\ t[4] = f[x].meta
      BY <3>1
    <3> HIDE DEF a, b, T
    <3>5. Lined(f[<<a, b>>].meta, T, r[a], r[b + 1]) /\ r[a] \in Nat /\ r[b + 1] \in Nat
          /\ r[b + 1] - r[a] \in Nat
      BY <1>5, <3>3
    <3>6. t[2] + t[3] = r[b + 1]
      BY <3>4, <3>5
    <3>. QED
      BY <3>3, <3>4, <3>5, <3>6
  <2>. QED
    BY <2>1, <2>2
<1>7. Tuple(<<1, N>>) \in T
  <2> DEFINE x == <<1, N>>
  <2>1. x \in X /\ x[1] <= x[2]
    BY <1>1
  <2> HIDE DEF x, Tuple
  <2>2. Tuple(x) \in T
    BY <2>1
  <2>. QED
    BY <2>2 DEF x
<1>8. <<Dir, r[1], r[N + 1] - r[1], EmitDir(shards).meta>> \in T
  BY <1>3, <1>7
<1>. QED
  <2>1. T0 \subseteq T
    OBVIOUS
  <2> HIDE DEF T
  <2>. QED
    BY <1>6, <1>8, <2>1 DEF N

-----------------------------------------------------------------------------
(***************************************************************************)
(* Sequences cut into consecutive runs: bands, shards, directories.        *)
(***************************************************************************)
\* SplitAt cuts a sequence into runs.
LEMMA SplitIs ==
  ASSUME NEW s, IsSeq(s), NEW firsts, NEW c, Begins(firsts, c, Len(s))
  PROVE  \E g : CutInto(SplitAt(s, firsts), s, c, g)
<1> DEFINE n == Len(s)
           y(k) == IF k < c THEN firsts[k + 1] - 1 ELSE n
           g == [k \in 1..c |-> <<firsts[k], y(k)>>]
           parts == SplitAt(s, firsts)
<1>1. /\ c \in Nat \ {0} /\ DOMAIN firsts = 1..c /\ Len(firsts) = c /\ firsts[1] = 1
      /\ \A k \in 1..c : firsts[k] \in 1..n
      /\ \A k \in 1..c : k < c => firsts[k] < firsts[k + 1]
  BY DEF Begins
<1>2. n \in Nat
  BY DEF IsSeq
<1>3. parts = [k \in 1..c |-> SubSeq(s, firsts[k], y(k))]
  BY <1>1 DEF SplitAt
<1>4. parts = [k \in 1..c |-> parts[k]] /\ \A k \in 1..c : parts[k] = SubSeq(s, firsts[k], y(k))
  BY <1>3
<1> HIDE DEF parts
<1>5. IsSeq(parts) /\ Len(parts) = c
  BY <1>1, <1>4, ValuesAreSeq
<1>6. ASSUME NEW k \in 1..c
      PROVE  /\ g[k][1] = firsts[k] /\ g[k][2] = y(k) /\ g[k][1] \in 1..n /\ g[k][2] \in g[k][1]..n
             /\ k < c => g[k + 1][1] = g[k][2] + 1
  <2>1. g[k][1] = firsts[k] /\ g[k][2] = y(k) /\ firsts[k] \in 1..n
    BY <1>1
  <2>2. CASE k < c
    <3> DEFINE j == k + 1
    <3>1. j \in 1..c /\ firsts[k] < firsts[j] /\ y(k) = firsts[j] - 1
      BY <1>1, <2>2
    <3>2. g[j][1] = firsts[j] /\ firsts[j] \in 1..n
      BY <1>1, <3>1
    <3> HIDE DEF j, g, n
    <3>3. y(k) \in firsts[k]..n
      BY <1>2, <2>1, <3>1, <3>2
    <3>4. g[j][1] = y(k) + 1
      BY <1>2, <3>1, <3>2
    <3>. QED
      BY <2>1, <3>3, <3>4 DEF j
  <2>3. CASE ~(k < c)
    BY <2>3, <1>2, <2>1
  <2>. QED
    BY <2>2, <2>3
<1>7. DOMAIN g = 1..c
  OBVIOUS
<1>8. g[1][1] = 1 /\ g[c][2] = n
  <2>1. 1 \in 1..c /\ c \in 1..c /\ ~(c < c)
    BY <1>1
  <2>2. y(c) = n
    BY <2>1
  <2> HIDE DEF g, y
  <2>. QED
    BY <1>1, <1>6, <2>1, <2>2
<1> HIDE DEF g, y
<1>9. Runs(g, c, 1, n)
  BY <1>6, <1>7, <1>8 DEF Runs
<1>10. \A k \in 1..c : parts[k] = SubSeq(s, g[k][1], g[k][2])
  BY <1>4, <1>6
<1>. QED
  BY <1>1, <1>5, <1>9, <1>10 DEF CutInto, parts

\* The recursion over the leaves defines a function.
LEMMA FirstsAre ==
  ASSUME NEW leaves, Len(leaves) \in Nat \ {0}
  PROVE  \E F : ShardFirsts(leaves) = F[Len(leaves)] /\ FirstsOf(F, leaves)
<1> DEFINE n == Len(leaves)
           S == Seq(Nat)
           G == [i \in 1..n |-> [q \in S |-> IF i <= 1 THEN <<1>>
                                             ELSE IF FitsShard(leaves, Last(q), i) THEN q
                                             ELSE Append(q, i)]]
           Is(f) == f = [i \in 0..n |->
                           LET before == f[i - 1]
                           IN  IF i <= 1 THEN <<1>>
                               ELSE IF FitsShard(leaves, Last(before), i) THEN before ELSE Append(before, i)]
           F == CHOOSE f : Is(f)
           base == <<1>>
<1>1. n \in Nat \ {0} /\ n \in Nat
  OBVIOUS
<1>2. ShardFirsts(leaves) = F[n]
  BY DEF ShardFirsts
<1> HIDE DEF n
<1>3. base \in S
  OBVIOUS
<1>4. ASSUME NEW i \in 1..n, NEW q \in S
      PROVE  /\ G[i][q] = IF i <= 1 THEN base ELSE IF FitsShard(leaves, Last(q), i) THEN q ELSE Append(q, i)
             /\ G[i][q] \in S
  <2>1. Append(q, i) \in S /\ i \in Nat
    BY <1>1
  <2>2. G[i][q] = IF i <= 1 THEN base ELSE IF FitsShard(leaves, Last(q), i) THEN q ELSE Append(q, i)
    OBVIOUS
  <2> HIDE DEF S, G, base
  <2>. QED
    BY <1>3, <2>1, <2>2
<1>5. G \in [1..n -> [S -> S]]
  <2>1. ASSUME NEW i \in 1..n PROVE G[i] \in [S -> S]
    <3>1. G[i] = [q \in S |-> G[i][q]]
      OBVIOUS
    <3> HIDE DEF G, S
    <3>. QED
      BY <1>4, <3>1
  <2>2. G = [i \in 1..n |-> G[i]]
    OBVIOUS
  <2> HIDE DEF G, S
  <2>. QED
    BY <2>1, <2>2
<1> HIDE DEF G, S, base
<1>6. PICK f \in [0..n -> S] : f[0] = base /\ \A i \in 1..n : f[i] = G[i][f[i - 1]]
  BY ONLY <1>1, <1>3, <1>5, Recursion
<1>7. ASSUME NEW i \in 0..n
      PROVE  f[i] = LET before == f[i - 1]
                    IN  IF i <= 1 THEN <<1>>
                        ELSE IF FitsShard(leaves, Last(before), i) THEN before ELSE Append(before, i)
  <2>1. CASE i = 0
    BY <1>6, <2>1 DEF base
  <2>2. CASE i # 0
    <3>1. i \in 1..n /\ i - 1 \in 0..n
      BY <1>1, <2>2
    <3> DEFINE q == f[i - 1]
    <3>2. q \in S /\ f[i] = G[i][q]
      BY <1>6, <3>1
    <3> HIDE DEF q
    <3>4. G[i][q] = IF i <= 1 THEN base ELSE IF FitsShard(leaves, Last(q), i) THEN q ELSE Append(q, i)
      BY <1>4, <3>1, <3>2
    <3>3. f[i] = IF i <= 1 THEN base ELSE IF FitsShard(leaves, Last(f[i - 1]), i) THEN f[i - 1] ELSE Append(f[i - 1], i)
      BY ONLY <3>2, <3>4 DEF q
    <3>. QED
      BY <3>3 DEF base
  <2>. QED
    BY <2>1, <2>2
<1>8. f = [i \in 0..n |-> f[i]]
  BY <1>6
<1>9. Is(f)
  BY <1>7, <1>8
<1>10. Is(F)
  <2> HIDE DEF Is
  <2>. QED
    BY <1>9
<1> HIDE DEF F
<1>11. ASSUME NEW i \in 0..n
       PROVE  F[i] = IF i <= 1 THEN base
                     ELSE IF FitsShard(leaves, Last(F[i - 1]), i) THEN F[i - 1] ELSE Append(F[i - 1], i)
  BY <1>10 DEF base
<1> HIDE DEF Is
<1> DEFINE T == {i \in 0..n : i = 0 \/ (F[i] \in Seq(Nat) /\ \E c : Begins(F[i], c, i))}
<1>12. 0 \in T
  BY <1>1
<1>13. ASSUME NEW k \in 0..n, k \in T, k < n PROVE k + 1 \in T
  <2> DEFINE i == k + 1
  <2>1. i \in 0..n /\ i \in Nat /\ i # 0 /\ i - 1 = k
    BY <1>1, <1>13
  <2> HIDE DEF i
  <2>2. F[i] = IF i <= 1 THEN base
               ELSE IF FitsShard(leaves, Last(F[k]), i) THEN F[k] ELSE Append(F[k], i)
    BY <1>11, <2>1
  <2>3. CASE i <= 1
    <3>1. F[i] = <<1>> /\ i = 1
      BY <2>1, <2>2, <2>3 DEF base
    <3>2. Begins(F[i], 1, i)
      BY <3>1 DEF Begins
    <3>3. F[i] \in Seq(Nat)
      BY <3>1
    <3>4. i \in T
      BY <2>1, <3>2, <3>3
    <3>. QED
      BY <3>4 DEF i
  <2>4. CASE ~(i <= 1)
    <3>1. k # 0
      BY <2>1, <2>4
    <3>2. F[k] \in Seq(Nat) /\ \E c : Begins(F[k], c, k)
      BY <1>13, <3>1
    <3>3. PICK c : Begins(F[k], c, k)
      BY <3>2
    <3> DEFINE q == F[k]
    <3>4. /\ q \in Seq(Nat) /\ c \in Nat \ {0} /\ DOMAIN q = 1..c /\ Len(q) = c /\ q[1] = 1
          /\ \A j \in 1..c : q[j] \in 1..k
          /\ \A j \in 1..c : j < c => q[j] < q[j + 1]
      BY <3>2, <3>3 DEF Begins
    <3> HIDE DEF q
    <3>5. k \in Nat /\ i = k + 1
      BY <2>1
    <3>6. CASE F[i] = q
      <4>1. Begins(q, c, i)
        BY <3>4, <3>5 DEF Begins
      <4>. QED
        BY <2>1, <3>4, <3>5, <3>6, <4>1
    <3>7. CASE F[i] = Append(q, i)
      <4> DEFINE u == Append(q, i)
                 d == c + 1
      <4>1. u \in Seq(Nat) /\ Len(u) = d /\ DOMAIN u = 1..d /\ u[d] = i /\ (\A j \in 1..c : u[j] = q[j])
        BY <2>1, <3>4
      <4>2. d \in Nat \ {0} /\ d = c + 1
        BY <3>4
      <4> HIDE DEF u, d
      <4>3. u[1] = 1
        BY <3>4, <4>1
      <4>4. ASSUME NEW j \in 1..d PROVE u[j] \in 1..i
        BY <2>1, <3>4, <3>5, <4>1, <4>2
      <4>5. ASSUME NEW j \in 1..d, j < d PROVE u[j] < u[j + 1]
        <5>1. j \in 1..c /\ u[j] = q[j] /\ q[j] \in 1..k
          BY <3>4, <4>1, <4>2, <4>5
        <5>2. CASE j = c
          BY <4>1, <4>2, <5>2, <3>5, <5>1
        <5>3. CASE j # c
          BY <3>4, <5>1, <5>3, <4>1
        <5>. QED
          BY <5>2, <5>3
      <4>6. Begins(u, d, i)
        BY <4>1, <4>2, <4>3, <4>4, <4>5 DEF Begins
      <4>7. F[i] = u
        BY <3>7 DEF u
      <4>. QED
        BY <2>1, <3>5, <4>1, <4>6, <4>7
    <3>8. F[i] = q \/ F[i] = Append(q, i)
      BY <2>2, <2>4 DEF q
    <3>. QED
      BY <3>6, <3>7, <3>8
  <2>. QED
    BY <2>3, <2>4
<1> HIDE DEF T
<1>14. \A k \in 0..n : k \in T
  BY <1>1, <1>12, <1>13, Ascent
<1>15. ASSUME NEW i \in 1..n PROVE F[i] \in Seq(Nat) /\ \E c : Begins(F[i], c, i)
  BY <1>1, <1>14 DEF T
<1>16. \A i \in 0..n : F[i] = IF i <= 1 THEN <<1>>
                             ELSE IF FitsShard(leaves, Last(F[i - 1]), i) THEN F[i - 1] ELSE Append(F[i - 1], i)
  BY <1>11 DEF base
<1>17. FirstsOf(F, leaves)
  BY <1>15, <1>16 DEF FirstsOf, n
<1>. QED
  BY <1>2, <1>17 DEF n

\* The shards of a band begin somewhere, the first of them with it.
LEMMA ShardFirstsBegin ==
  ASSUME NEW leaves, Len(leaves) \in Nat \ {0}
  PROVE  \E c : Begins(ShardFirsts(leaves), c, Len(leaves))
<1>1. PICK F : ShardFirsts(leaves) = F[Len(leaves)] /\ FirstsOf(F, leaves)
  BY FirstsAre
<1>2. Len(leaves) \in 1..Len(leaves)
  OBVIOUS
<1>. QED
  BY <1>1, <1>2 DEF FirstsOf

-----------------------------------------------------------------------------
(***************************************************************************)
(* The leaves of a file, and the shards of a band of them.                 *)
(***************************************************************************)
\* A part of a part.
LEMMA SubOfSub ==
  ASSUME NEW s, IsSeq(s), NEW a \in Nat \ {0}, NEW b \in Nat, a <= b, b <= Len(s),
         NEW x \in Nat \ {0}, NEW y \in Nat, x <= y, y <= b - a + 1
  PROVE  SubSeq(SubSeq(s, a, b), x, y) = SubSeq(s, a + x - 1, a + y - 1)
<1> DEFINE q == SubSeq(s, a, b)
           u == a + x - 1
           v == a + y - 1
           m == y - x + 1
<1>1. IsSeq(q) /\ Len(q) = b - a + 1 /\ \A i \in 1..(b - a + 1) : q[i] = s[a + i - 1]
  BY SubSeqIs
<1>2. u \in Nat \ {0} /\ v \in Nat /\ u <= v + 1 /\ v <= Len(s) /\ v - u + 1 = m /\ x <= y + 1
  BY DEF IsSeq
<1> HIDE DEF q
<1>3. IsSeq(SubSeq(q, x, y)) /\ Len(SubSeq(q, x, y)) = m /\ \A i \in 1..m : SubSeq(q, x, y)[i] = q[x + i - 1]
  BY <1>1, <1>2, SubSeqIs
<1>4. IsSeq(SubSeq(s, u, v)) /\ Len(SubSeq(s, u, v)) = m /\ \A i \in 1..m : SubSeq(s, u, v)[i] = s[u + i - 1]
  <2> HIDE DEF u, v, m
  <2>. QED
    BY <1>2, SubSeqIs
<1>5. ASSUME NEW i \in 1..m PROVE SubSeq(q, x, y)[i] = SubSeq(s, u, v)[i]
  BY <1>1, <1>3, <1>4
<1> DEFINE f == SubSeq(q, x, y)
           g == SubSeq(s, u, v)
<1> HIDE DEF f, g, m
<1>6. f = [i \in 1..m |-> f[i]] /\ g = [i \in 1..m |-> g[i]]
  BY <1>3, <1>4 DEF IsSeq, f, g
<1>7. f = g
  BY <1>5, <1>6 DEF f, g
<1>. QED
  BY <1>7 DEF f, g, q

\* The shards of a band.
LEMMA GroupsAre ==
  ASSUME NEW D, NEW p, IsLine(D, p), NEW lo \in 1..Len(D), NEW hi \in lo..Len(D),
         NEW shards, shards = ShardGroups(SubSeq(D, lo, hi))
  PROVE  Len(shards) # 0 /\ \E r : GroupsAt(shards, r, D, p, lo, hi)
<1> DEFINE n == Len(D)
           band == SubSeq(D, lo, hi)
           m == hi - lo + 1
           parts == ShardRanges(band)
<1>1. /\ IsSeq(D) /\ p \in [1..(n + 1) -> Nat] /\ Placed(D, p)
      /\ \A i \in 1..n : D[i].length \in Nat \ {0} /\ p[i + 1] = p[i] + D[i].length /\ D[i].offset = p[i]
  BY DEF IsLine, Placed
<1>2. n \in Nat
  BY <1>1 DEF IsSeq
<1> HIDE DEF n
<1>3. /\ lo \in Nat \ {0} /\ hi \in Nat /\ lo <= hi /\ lo <= hi + 1 /\ hi <= n /\ n = Len(D)
      /\ m \in Nat \ {0}
  BY <1>2 DEF n
<1>4. IsSeq(band) /\ Len(band) = m /\ \A i \in 1..m : band[i] = D[lo + i - 1]
  BY <1>1, <1>3, SubSeqIs
<1> HIDE DEF m, band
<1>5. PICK c : Begins(ShardFirsts(band), c, m)
  BY <1>3, <1>4, ShardFirstsBegin
<1>6. PICK g : CutInto(parts, band, c, g)
  BY <1>4, <1>5, SplitIs DEF ShardRanges
<1> HIDE DEF parts
<1>7. /\ c \in Nat \ {0} /\ Runs(g, c, 1, m) /\ IsSeq(parts) /\ Len(parts) = c
      /\ \A k \in 1..c : parts[k] = SubSeq(band, g[k][1], g[k][2])
  BY <1>4, <1>6 DEF CutInto
<1>8. /\ \A k \in 1..c : g[k][1] \in 1..m /\ g[k][2] \in g[k][1]..m
      /\ \A k \in 1..c : k < c => g[k + 1][1] = g[k][2] + 1
      /\ g[1][1] = 1 /\ g[c][2] = m
  BY <1>7, RunsParts
<1> DEFINE a(k) == lo + g[k][1] - 1
           b(k) == lo + g[k][2] - 1
           r == [k \in 1..(c + 1) |-> IF k = c + 1 THEN p[hi + 1] ELSE p[a(k)]]
<1>9. ASSUME NEW k \in 1..c
      PROVE  /\ a(k) \in 1..n /\ b(k) \in 1..n /\ a(k) <= b(k)
             /\ k < c => a(k + 1) = b(k) + 1
             /\ parts[k] = SubSeq(D, a(k), b(k))
  <2> DEFINE x == g[k][1]
             y == g[k][2]
  <2>1. x \in 1..m /\ y \in x..m /\ (k < c => g[k + 1][1] = y + 1) /\ parts[k] = SubSeq(band, x, y)
    BY <1>7, <1>8
  <2> HIDE DEF x, y
  <2>2. m = hi - lo + 1
    BY DEF m
  <2>3. x \in Nat \ {0} /\ y \in Nat /\ x <= y /\ y <= hi - lo + 1
    BY <1>3, <2>1, <2>2
  <2>4. SubSeq(band, x, y) = SubSeq(D, lo + x - 1, lo + y - 1)
    BY <1>1, <1>3, <2>3, SubOfSub DEF band
  <2>5. lo + x - 1 \in 1..n /\ lo + y - 1 \in 1..n /\ lo + x - 1 <= lo + y - 1
    BY <1>3, <2>3
  <2>6. k < c => lo + g[k + 1][1] - 1 = lo + y - 1 + 1
    BY <1>3, <2>1, <2>3
  <2>. QED
    BY <2>1, <2>4, <2>5, <2>6 DEF x, y
<1>10. a(1) = lo /\ b(c) = hi
  BY <1>3, <1>8 DEF m
<1> HIDE DEF a, b
<1>11. ASSUME NEW k \in 1..c
       PROVE  /\ parts[k][1].offset = p[a(k)] /\ SpanOf(parts[k]) = p[b(k) + 1] - p[a(k)]
              /\ p[a(k)] \in Nat /\ p[b(k) + 1] \in Nat /\ p[b(k) + 1] - p[a(k)] \in Nat \ {0}
  <2> DEFINE x == a(k)
             y == b(k)
  <2>1. x \in Nat \ {0} /\ y \in Nat /\ x <= y /\ x <= y + 1 /\ y <= Len(D) /\ parts[k] = SubSeq(D, x, y)
        /\ x \in 1..n
    BY <1>3, <1>9
  <2> HIDE DEF x, y
  <2>2. /\ SpanOf(SubSeq(D, x, y)) = p[y + 1] - p[x]
        /\ p[x] \in Nat /\ p[y + 1] \in Nat /\ p[y + 1] - p[x] \in Nat \ {0}
    <3>1. Placed(D, p) /\ x \in Nat \ {0} /\ y \in Nat /\ x <= y + 1 /\ x <= y /\ y <= Len(D)
      BY <1>1, <2>1
    <3>. QED
      BY ONLY <3>1, PartOfShards
  <2>3. SubSeq(D, x, y)[1] = D[x]
    BY <2>1, <1>1, SubSeqIs
  <2>4. D[x].offset = p[x]
    BY <1>1, <2>1
  <2>. QED
    BY <2>1, <2>2, <2>3, <2>4 DEF x, y
<1>12. shards = [k \in 1..c |-> [start |-> parts[k][1].offset, length |-> SpanOf(parts[k]),
                                 content |-> EncodeShard(parts[k])]]
  BY <1>7 DEF ShardGroups, IsSeq, parts, band
<1>13. /\ shards = [k \in 1..c |-> shards[k]]
       /\ \A k \in 1..c : /\ shards[k].length = SpanOf(parts[k]) /\ shards[k].content = EncodeShard(parts[k])
                         /\ shards[k].start = parts[k][1].offset
  BY <1>12
<1>14. IsSeq(shards) /\ Len(shards) = c
  BY <1>7, <1>13, ValuesAreSeq
<1>15. \A k \in 1..(c + 1) : r[k] = IF k = c + 1 THEN p[hi + 1] ELSE p[a(k)]
  OBVIOUS
<1>16. p[hi + 1] \in Nat
  BY <1>2, <1>3, <1>1 DEF n
<1>17. r \in [1..(c + 1) -> Nat]
  BY <1>7, <1>11, <1>16
<1> HIDE DEF r
<1>18. ASSUME NEW k \in 1..c PROVE r[k] = p[a(k)] /\ r[k + 1] = p[b(k) + 1]
  <2>1. k \in 1..(c + 1) /\ k + 1 \in 1..(c + 1) /\ k # c + 1
    BY <1>7
  <2>2. r[k] = p[a(k)]
    BY <1>15, <2>1
  <2>3. CASE k = c
    BY <1>10, <1>15, <2>1, <2>2, <2>3
  <2>4. CASE k # c
    <3>1. k < c /\ k + 1 # c + 1
      BY <1>7, <2>4
    <3>2. r[k + 1] = p[a(k + 1)] /\ a(k + 1) = b(k) + 1
      BY <1>9, <1>15, <2>1, <3>1
    <3>. QED
      BY <2>2, <3>2
  <2>. QED
    BY <2>3, <2>4
<1>19. r[1] = p[lo] /\ r[c + 1] = p[hi + 1]
  BY <1>7, <1>10, <1>18
<1>20. Placed(shards, r)
  <2>1. ASSUME NEW k \in 1..c
        PROVE  shards[k].length \in Nat \ {0} /\ r[k + 1] = r[k] + shards[k].length
    BY <1>11, <1>13, <1>18
  <2>. QED
    BY <1>14, <1>17, <2>1 DEF Placed
<1>21. ASSUME NEW k \in 1..c
       PROVE  /\ shards[k].start = r[k]
              /\ ShardOf(D, p, <<Shard, r[k], shards[k].length, shards[k].content>>)
  <2> DEFINE t == <<Shard, r[k], shards[k].length, shards[k].content>>
  <2>4. shards[k].start = r[k]
    BY <1>11, <1>13, <1>18
  <2>1. t[2] = p[a(k)] /\ t[3] = p[b(k) + 1] - p[a(k)] /\ t[4] = EncodeShard(SubSeq(D, a(k), b(k)))
    BY <1>9, <1>11, <1>13, <1>18
  <2> HIDE DEF t
  <2>2. a(k) \in 1..Len(D) /\ b(k) \in 1..Len(D) /\ a(k) <= b(k)
    BY <1>9 DEF n
  <2>3. ShardOf(D, p, t)
    BY <2>1, <2>2 DEF ShardOf
  <2>. QED
    BY <2>3, <2>4 DEF t
<1>22. Len(shards) # 0
  BY <1>7, <1>14
<1>23. GroupsAt(shards, r, D, p, lo, hi)
  BY <1>14, <1>19, <1>20, <1>21 DEF GroupsAt
<1>. QED
  BY <1>22, <1>23

-----------------------------------------------------------------------------
(***************************************************************************)
(* The directories a band becomes, and what the entries placed so far say. *)
(***************************************************************************)
\* Division with a remainder.
LEMMA DivisionIs ==
  ASSUME NEW n \in Nat, NEW count \in Nat \ {0}
  PROVE  /\ n \div count \in Nat /\ n % count \in 0..(count - 1)
         /\ n = count * (n \div count) + (n % count)
<1> DEFINE q == n \div count
<1>1. q \in Int /\ q * count <= n /\ n < q * count + count
  OBVIOUS
<1>2. n % count \in 0..(count - 1)
  OBVIOUS
<1>3. n = count * q + (n % count)
  OBVIOUS
<1> HIDE DEF q
<1>4. ASSUME q < 0 PROVE FALSE
  <2> DEFINE z == -q - 1
  <2>1. z \in Nat /\ q = -z - 1
    BY <1>1, <1>4
  <2> HIDE DEF z
  <2>2. z * count \in Nat /\ q * count = -(z * count) - count
    BY <2>1
  <2>. QED
    BY <1>1, <2>2
<1>. QED
  BY <1>1, <1>2, <1>3, <1>4 DEF q

\* Runs of sizes that differ by one at most.
LEMMA EvenBegins ==
  ASSUME NEW n \in Nat, NEW count \in Nat \ {0}, count <= n, NEW firsts,
         firsts = [i \in 1..count |-> 1 + (i - 1) * (n \div count)
                                        + (IF i - 1 < n % count THEN i - 1 ELSE n % count)]
  PROVE  Begins(firsts, count, n)
<1> DEFINE size == n \div count
           extra == n % count
           at(i) == (i - 1) * size
           more(i) == IF i - 1 < extra THEN i - 1 ELSE extra
<1>1. size \in Nat /\ extra \in 0..(count - 1) /\ n = count * size + extra
  BY DivisionIs
<1>2. firsts = [i \in 1..count |-> 1 + at(i) + more(i)]
  OBVIOUS
<1> HIDE DEF size, extra
<1>3. size \in Nat \ {0}
  BY <1>1
<1>4. firsts = [i \in 1..count |-> firsts[i]]
  BY <1>2
<1>5. IsSeq(firsts) /\ Len(firsts) = count /\ DOMAIN firsts = 1..count
  BY <1>4, ValuesAreSeq
<1>6. ASSUME NEW i \in 1..count
      PROVE  /\ firsts[i] = 1 + at(i) + more(i) /\ at(i) \in Nat /\ at(i) <= at(count)
             /\ at(i + 1) = at(i) + size
             /\ more(i) \in Nat /\ more(i) <= extra /\ more(i + 1) >= more(i) /\ more(i + 1) \in Nat
  <2>1. firsts[i] = 1 + at(i) + more(i)
    BY <1>2
  <2>2. at(i) \in Nat /\ at(i) <= at(count) /\ i * size = at(i) + size
    BY <1>3, Multiples
  <2>3. at(i + 1) = i * size
    OBVIOUS
  <2>4. more(i) \in Nat /\ more(i) <= extra /\ more(i + 1) >= more(i) /\ more(i + 1) \in Nat
    BY <1>1
  <2> HIDE DEF at, more
  <2>. QED
    BY <2>1, <2>2, <2>3, <2>4
<1>7. at(count) + size = count * size /\ at(count) \in Nat
  BY <1>3, Multiples
<1>8. at(1) = 0 /\ more(1) = 0
  BY <1>1, <1>3
<1> DEFINE w == count * size
<1>9. w \in Nat /\ n = w + extra /\ at(count) + size = w
  BY <1>1, <1>7
<1> HIDE DEF w, at, more
<1>10. firsts[1] = 1
  <2>1. 1 \in 1..count
    OBVIOUS
  <2>2. firsts[1] = 1 + at(1) + more(1)
    BY ONLY <1>6, <2>1
  <2>. QED
    BY ONLY <1>8, <2>2
<1>11. ASSUME NEW i \in 1..count PROVE firsts[i] \in 1..n
  <2> DEFINE x == at(i)
             y == more(i)
             z == at(count)
  <2>1. firsts[i] = 1 + x + y /\ x \in Nat /\ y \in Nat /\ x <= z /\ y <= extra
    BY ONLY <1>6, i \in 1..count
  <2>2. z \in Nat /\ z + size = w /\ n = w + extra /\ w \in Nat
    BY ONLY <1>7, <1>9
  <2> HIDE DEF x, y, z
  <2>3. extra \in Nat /\ size \in Nat \ {0}
    BY ONLY <1>1, <1>3, count \in Nat \ {0}
  <2>. QED
    BY ONLY <2>1, <2>2, <2>3
<1>12. ASSUME NEW i \in 1..count, i < count PROVE firsts[i] < firsts[i + 1]
  <2> DEFINE j == i + 1
  <2>1. j \in 1..count
    BY ONLY <1>12, i \in 1..count, count \in Nat \ {0}
  <2>4. /\ firsts[i] = 1 + at(i) + more(i) /\ at(i) \in Nat /\ more(i) \in Nat
        /\ at(j) = at(i) + size /\ more(j) >= more(i) /\ more(j) \in Nat
    BY ONLY <1>6, i \in 1..count
  <2> HIDE DEF j
  <2>2. firsts[j] = 1 + at(j) + more(j)
    BY ONLY <1>6, <2>1
  <2> DEFINE x == at(i)
             y == more(i)
             u == at(j)
             v == more(j)
  <2>5. firsts[i] = 1 + x + y /\ firsts[j] = 1 + u + v /\ x \in Nat /\ y \in Nat
        /\ u = x + size /\ v >= y /\ v \in Nat
    BY ONLY <2>2, <2>4
  <2> HIDE DEF x, y, u, v
  <2>3. firsts[i] < firsts[j]
    BY ONLY <1>3, <2>5
  <2>. QED
    BY <2>3 DEF j
<1>. QED
  BY <1>5, <1>10, <1>11, <1>12 DEF Begins

\* How many directories a band may become.
LEMMA DirsWithin ==
  ASSUME NEW n \in Nat \ {0}, NEW y \in Nat \ {0}
  PROVE  CeilDiv(n, y) \in 1..n
<1> DEFINE q == CeilDiv(n, y)
<1>1. q \in Nat \ {0} /\ (q - 1) * y < n
  BY CeilDivIs
<1> HIDE DEF q
<1>2. (q - 1) * y >= q - 1
  <2> DEFINE z == y - 1
  <2>1. z \in Nat /\ y = z + 1
    OBVIOUS
  <2> HIDE DEF z
  <2>2. (q - 1) * y = (q - 1) * z + (q - 1) /\ (q - 1) * z \in Nat
    BY <1>1, <2>1
  <2>. QED
    BY <1>1, <2>2
<1>3. q - 1 < n
  BY <1>1, <1>2
<1>. QED
  BY <1>1, <1>3 DEF q

\* A part of shards, or leaves, that are placed.
LEMMA PlacedPart ==
  ASSUME NEW s, NEW r, Placed(s, r), NEW a \in Nat \ {0}, NEW b \in Nat, a <= b, b <= Len(s)
  PROVE  PartOf(SubSeq(s, a, b), s, r, a, b)
<1> DEFINE m == b - a + 1
           q == SubSeq(s, a, b)
           n == Len(s)
           p == [i \in 1..(m + 1) |-> r[a + i - 1]]
<1>1. /\ IsSeq(s) /\ r \in [1..(n + 1) -> Nat] /\ n \in Nat /\ b <= n
      /\ \A k \in 1..n : s[k].length \in Nat \ {0} /\ r[k + 1] = r[k] + s[k].length
  BY DEF Placed, IsSeq
<1>2. IsSeq(q) /\ Len(q) = m /\ \A i \in 1..m : q[i] = s[a + i - 1]
  <2>1. a <= b + 1 /\ b <= Len(s)
    OBVIOUS
  <2>. QED
    BY <1>1, <2>1, SubSeqIs
<1> HIDE DEF n
<1>3. m \in Nat /\ m = b - a + 1
  OBVIOUS
<1> HIDE DEF q, m
<1>9. \A i \in 1..(m + 1) : p[i] = r[a + i - 1]
  OBVIOUS
<1>10. n \in Nat /\ b <= n /\ b \in Nat /\ a \in Nat \ {0} /\ m \in Nat /\ m = b - a + 1
  BY <1>1, <1>3
<1>11. \A i \in 1..(m + 1) : a + i - 1 \in 1..(n + 1)
  BY ONLY <1>10
<1>4. \A i \in 1..(m + 1) : p[i] = r[a + i - 1] /\ a + i - 1 \in 1..(n + 1)
  BY ONLY <1>9, <1>11
<1>5. p \in [1..(m + 1) -> Nat]
  BY <1>1, <1>4
<1> HIDE DEF p
<1>6. p[1] = r[a] /\ p[m + 1] = r[b + 1]
  <2>1. 1 \in 1..(m + 1) /\ m + 1 \in 1..(m + 1) /\ a + 1 - 1 = a /\ a + (m + 1) - 1 = b + 1
    BY <1>3
  <2>. QED
    BY <1>4, <2>1
<1>7. ASSUME NEW i \in 1..m
      PROVE  /\ p[i] = r[a + i - 1] /\ q[i] = s[a + i - 1] /\ a + i - 1 \in 1..n
             /\ q[i].length \in Nat \ {0} /\ p[i + 1] = p[i] + q[i].length
  <2> DEFINE k == a + i - 1
  <2>0. n \in Nat /\ b <= n /\ b \in Nat /\ a \in Nat \ {0} /\ m \in Nat /\ m = b - a + 1 /\ i \in 1..m
    BY <1>1, <1>3
  <2>1. k \in 1..n /\ i \in 1..(m + 1) /\ i + 1 \in 1..(m + 1) /\ a + (i + 1) - 1 = k + 1
    BY ONLY <2>0
  <2>2. p[i] = r[k] /\ q[i] = s[k]
    BY <1>2, <1>3, <1>4, <2>1
  <2>3. p[i + 1] = r[k + 1]
    BY <1>4, <2>1
  <2>4. r[k + 1] = r[k] + s[k].length /\ s[k].length \in Nat \ {0}
    BY <1>1, <2>1
  <2>. QED
    BY <2>1, <2>2, <2>3, <2>4
<1>8. Placed(q, p)
  BY <1>2, <1>3, <1>5, <1>7 DEF Placed
<1>. QED
  BY <1>2, <1>3, <1>6, <1>7, <1>8 DEF n, m, q, PartOf

\* Sets of true statements together are true.
LEMMA TrueTogether ==
  ASSUME NEW F, NEW D, NEW p, \A T \in F : TrueOf(T, D, p)
  PROVE  TrueOf(UNION F, D, p)
<1> DEFINE U == UNION F
<1> SUFFICES ASSUME NEW t \in U
             PROVE  \/ t[1] = Shard /\ ShardOf(D, p, t)
                    \/ t[1] = Dir /\ t[2] \in Nat /\ t[3] \in Nat /\ Lined(t[4], U, t[2], t[2] + t[3])
  BY DEF TrueOf
<1>1. PICK T \in F : t \in T
  OBVIOUS
<1>2. T \subseteq U
  BY <1>1
<1> HIDE DEF U
<1>3. CASE t[1] = Shard /\ ShardOf(D, p, t)
  BY <1>3
<1>4. CASE t[1] = Dir /\ t[2] \in Nat /\ t[3] \in Nat /\ Lined(t[4], T, t[2], t[2] + t[3])
  BY <1>2, <1>4, LinedLarger
<1>. QED
  BY <1>1, <1>3, <1>4 DEF TrueOf

\* No entries say nothing.
LEMMA NothingSaid ==
  ASSUME NEW D, NEW p, p[1] \in Nat
  PROVE  Says(<<>>, D, p, p[1])
<1> DEFINE T == {}
           q == [i \in 1..1 |-> p[1]]
           s == <<>>
<1>1. TrueOf(T, D, p)
  BY DEF TrueOf
<1>2. s = [i \in 1..0 |-> s[i]] /\ 0 \in Nat
  OBVIOUS
<1> HIDE DEF s
<1>3. IsSeq(s) /\ Len(s) = 0
  BY <1>2, ValuesAreSeq
<1>4. q \in [1..(0 + 1) -> Nat] /\ q[1] = p[1] /\ q[0 + 1] = p[1]
  OBVIOUS
<1>5. 1..0 = {}
  OBVIOUS
<1> HIDE DEF q, T
<1>6. LinedAt(s, T, q, p[1], p[1])
  BY <1>3, <1>4, <1>5 DEF LinedAt
<1>7. Lined(s, T, p[1], p[1])
  BY <1>3, <1>4, <1>6 DEF Lined
<1>. QED
  BY <1>1, <1>7 DEF Says, s

\* What is said of one range, then of the next.
LEMMA SaysMore ==
  ASSUME NEW entries, NEW D, NEW p, NEW x, Says(entries, D, p, x),
         NEW U, TrueOf(U, D, p), NEW more, NEW y, Lined(more, U, x, y)
  PROVE  Says(entries \o more, D, p, y)
<1>1. PICK T : TrueOf(T, D, p) /\ Lined(entries, T, p[1], x)
  BY DEF Says
<1> DEFINE F == {T, U}
           W == UNION F
<1>2. TrueOf(W, D, p)
  <2>1. \A V \in F : TrueOf(V, D, p)
    BY <1>1
  <2> HIDE DEF F
  <2>. QED
    BY <2>1, TrueTogether
<1>3. T \subseteq W /\ U \subseteq W
  OBVIOUS
<1> HIDE DEF W
<1>4. Lined(entries, W, p[1], x) /\ Lined(more, W, x, y)
  BY <1>1, <1>3, LinedLarger
<1>5. Lined(entries \o more, W, p[1], y)
  BY <1>4, LinedJoin
<1>. QED
  BY <1>2, <1>5 DEF Says

\* The whole of a sequence is a part of it.
LEMMA WholeSub ==
  ASSUME NEW s, IsSeq(s)
  PROVE  SubSeq(s, 1, Len(s)) = s
<1> DEFINE n == Len(s)
           q == SubSeq(s, 1, n)
<1>1. n \in Nat /\ s = [i \in 1..n |-> s[i]]
  BY DEF IsSeq
<1>2. q = [i \in 1..n |-> s[i]]
  BY <1>1
<1>. QED
  BY <1>1, <1>2

\* A band that becomes directories: what their records say.
LEMMA DirsSay ==
  ASSUME NEW D, NEW p, NEW shards, NEW r, Placed(shards, r), Len(shards) # 0,
         \A k \in 1..Len(shards) : ShardOf(D, p, <<Shard, r[k], shards[k].length, shards[k].content>>),
         NEW chunks, NEW c, NEW g, CutInto(chunks, shards, c, g), NEW s,
         s = [k \in DOMAIN chunks |-> DirRecord(chunks[k], EmitDir(chunks[k]).meta)]
  PROVE  \E U : TrueOf(U, D, p) /\ Lined(s, U, r[1], r[Len(shards) + 1])
<1> DEFINE n == Len(shards)
           T0 == {<<Shard, r[k], shards[k].length, shards[k].content>> : k \in 1..n}
           meta == [k \in 1..c |-> EmitDir(chunks[k]).meta]
           dir(k) == <<Dir, r[g[k][1]], r[g[k][2] + 1] - r[g[k][1]], meta[k]>>
           Telling(U, k) == TrueOf(U, D, p) /\ dir(k) \in U
           F == {CHOOSE U : Telling(U, k) : k \in 1..c}
           W == UNION F
<1>1. /\ c \in Nat \ {0} /\ Runs(g, c, 1, n) /\ IsSeq(chunks) /\ Len(chunks) = c
      /\ \A k \in 1..c : chunks[k] = SubSeq(shards, g[k][1], g[k][2])
  BY DEF CutInto
<1>2. \A k \in 1..c : g[k][1] \in 1..n /\ g[k][2] \in g[k][1]..n
  BY <1>1, RunsParts
<1>3. n \in Nat \ {0} /\ n \in Nat
  BY DEF Placed, IsSeq
<1>4. TrueOf(T0, D, p)
  <2> SUFFICES ASSUME NEW t \in T0 PROVE t[1] = Shard /\ ShardOf(D, p, t)
    BY DEF TrueOf
  <2>1. PICK k \in 1..n : t = <<Shard, r[k], shards[k].length, shards[k].content>>
    OBVIOUS
  <2>2. t[1] = Shard
    BY <2>1
  <2>. QED
    BY <2>1, <2>2
<1>5. \A k \in 1..n : <<Shard, r[k], shards[k].length, shards[k].content>> \in T0
  OBVIOUS
<1>6. \A k \in 1..c : meta[k] = EmitDir(chunks[k]).meta
  OBVIOUS
<1> HIDE DEF n, T0, meta
<1>7. ASSUME NEW k \in 1..c PROVE \E U : Telling(U, k)
  <2> DEFINE a == g[k][1]
             b == g[k][2]
             m == b - a + 1
             q == SubSeq(shards, a, b)
  <2>1. a \in Nat \ {0} /\ b \in Nat /\ a <= b /\ b <= Len(shards)
    <3>1. a \in 1..n /\ b \in a..n
      BY <1>2
    <3> HIDE DEF a, b
    <3>. QED
      BY <1>3, <3>1 DEF n
  <2>2. chunks[k] = q
    BY <1>1
  <2> HIDE DEF a, b
  <2>3. m = b - a + 1 /\ q = SubSeq(shards, a, b)
    OBVIOUS
  <2>4. m \in Nat \ {0}
    BY <2>1
  <2> HIDE DEF m, q
  <2>12. Placed(shards, r) /\ a \in Nat \ {0} /\ b \in Nat /\ a <= b /\ b <= Len(shards)
    BY <2>1
  <2>13. PartOf(q, shards, r, a, b)
    BY ONLY <2>3, <2>12, PlacedPart
  <2>14. PICK o : /\ Placed(q, o) /\ o[1] = r[a] /\ o[m + 1] = r[b + 1]
                  /\ \A i \in 1..m : o[i] = r[a + i - 1] /\ q[i] = shards[a + i - 1] /\ a + i - 1 \in 1..Len(shards)
    BY ONLY <2>13 DEF PartOf, m
  <2>15. Len(q) = m
    BY ONLY <2>13 DEF PartOf, m
  <2>5. /\ Placed(q, o) /\ Len(q) = m /\ o[1] = r[a] /\ o[m + 1] = r[b + 1]
        /\ \A i \in 1..m : o[i] = r[a + i - 1] /\ q[i] = shards[a + i - 1] /\ a + i - 1 \in 1..n
    BY ONLY <2>14, <2>15 DEF n
  <2>6. \A i \in 1..Len(q) : <<Shard, o[i], q[i].length, q[i].content>> \in T0
    <3> SUFFICES ASSUME NEW i \in 1..m PROVE <<Shard, o[i], q[i].length, q[i].content>> \in T0
      BY <2>5
    <3> DEFINE x == a + i - 1
    <3>1. o[i] = r[x] /\ q[i] = shards[x] /\ x \in 1..n
      BY <2>5
    <3> HIDE DEF x
    <3>. QED
      BY <1>5, <3>1
  <2>7. Len(q) # 0
    BY <2>4, <2>5
  <2>8. \E T : /\ TrueOf(T, D, p) /\ T0 \subseteq T
               /\ <<Dir, o[1], o[Len(q) + 1] - o[1], EmitDir(q).meta>> \in T
    BY ONLY <2>5, <2>6, <2>7, <1>4, EmitSays
  <2>9. PICK T : TrueOf(T, D, p) /\ <<Dir, o[1], o[m + 1] - o[1], EmitDir(q).meta>> \in T
    BY <2>5, <2>8
  <2>10. meta[k] = EmitDir(q).meta
    BY <1>6, <2>2
  <2>11. <<Dir, r[a], r[b + 1] - r[a], meta[k]>> \in T
    BY <2>5, <2>9, <2>10
  <2>. QED
    BY <2>9, <2>11 DEF a, b
<1> HIDE DEF Telling, dir
<1>8. ASSUME NEW k \in 1..c PROVE Telling(CHOOSE U : Telling(U, k), k)
  BY <1>7
<1>9. TrueOf(W, D, p)
  <2>1. \A T \in F : TrueOf(T, D, p)
    BY <1>8 DEF Telling
  <2> HIDE DEF F
  <2>. QED
    BY <2>1, TrueTogether
<1>10. ASSUME NEW k \in 1..c PROVE <<Dir, r[g[k][1]], r[g[k][2] + 1] - r[g[k][1]], meta[k]>> \in W
  <2> DEFINE V == CHOOSE U : Telling(U, k)
  <2>1. V \in F
    OBVIOUS
  <2>2. dir(k) \in V
    <3>1. Telling(V, k)
      BY <1>8
    <3> HIDE DEF V
    <3>. QED
      BY <3>1 DEF Telling
  <2> HIDE DEF V, F
  <2>3. dir(k) \in W
    BY <2>1, <2>2
  <2>. QED
    BY <2>3 DEF dir
<1> HIDE DEF W
<1>11. s = [k \in 1..c |-> DirRecord(SubSeq(shards, g[k][1], g[k][2]), meta[k])]
  <2>1. DOMAIN chunks = 1..c
    BY <1>1 DEF IsSeq
  <2>. QED
    BY <1>1, <1>6, <2>1
<1>12. Lined(s, W, r[1], r[n + 1])
  <2>1. 1 \in Nat \ {0} /\ n \in Nat /\ 1 <= n /\ n <= Len(shards)
    BY <1>3 DEF n
  <2>2. Placed(shards, r)
    OBVIOUS
  <2>3. \A k \in 1..c : <<Dir, r[g[k][1]], r[g[k][2] + 1] - r[g[k][1]], meta[k]>> \in W
    BY <1>10
  <2>. QED
    BY ONLY <1>1, <1>11, <2>1, <2>2, <2>3, DirsLined, ZenonT(60)
<1>. QED
  BY <1>9, <1>12 DEF n

\* One more band.
LEMMA PlaceBandSays ==
  ASSUME NEW D, NEW p, IsLine(D, p), NEW lo \in 1..Len(D), NEW hi \in lo..Len(D),
         NEW tree, Says(tree.entries, D, p, p[lo])
  PROVE  Says(PlaceBand(tree, SubSeq(D, lo, hi)).entries, D, p, p[hi + 1])
<1> DEFINE band == SubSeq(D, lo, hi)
           shards == ShardGroups(band)
           n == Len(shards)
           later == tree.later - 1
           Fits(m) == Len(tree.entries) + m + later <= TopMaxEntries
           y == IF SubMetaMaxEntries < MetaMaxEntries THEN SubMetaMaxEntries ELSE MetaMaxEntries
           subs == CeilDiv(n, y)
           count == IF Fits(subs) THEN subs ELSE 1
           chunks == SplitEvenly(shards, count)
           recs == ShardRecords(shards)
           drecs == [k \in DOMAIN chunks |-> DirRecord(chunks[k], EmitDir(chunks[k]).meta)]
<1>1. n # 0 /\ \E r : GroupsAt(shards, r, D, p, lo, hi)
  <2>1. shards = ShardGroups(SubSeq(D, lo, hi))
    OBVIOUS
  <2> HIDE DEF shards
  <2>. QED
    BY <2>1, GroupsAre
<1>2. \/ PlaceBand(tree, band).entries = tree.entries \o recs
      \/ PlaceBand(tree, band).entries = tree.entries \o drecs
  BY DEF PlaceBand
<1> HIDE DEF shards, band
<1>3. PICK r : /\ Placed(shards, r) /\ r[1] = p[lo] /\ r[n + 1] = p[hi + 1]
               /\ \A k \in 1..n : ShardOf(D, p, <<Shard, r[k], shards[k].length, shards[k].content>>)
  BY <1>1 DEF GroupsAt
<1>4. IsSeq(shards) /\ n \in Nat \ {0} /\ n \in Nat
  BY <1>1, <1>3 DEF Placed, IsSeq
<1>5. \E U : TrueOf(U, D, p) /\ Lined(recs, U, r[1], r[n + 1])
  <2> DEFINE T == {<<Shard, r[k], shards[k].length, shards[k].content>> : k \in 1..n}
  <2>1. TrueOf(T, D, p)
    <3> SUFFICES ASSUME NEW t \in T PROVE t[1] = Shard /\ ShardOf(D, p, t)
      BY DEF TrueOf
    <3>1. PICK k \in 1..n : t = <<Shard, r[k], shards[k].length, shards[k].content>>
      OBVIOUS
    <3>2. t[1] = Shard
      BY <3>1
    <3>. QED
      BY <1>3, <3>1, <3>2
  <2>2. \A k \in 1..Len(shards) : <<Shard, r[k], shards[k].length, shards[k].content>> \in T
    OBVIOUS
  <2> HIDE DEF T, n
  <2>3. 1 \in Nat \ {0} /\ n \in Nat /\ 1 <= n + 1 /\ n <= Len(shards)
    BY <1>4 DEF n
  <2>4. Lined(ShardRecords(SubSeq(shards, 1, n)), T, r[1], r[n + 1])
    BY ONLY <1>3, <2>2, <2>3, ShardRecordsLined
  <2>5. SubSeq(shards, 1, n) = shards
    BY <1>4, WholeSub DEF n
  <2>. QED
    BY <2>1, <2>4, <2>5
<1>6. \E U : TrueOf(U, D, p) /\ Lined(drecs, U, r[1], r[n + 1])
  <2>1. y \in Nat \ {0}
    BY TreeAssumption
  <2> HIDE DEF y
  <2>2. subs \in 1..n
    BY <1>4, <2>1, DirsWithin
  <2> HIDE DEF n, subs, Fits
  <2>3. count \in Nat \ {0} /\ count <= n
    BY <1>4, <2>2
  <2> HIDE DEF count
  <2> DEFINE firsts == [i \in 1..count |-> 1 + (i - 1) * (n \div count)
                                             + (IF i - 1 < n % count THEN i - 1 ELSE n % count)]
  <2>4. chunks = SplitAt(shards, firsts)
    BY DEF SplitEvenly, n
  <2>5. firsts = [i \in 1..count |-> 1 + (i - 1) * (n \div count)
                                       + (IF i - 1 < n % count THEN i - 1 ELSE n % count)]
    OBVIOUS
  <2> HIDE DEF firsts, chunks
  <2>6. Begins(firsts, count, n)
    BY ONLY <1>4, <2>3, <2>5, EvenBegins
  <2>7. PICK g : CutInto(chunks, shards, count, g)
    BY <1>4, <2>4, <2>6, SplitIs DEF n
  <2>8. drecs = [k \in DOMAIN chunks |-> DirRecord(chunks[k], EmitDir(chunks[k]).meta)]
    OBVIOUS
  <2> HIDE DEF drecs
  <2>9. Len(shards) # 0 /\ Placed(shards, r)
        /\ \A k \in 1..Len(shards) : ShardOf(D, p, <<Shard, r[k], shards[k].length, shards[k].content>>)
    BY <1>1, <1>3 DEF n
  <2>10. \E U : TrueOf(U, D, p) /\ Lined(drecs, U, r[1], r[Len(shards) + 1])
    BY ONLY <2>7, <2>8, <2>9, DirsSay
  <2>. QED
    BY <2>10 DEF n
<1> HIDE DEF recs, drecs, n
<1>7. \A more : (\E U : TrueOf(U, D, p) /\ Lined(more, U, r[1], r[n + 1])) => Says(tree.entries \o more, D, p, p[hi + 1])
  BY <1>3, SaysMore
<1>. QED
  BY <1>2, <1>5, <1>6, <1>7 DEF band

-----------------------------------------------------------------------------
(***************************************************************************)
(* All the bands, and what pack makes of a cut.                            *)
(***************************************************************************)
\* The recursion over the bands defines a function.
LEMMA PlacingExists ==
  ASSUME NEW bands, Len(bands) \in Nat
  PROVE  \E f : Placing(f, bands)
<1> DEFINE N == Len(bands)
           base == [files |-> <<>>, entries |-> <<>>, later |-> N]
           Upto(f, m) == f[0] = base /\ \A i \in 1..m : f[i] = PlaceBand(f[i - 1], bands[i])
           T == {m \in 0..N : \E f : Upto(f, m)}
<1>1. N \in Nat
  OBVIOUS
<1> HIDE DEF N, base
<1>2. 0 \in T
  <2> DEFINE f == [i \in 0..0 |-> base]
  <2>1. Upto(f, 0) /\ 0 \in 0..N
    BY <1>1
  <2> HIDE DEF Upto, f
  <2>. QED
    BY <2>1
<1>3. ASSUME NEW k \in 0..N, k \in T, k < N PROVE k + 1 \in T
  <2>1. PICK f : Upto(f, k)
    BY <1>3
  <2> DEFINE g == [i \in 0..(k + 1) |-> IF i = k + 1 THEN PlaceBand(f[k], bands[k + 1]) ELSE f[i]]
  <2>2. k + 1 \in 0..N /\ k + 1 \in 0..(k + 1) /\ k \in Nat
    BY <1>1, <1>3
  <2>3. (\A i \in 0..k : g[i] = f[i]) /\ g[k + 1] = PlaceBand(f[k], bands[k + 1])
    BY <2>2
  <2> HIDE DEF g
  <2>4. ASSUME NEW i \in 1..(k + 1) PROVE g[i] = PlaceBand(g[i - 1], bands[i])
    BY <2>2, <2>3, <2>1
  <2>5. g[0] = base
    BY <2>2, <2>1, <2>3
  <2>6. Upto(g, k + 1)
    BY <2>4, <2>5
  <2> HIDE DEF Upto
  <2>. QED
    BY <2>2, <2>6
<1> HIDE DEF T
<1>4. \A k \in 0..N : k \in T
  BY <1>1, <1>2, <1>3, Ascent
<1>5. PICK f : Upto(f, N)
  <2>1. N \in T
    BY <1>1, <1>4
  <2> HIDE DEF Upto
  <2>. QED
    BY <2>1 DEF T
<1> DEFINE h == [i \in 0..N |-> f[i]]
<1>6. \A i \in 0..N : h[i] = f[i]
  OBVIOUS
<1>7. h = [i \in 0..N |-> h[i]]
  OBVIOUS
<1> HIDE DEF h
<1>8. ASSUME NEW i \in 0..N
      PROVE  h[i] = IF i = 0 THEN base ELSE PlaceBand(h[i - 1], bands[i])
  BY <1>5, <1>6, <1>1
<1>9. Placing(h, bands)
  BY <1>7, <1>8 DEF Placing, N, base
<1>. QED
  BY <1>9

\* The tree of a file that is cut into bands says what is true of it.
LEMMA TreeSays ==
  ASSUME NEW D, NEW p, IsLine(D, p), NEW bands, NEW c, NEW g, CutInto(bands, D, c, g)
  PROVE  Says(BuildProofTree(bands).entries, D, p, p[Len(D) + 1])
<1> DEFINE N == Len(D)
           F == CHOOSE f : Placing(f, bands)
           at(k) == IF k = 0 THEN p[1] ELSE p[g[k][2] + 1]
           T == {k \in 0..c : Says(F[k].entries, D, p, at(k))}
<1>1. /\ c \in Nat \ {0} /\ c \in Nat /\ Runs(g, c, 1, N) /\ Len(bands) = c
      /\ \A k \in 1..c : bands[k] = SubSeq(D, g[k][1], g[k][2])
  BY DEF CutInto
<1>2. /\ \A k \in 1..c : g[k][1] \in 1..N /\ g[k][2] \in g[k][1]..N
      /\ \A k \in 1..c : k < c => g[k + 1][1] = g[k][2] + 1
      /\ g[1][1] = 1 /\ g[c][2] = N
  <2>1. Runs(g, c, 1, N) /\ c # 0
    BY <1>1
  <2> HIDE DEF N
  <2>. QED
    BY ONLY <2>1, RunsParts
<1>3. p[1] \in Nat
  <2>1. p \in [1..(N + 1) -> Nat] /\ N \in Nat /\ 1 \in 1..(N + 1)
    BY DEF IsLine, Placed, IsSeq
  <2> HIDE DEF N
  <2>. QED
    BY <2>1
<1>4. Placing(F, bands)
  BY <1>1, PlacingExists
<1>5. BuildProofTree(bands) = F[c]
  BY <1>1 DEF BuildProofTree, Placing
<1> HIDE DEF F
<1>6. F[0].entries = <<>> /\ \A k \in 1..c : F[k] = PlaceBand(F[k - 1], bands[k])
  BY <1>1, <1>4 DEF Placing
<1>7. 0 \in T
  BY <1>3, <1>6, NothingSaid, <1>1
<1>8. ASSUME NEW k \in 0..c, k \in T, k < c PROVE k + 1 \in T
  <2> DEFINE j == k + 1
             lo == g[j][1]
             hi == g[j][2]
  <2>1. j \in 1..c /\ j \in 0..c /\ j # 0 /\ j - 1 = k /\ (k = 0 => j = 1)
    BY <1>1, <1>8
  <2>2. lo \in 1..N /\ hi \in lo..N /\ bands[j] = SubSeq(D, lo, hi)
    BY <1>1, <1>2, <2>1
  <2>3. at(k) = p[lo]
    BY <1>2, <2>1, <1>1, <1>8
  <2>4. F[j] = PlaceBand(F[k], bands[j])
    BY <1>6, <2>1
  <2>5. Says(F[k].entries, D, p, at(k))
    BY <1>8
  <2>6. at(j) = p[hi + 1]
    BY <2>1
  <2> HIDE DEF lo, hi, at, j
  <2>7. Says(F[k].entries, D, p, p[lo])
    BY <2>3, <2>5
  <2>8. Says(PlaceBand(F[k], SubSeq(D, lo, hi)).entries, D, p, p[hi + 1])
    BY <2>2, <2>7, PlaceBandSays
  <2>9. Says(F[j].entries, D, p, at(j))
    BY <2>2, <2>4, <2>6, <2>8
  <2>10. j \in T
    BY <2>1, <2>9
  <2>. QED
    BY <2>10 DEF j
<1> HIDE DEF T
<1>9. \A k \in 0..c : k \in T
  BY <1>1, <1>7, <1>8, Ascent
<1>10. Says(F[c].entries, D, p, at(c))
  BY <1>1, <1>9 DEF T
<1>11. at(c) = p[N + 1]
  BY <1>1, <1>2
<1>. QED
  BY <1>5, <1>10, <1>11

\* A part of the leaves is digested as in the whole.
LEMMA DigestedPart ==
  ASSUME NEW f, NEW s, IsSeq(s), NEW a \in Nat \ {0}, NEW b \in Nat, a <= b, b <= Len(s)
  PROVE  PartDigested(f, s, a, b)
<1> DEFINE n == Len(s)
           m == b - a + 1
           q == SubSeq(s, a, b)
           D == Digested(f, s)
           d(l) == [offset |-> l.offset, length |-> l.length, digest |-> <<f.id, l.offset, l.length>>]
<1>1. n \in Nat /\ DOMAIN s = 1..n /\ m \in Nat /\ a <= b + 1
  BY DEF IsSeq
<1>2. DOMAIN q = 1..m /\ \A i \in 1..m : q[i] = s[a + i - 1]
  BY <1>1, SubSeqIs
<1>3. D = [i \in 1..n |-> d(s[i])]
  BY <1>1 DEF Digested
<1>4. Digested(f, q) = [i \in 1..m |-> d(q[i])]
  BY <1>2 DEF Digested
<1> HIDE DEF d, q
<1>5. D = [i \in 1..n |-> D[i]] /\ \A i \in 1..n : D[i] = d(s[i])
  BY <1>3
<1> HIDE DEF D
<1>6. IsSeq(D) /\ Len(D) = n
  BY <1>1, <1>5, ValuesAreSeq
<1> DEFINE u == SubSeq(D, a, b)
<1>7. IsSeq(u) /\ Len(u) = m /\ DOMAIN u = 1..m /\ \A i \in 1..m : u[i] = D[a + i - 1]
  BY <1>1, <1>6, SubSeqIs
<1> HIDE DEF u
<1>8. u = [i \in 1..m |-> u[i]]
  BY <1>7 DEF IsSeq
<1>9. ASSUME NEW i \in 1..m PROVE u[i] = d(q[i])
  <2>1. a + i - 1 \in 1..n
    BY <1>1
  <2>. QED
    BY <1>2, <1>5, <1>7, <2>1
<1>10. u = [i \in 1..m |-> d(q[i])]
  BY <1>8, <1>9
<1>. QED
  BY <1>4, <1>10 DEF u, D, q, PartDigested

\* What pack makes of a cut says what is true of its leaves.
LEMMA PackSays ==
  ASSUME NEW f, NEW cut, NEW p, IsLine(cut.leaves, p), NEW c, NEW g, CutInto(cut.bands, cut.leaves, c, g),
         NEW pack, pack = PackWithChunker(f, cut), pack.ok
  PROVE  /\ IsLine(pack.leaves, p) /\ Len(pack.leaves) = Len(cut.leaves)
         /\ \A i \in 1..Len(cut.leaves) : pack.leaves[i].length = cut.leaves[i].length
         /\ pack.anchor[2] = f.length /\ Says(pack.anchor[3], pack.leaves, p, p[Len(pack.leaves) + 1])
<1> DEFINE s == cut.leaves
           n == Len(s)
           D == Digested(f, s)
           bands == [b \in DOMAIN cut.bands |-> Digested(f, cut.bands[b])]
           tree == BuildProofTree(bands)
<1>1. /\ IsSeq(s) /\ n \in Nat \ {0} /\ p \in [1..(n + 1) -> Nat] /\ DOMAIN s = 1..n
      /\ \A i \in 1..n : s[i].length \in Nat \ {0} /\ p[i + 1] = p[i] + s[i].length /\ s[i].offset = p[i]
  BY DEF IsLine, Placed, IsSeq
<1>2. /\ c \in Nat \ {0} /\ Runs(g, c, 1, n) /\ IsSeq(cut.bands) /\ Len(cut.bands) = c
      /\ \A k \in 1..c : cut.bands[k] = SubSeq(s, g[k][1], g[k][2])
  BY DEF CutInto
<1>3. D = [i \in 1..n |-> D[i]] /\ \A i \in 1..n : D[i].length = s[i].length /\ D[i].offset = s[i].offset
  BY <1>1 DEF Digested
<1>4. /\ pack.leaves = D /\ pack.anchor = <<f.id, f.length, tree.entries>>
  BY DEF PackWithChunker, Finished, EncodeDescriptor, Refused
<1> HIDE DEF n
<1>5. IsSeq(D) /\ Len(D) = n
  <2> HIDE DEF D
  <2>. QED
    BY <1>1, <1>3, ValuesAreSeq
<1>6. IsLine(D, p)
  <2> HIDE DEF D
  <2>. QED
    BY <1>1, <1>3, <1>5 DEF IsLine, Placed
<1>7. ASSUME NEW k \in 1..c PROVE bands[k] = SubSeq(D, g[k][1], g[k][2])
  <2> DEFINE x == g[k][1]
             y == g[k][2]
  <2>1. x \in 1..n /\ y \in x..n
    BY <1>2, k \in 1..c, RunsParts
  <2>2. k \in DOMAIN cut.bands
    BY <1>2 DEF IsSeq
  <2>3. cut.bands[k] = SubSeq(s, x, y)
    BY <1>2
  <2>4. bands[k] = Digested(f, cut.bands[k])
    BY <2>2
  <2> HIDE DEF x, y
  <2>5. x \in Nat \ {0} /\ y \in Nat /\ x <= y /\ y <= Len(s) /\ IsSeq(s)
    BY <1>1, <2>1 DEF n
  <2> HIDE DEF s, bands
  <2>6. PartDigested(f, s, x, y)
    BY ONLY <2>5, DigestedPart
  <2>7. bands[k] = SubSeq(Digested(f, s), x, y)
    BY ONLY <2>3, <2>4, <2>6 DEF PartDigested
  <2>. QED
    BY <2>7 DEF x, y
<1>8. bands = [k \in 1..c |-> bands[k]]
  BY <1>2 DEF IsSeq
<1> HIDE DEF bands, tree, D, s
<1>9. IsSeq(bands) /\ Len(bands) = c
  BY <1>2, <1>8, ValuesAreSeq
<1>10. CutInto(bands, D, c, g)
  BY <1>2, <1>5, <1>7, <1>9 DEF CutInto
<1>11. Says(tree.entries, D, p, p[Len(D) + 1])
  BY <1>6, <1>10, TreeSays DEF tree
<1>12. pack.leaves = D /\ pack.anchor[2] = f.length /\ pack.anchor[3] = tree.entries
  BY <1>4
<1>13. IsLine(pack.leaves, p) /\ Says(pack.anchor[3], pack.leaves, p, p[Len(pack.leaves) + 1])
  BY ONLY <1>6, <1>11, <1>12
<1>14. Len(pack.leaves) = Len(cut.leaves)
  BY <1>5, <1>12 DEF n, s
<1>15. \A i \in 1..Len(cut.leaves) : pack.leaves[i].length = cut.leaves[i].length
  BY <1>3, <1>12 DEF n, s
<1>. QED
  BY <1>12, <1>13, <1>14, <1>15

-----------------------------------------------------------------------------
(***************************************************************************)
(* Finite sets of numbers in order.                                        *)
(***************************************************************************)
\* The image of a finite set.
LEMMA ImageFinite ==
  ASSUME NEW S, IsFiniteSet(S), NEW f
  PROVE  IsFiniteSet({f[x] : x \in S})
<1> DEFINE T == {f[x] : x \in S}
           h == [x \in S |-> f[x]]
<1>1. h \in Surjection(S, T)
  BY DEF Surjection
<1>. QED
  BY <1>1, FS_Surjection

\* A finite set, of whose every part R has a first element, has an element of
\* every rank.
LEMMA Ranks ==
  ASSUME NEW S, IsFiniteSet(S), NEW R,
         \A x, y \in S : <<x, y>> \in R => <<y, x>> \notin R,
         \A U \in SUBSET S : U # {} => \E m \in U : \A y \in U : y # m => <<m, y>> \in R
  PROVE  Ranked(S, R)
<1> DEFINE n == Cardinality(S)
           Down(U) == \A u \in U : \A y \in S : <<y, u>> \in R => y \in U
           Part(k) == \E U \in SUBSET S : Down(U) /\ Cardinality(U) = k
           T == {k \in 0..n : Part(k)}
<1>1. n \in Nat
  BY FS_CardinalityType
<1> HIDE DEF n
<1>2. ASSUME NEW U \in SUBSET S, Down(U), U # S
      PROVE  \E m \in S \ U : {y \in S : <<y, m>> \in R} = U /\ Down(U \cup {m})
  <2>1. S \ U \in SUBSET S /\ S \ U # {}
    BY <1>2
  <2>2. PICK m \in S \ U : \A y \in S \ U : y # m => <<m, y>> \in R
    BY <2>1
  <2>3. ASSUME NEW y \in S, <<y, m>> \in R PROVE y \in U
    BY <2>2, <2>3
  <2>4. ASSUME NEW u \in U PROVE u \in S /\ <<u, m>> \in R
    <3>1. u \in S /\ u # m
      BY <2>2
    <3>2. <<m, u>> \notin R
      BY <1>2, <2>2
    <3> DEFINE V == {u, m}
    <3>3. V \in SUBSET S /\ V # {}
      BY <2>2, <3>1
    <3>4. PICK z \in V : \A y \in V : y # z => <<z, y>> \in R
      <4> HIDE DEF V
      <4>. QED
        BY <3>3
    <3>5. z = u
      BY <3>1, <3>2, <3>4
    <3>. QED
      BY <3>1, <3>4, <3>5
  <2>5. {y \in S : <<y, m>> \in R} = U
    BY <2>3, <2>4
  <2>6. Down(U \cup {m})
    BY <1>2, <2>3
  <2>. QED
    BY <2>5, <2>6
<1>3. 0 \in T
  <2>1. Down({}) /\ {} \in SUBSET S
    OBVIOUS
  <2>2. Cardinality({}) = 0 /\ 0 \in 0..n
    BY <1>1, FS_EmptySet
  <2> HIDE DEF Down
  <2>. QED
    BY <2>1, <2>2
<1>4. ASSUME NEW k \in 0..n, k \in T, k < n
      PROVE  /\ k + 1 \in T
             /\ \E x \in S : Cardinality({y \in S : <<y, x>> \in R}) = k
  <2>1. PICK U \in SUBSET S : Down(U) /\ Cardinality(U) = k
    <3> HIDE DEF Down
    <3>. QED
      BY <1>4
  <2>2. U # S
    BY <1>1, <1>4, <2>1 DEF n
  <2>3. PICK m \in S \ U : {y \in S : <<y, m>> \in R} = U /\ Down(U \cup {m})
    <3> HIDE DEF Down
    <3>. QED
      BY <1>2, <2>1, <2>2
  <2>4. IsFiniteSet(U)
    BY FS_Subset
  <2>5. Cardinality(U \cup {m}) = k + 1
    BY <2>1, <2>4, FS_AddElement
  <2>6. U \cup {m} \in SUBSET S /\ k + 1 \in 0..n
    BY <1>1, <1>4
  <2>7. k + 1 \in T
    <3> HIDE DEF Down
    <3>. QED
      BY <2>3, <2>5, <2>6
  <2>. QED
    BY <2>1, <2>3, <2>7
<1> HIDE DEF T
<1>5. \A k \in 0..n : k \in T
  BY <1>1, <1>3, <1>4, Ascent
<1>6. ASSUME NEW k \in 1..n
      PROVE  \E x \in S : Cardinality({y \in S : <<y, x>> \in R}) = k - 1
  <2> DEFINE j == k - 1
  <2>1. j \in 0..n /\ j < n
    BY <1>1
  <2> HIDE DEF j
  <2>2. \E x \in S : Cardinality({y \in S : <<y, x>> \in R}) = j
    BY <1>4, <1>5, <2>1
  <2>. QED
    BY <2>2 DEF j
<1>. QED
  BY <1>6 DEF n, Ranked

\* A finite set of numbers in ascending order.
LEMMA AscendingIs ==
  ASSUME NEW S \in SUBSET Nat, IsFiniteSet(S), NEW n, n = Cardinality(S), NEW p, p = Ascending(S)
  PROVE  /\ n \in Nat /\ p \in [1..n -> Nat] /\ IsSeq(p) /\ Len(p) = n /\ DOMAIN p = 1..n
         /\ Ascends(p, n)
         /\ \A k \in 1..n : p[k] \in S
         /\ \A x \in S : \E k \in 1..n : p[k] = x
<1> DEFINE R == {q \in S \X S : q[1] < q[2]}
           lower(x) == {y \in S : y < x}
           rank(x) == Cardinality(lower(x))
<1>1. n \in Nat
  BY FS_CardinalityType
<1>2. \A x, y \in S : <<x, y>> \in R <=> x < y
  OBVIOUS
<1> HIDE DEF R
<1>3. \A x, y \in S : <<x, y>> \in R => <<y, x>> \notin R
  BY <1>2
<1>4. ASSUME NEW U \in SUBSET S, U # {} PROVE \E m \in U : \A y \in U : y # m => <<m, y>> \in R
  <2>1. PICK m \in U : \A y \in U : m <= y
    BY <1>4, LeastNat
  <2>2. ASSUME NEW y \in U, y # m PROVE <<m, y>> \in R
    BY <2>1, <2>2, <1>2
  <2>. QED
    BY <2>2
<1>5. \A k \in 1..n : \E x \in S : Cardinality({y \in S : <<y, x>> \in R}) = k - 1
  <2>1. Ranked(S, R)
    BY <1>3, <1>4, Ranks
  <2>. QED
    BY <2>1 DEF Ranked
<1>6. \A x \in S : {y \in S : <<y, x>> \in R} = lower(x)
  BY <1>2
<1>7. \A k \in 1..n : \E x \in S : rank(x) = k - 1
  <2> SUFFICES ASSUME NEW k \in 1..n PROVE \E x \in S : rank(x) = k - 1
    OBVIOUS
  <2>1. PICK x \in S : Cardinality({y \in S : <<y, x>> \in R}) = k - 1
    BY <1>5
  <2>2. {y \in S : <<y, x>> \in R} = lower(x)
    BY <1>6
  <2>3. rank(x) = k - 1
    BY <2>1, <2>2
  <2>. QED
    BY <2>3
<1>8. p = [k \in 1..n |-> CHOOSE x \in S : rank(x) = k - 1]
  BY DEF Ascending
<1>9. \A x \in S : lower(x) \in SUBSET S /\ IsFiniteSet(lower(x)) /\ rank(x) \in Nat
  BY FS_Subset, FS_CardinalityType
<1>10. \A x, y \in S : x < y => rank(x) < rank(y)
  <2> SUFFICES ASSUME NEW x \in S, NEW y \in S, x < y PROVE rank(x) < rank(y)
    OBVIOUS
  <2>1. lower(x) \in SUBSET lower(y) /\ x \in lower(y) /\ x \notin lower(x)
    <3>1. ASSUME NEW z \in lower(x) PROVE z \in lower(y)
      OBVIOUS
    <3>2. x \in lower(y)
      OBVIOUS
    <3>3. x \notin lower(x)
      OBVIOUS
    <3> HIDE DEF lower
    <3>. QED
      BY <3>1, <3>2, <3>3
  <2>2. IsFiniteSet(lower(y)) /\ rank(x) \in Nat /\ rank(y) \in Nat
    BY <1>9
  <2> DEFINE A == lower(x)
             B == lower(y)
  <2>3. A \in SUBSET B /\ A # B /\ IsFiniteSet(B) /\ Cardinality(A) \in Nat /\ Cardinality(B) \in Nat
    BY <2>1, <2>2
  <2> HIDE DEF A, B
  <2>4. Cardinality(A) < Cardinality(B)
    BY <2>3, FS_Subset
  <2>. QED
    BY <2>4 DEF A, B
<1>11. \A x \in S : rank(x) < n
  <2> SUFFICES ASSUME NEW x \in S PROVE rank(x) < n
    OBVIOUS
  <2> DEFINE A == lower(x)
  <2>1. A \in SUBSET S /\ A # S /\ Cardinality(A) \in Nat
    BY <1>9
  <2> HIDE DEF A
  <2>3. n = Cardinality(S) /\ IsFiniteSet(S) /\ Cardinality(S) \in Nat
    BY <1>1
  <2>4. Cardinality(A) <= Cardinality(S) /\ Cardinality(A) # Cardinality(S)
    BY ONLY <2>1, <2>3, FS_Subset
  <2>2. Cardinality(A) < Cardinality(S)
    BY <2>1, <2>3, <2>4
  <2>. QED
    BY <2>2, <2>3 DEF A
<1> HIDE DEF lower, rank
<1>12. ASSUME NEW k \in 1..n PROVE p[k] \in S /\ rank(p[k]) = k - 1
  BY <1>7, <1>8
<1>13. p \in [1..n -> Nat] /\ DOMAIN p = 1..n /\ p = [k \in 1..n |-> p[k]]
  BY <1>8, <1>12
<1>14. IsSeq(p) /\ Len(p) = n
  BY <1>1, <1>13, ValuesAreSeq
<1>15. ASSUME NEW i \in 1..n, NEW j \in 1..n, i < j PROVE p[i] < p[j]
  <2> DEFINE a == p[i]
             b == p[j]
  <2>1. a \in S /\ b \in S /\ rank(a) = i - 1 /\ rank(b) = j - 1
    BY <1>12
  <2> HIDE DEF a, b
  <2>2. a # b
    BY <1>1, <1>15, <2>1
  <2>3. ~(b < a)
    BY <1>10, <2>1, <1>1, <1>15
  <2>4. a < b
    BY <2>1, <2>2, <2>3
  <2>. QED
    BY <2>4 DEF a, b
<1>16. ASSUME NEW x \in S PROVE \E k \in 1..n : p[k] = x
  <2> DEFINE k == rank(x) + 1
  <2>1. k \in 1..n /\ rank(x) = k - 1
    BY <1>1, <1>9, <1>11
  <2> HIDE DEF k
  <2> DEFINE a == p[k]
  <2>2. a \in S /\ rank(a) = rank(x)
    BY <1>12, <2>1
  <2> HIDE DEF a
  <2>3. ~(a < x) /\ ~(x < a)
    BY <1>9, <1>10, <2>2
  <2>4. a = x
    BY <2>2, <2>3
  <2>. QED
    BY <2>1, <2>4 DEF a
<1>. QED
  BY <1>1, <1>12, <1>13, <1>14, <1>15, <1>16 DEF Ascends

\* What is selected is at one of the places.
LEMMA SelectedIn ==
  ASSUME NEW s, NEW at \in SUBSET Nat, IsFiniteSet(at)
  PROVE  /\ IsSeq(Selected(s, at))
         /\ \A i \in DOMAIN Selected(s, at) : \E j \in at : Selected(s, at)[i] = s[j]
<1> DEFINE n == Cardinality(at)
           p == Ascending(at)
           q == Selected(s, at)
<1>1. n \in Nat /\ \A k \in 1..n : p[k] \in at
  BY AscendingIs
<1>2. q = [k \in 1..n |-> s[p[k]]]
  BY DEF Selected
<1> HIDE DEF p, n
<1>3. q = [k \in 1..n |-> q[k]] /\ \A k \in 1..n : q[k] = s[p[k]]
  BY <1>2
<1> HIDE DEF q
<1>4. IsSeq(q) /\ DOMAIN q = 1..n
  BY <1>1, <1>3, ValuesAreSeq
<1>. QED
  BY <1>1, <1>3, <1>4 DEF q

-----------------------------------------------------------------------------
(***************************************************************************)
(* The client: what it is given of a tree that speaks the truth, whatever  *)
(* the proof files are, is true.                                           *)
(***************************************************************************)
\* Sequences over a set, one after the other, are over the set.
LEMMA FlattenIn ==
  ASSUME NEW S, NEW n \in Nat, NEW gs, gs = [i \in 1..n |-> gs[i]], \A i \in 1..n : gs[i] \in Seq(S)
  PROVE  FlattenSeq(gs) \in Seq(S)
<1> DEFINE F == CHOOSE f : Joins(f, gs, n)
<1>1. Joins(F, gs, n)
  BY JoinsExist
<1> HIDE DEF F
<1>2. Len(gs) = n
  BY ValuesAreSeq
<1>3. CASE n = 0
  BY <1>2, <1>3 DEF FlattenSeq
<1>4. CASE n # 0
  <2>1. FlattenSeq(gs) = F[n]
    BY <1>2, <1>4 DEF FlattenSeq, Joins, F
  <2>2. \A i \in 1..n : F[i] = IF i = 1 THEN gs[i] ELSE F[i - 1] \o gs[i]
    BY <1>1 DEF Joins
  <2> DEFINE T == {m \in 0..(n - 1) : F[m + 1] \in Seq(S)}
  <2>3. 0 \in T
    BY <1>4, <2>2
  <2>4. ASSUME NEW k \in 0..(n - 1), k \in T, k < n - 1 PROVE k + 1 \in T
    <3> DEFINE j == k + 1
               i == j + 1
    <3>1. F[j] \in Seq(S) /\ j \in 0..(n - 1) /\ i \in 1..n /\ i # 1 /\ i - 1 = j
      BY <2>4
    <3> HIDE DEF i, j
    <3>2. F[i] = F[j] \o gs[i] /\ gs[i] \in Seq(S)
      BY <2>2, <3>1
    <3> DEFINE u == F[j]
               v == gs[i]
    <3>3. u \o v \in Seq(S)
      <4>1. u \in Seq(S) /\ v \in Seq(S)
        BY <3>1, <3>2
      <4> HIDE DEF u, v
      <4>. QED
        BY <4>1
    <3>4. F[i] \in Seq(S)
      BY <3>2, <3>3
    <3>5. j \in T
      BY <3>1, <3>4 DEF i
    <3>. QED
      BY <3>5 DEF j
  <2>5. n - 1 \in Nat /\ n - 1 \in 0..(n - 1) /\ n - 1 + 1 = n
    BY <1>4
  <2> HIDE DEF T
  <2>6. \A k \in 0..(n - 1) : k \in T
    BY <2>3, <2>4, <2>5, Ascent
  <2>. QED
    BY <2>1, <2>5, <2>6 DEF T
<1>. QED
  BY <1>3, <1>4

\* A single entry.
LEMMA OneTold ==
  ASSUME NEW e, NEW T, Told(e, T)
  PROVE  AllTold(<<e>>, T)
<1> DEFINE q == <<e>>
<1>1. q = [k \in 1..1 |-> q[k]] /\ 1 \in Nat /\ \A k \in 1..1 : q[k] = e
  OBVIOUS
<1> HIDE DEF q
<1>2. IsSeq(q) /\ DOMAIN q = 1..1
  BY <1>1, ValuesAreSeq
<1>3. AllTold(q, T)
  BY <1>1, <1>2 DEF AllTold
<1>. QED
  BY <1>3 DEF q

\* An entry that cannot be used says nothing.
LEMMA UnusableTold ==
  ASSUME NEW e, NEW T
  PROVE  AllTold(Unusable(e), T)
<1> DEFINE r == [kind |-> Broken, offset |-> e.offset, length |-> e.length]
<1>1. Unusable(e) = <<r>> /\ r.kind = Broken
  BY DEF Unusable
<1> HIDE DEF r
<1>2. Told(r, T)
  BY <1>1 DEF Told
<1>. QED
  BY <1>1, <1>2, OneTold

\* The entries of a directory that T speaks of.
LEMMA EntriesTold ==
  ASSUME NEW T, NEW dir, NEW y, dir.offset \in Nat, Lined(dir.digest, T, dir.offset, y),
         NEW start, NEW end
  PROVE  AllTold(Entries(dir, start, end), T)
<1>1. CASE ~MetaDecodes(dir.digest, dir.length)
  BY <1>1, UnusableTold DEF Entries
<1>2. CASE MetaDecodes(dir.digest, dir.length)
  <2> DEFINE m == dir.digest
             n == Len(m)
             g == [i \in DOMAIN m |->
                    LET offset == dir.offset + Offsets(m)[i]
                    IN  [kind |-> m[i].kind, path |-> Append(dir.path, offset), offset |-> offset,
                         length |-> m[i].length, digest |-> m[i].digest]]
             W == {i \in DOMAIN m : Overlaps(g[i], start, end)}
             x == dir.offset
  <2>1. Entries(dir, start, end) = Selected(g, W)
    BY <1>2 DEF Entries
  <2>2. IsSeq(m)
    BY DEF Lined
  <2>3. DOMAIN m = 1..n /\ n \in Nat
    BY <2>2 DEF IsSeq
  <2>4. \A i \in 1..n : /\ g[i].kind = m[i].kind /\ g[i].offset = x + Offsets(m)[i]
                        /\ g[i].length = m[i].length /\ g[i].digest = m[i].digest
    BY <2>3
  <2>5. W \in SUBSET (1..n)
    BY <2>3
  <2> HIDE DEF g, n, W
  <2>6. x \in Nat /\ Lined(m, T, x, y)
    OBVIOUS
  <2> HIDE DEF m, x
  <2>7. \A i \in DOMAIN m : <<m[i].kind, x + Offsets(m)[i], m[i].length, m[i].digest>> \in T
    BY <2>6, LinedOffsets
  <2>8. IsFiniteSet(W) /\ W \in SUBSET Nat
    <3>1. IsFiniteSet(1..n) /\ 1..n \subseteq Nat
      BY <2>3, FS_Interval
    <3>. QED
      BY <2>5, <3>1, FS_Subset
  <2> DEFINE q == Selected(g, W)
  <2>9. IsSeq(q) /\ \A i \in DOMAIN q : \E j \in W : q[i] = g[j]
    BY <2>8, SelectedIn, ZenonT(60)
  <2> HIDE DEF q
  <2>10. \A j \in W : Told(g[j], T)
    BY <2>3, <2>4, <2>5, <2>7 DEF Told
  <2>11. AllTold(q, T)
    BY <2>9, <2>10 DEF AllTold
  <2>. QED
    BY <2>1, <2>11 DEF q
<1>. QED
  BY <1>1, <1>2

\* The descent keeps to what T says.
LEMMA DescendTold ==
  ASSUME NEW D, NEW p, NEW T, TrueOf(T, D, p), NEW es, AllTold(es, T), NEW start, NEW end, NEW store
  PROVE  AllTold(Descend(es, start, end, store), T)
<1> DEFINE gs == [i \in DOMAIN es |-> Below(es[i], start, end, store)]
           n == Len(es)
           S == {e \in UNION {ToSet(gs[i]) : i \in 1..n} : Told(e, T)}
<1>1. n \in Nat /\ DOMAIN es = 1..n /\ \A i \in 1..n : Told(es[i], T)
  BY DEF AllTold, IsSeq
<1>2. ASSUME NEW i \in 1..n PROVE AllTold(gs[i], T)
  <2> DEFINE e == es[i]
  <2>1. Told(e, T) /\ gs[i] = Below(e, start, end, store)
    BY <1>1
  <2> HIDE DEF e
  <2>2. CASE e.kind # Dir
    BY <2>1, <2>2, OneTold DEF Below
  <2>3. CASE e.kind = Dir
    <3> DEFINE t == <<e.kind, e.offset, e.length, e.digest>>
    <3>1. t \in T
      BY <2>1, <2>3 DEF Told, Broken, Dir
    <3>2. t[1] = Dir /\ t[2] = e.offset /\ t[3] = e.length /\ t[4] = e.digest
      BY <2>3
    <3> HIDE DEF t
    <3>3. t[2] \in Nat /\ Lined(t[4], T, t[2], t[2] + t[3])
      BY <3>1, <3>2 DEF TrueOf, Shard, Dir
    <3>4. AllTold(Entries(e, start, end), T)
      BY <3>2, <3>3, EntriesTold
    <3>5. AllTold(Unusable(e), T)
      BY UnusableTold
    <3>. QED
      BY <2>1, <2>3, <3>4, <3>5 DEF Below
  <2>. QED
    BY <2>2, <2>3
<1>3. gs = [i \in 1..n |-> gs[i]]
  BY <1>1
<1>4. Descend(es, start, end, store) = FlattenSeq(gs)
  BY DEF Descend
<1> HIDE DEF gs, n
<1>5. ASSUME NEW i \in 1..n PROVE gs[i] \in Seq(S)
  <2> DEFINE q == gs[i]
  <2>1. IsSeq(q) /\ \A k \in DOMAIN q : Told(q[k], T)
    BY <1>2 DEF AllTold
  <2>2. ToSet(q) \subseteq UNION {ToSet(gs[k]) : k \in 1..n}
    OBVIOUS
  <2>3. ToSet(q) = {q[k] : k \in DOMAIN q}
    BY DEF ToSet
  <2>4. ToSet(q) \subseteq S
    BY <2>1, <2>2, <2>3
  <2> HIDE DEF q, S
  <2>5. q \in Seq(S)
    BY <2>1, <2>4 DEF IsSeq
  <2>. QED
    BY <2>5 DEF q
<1>6. \A e \in S : Told(e, T)
  OBVIOUS
<1> HIDE DEF S
<1>7. FlattenSeq(gs) \in Seq(S)
  BY <1>1, <1>3, <1>5, FlattenIn
<1> DEFINE q == FlattenSeq(gs)
<1> HIDE DEF q
<1>8. q \in Seq(S)
  BY <1>7 DEF q
<1>9. IsSeq(q) /\ \A i \in DOMAIN q : q[i] \in S
  <2>1. Len(q) \in Nat /\ q = [k \in 1..Len(q) |-> q[k]]
    BY <1>8
  <2>2. IsSeq(q)
    BY <2>1, ValuesAreSeq
  <2>. QED
    BY <1>8, <2>2
<1>10. AllTold(q, T)
  BY <1>6, <1>9 DEF AllTold
<1>. QED
  BY <1>4, <1>10 DEF q

\* The shards a client descends to, from a top meta that T speaks of.
LEMMA CoveringTold ==
  ASSUME NEW D, NEW p, NEW T, TrueOf(T, D, p), NEW top, NEW y, Lined(top, T, 0, y),
         NEW size, NEW start, NEW end, NEW store
  PROVE  AllTold(CoveringShards(top, size, start, end, store), T)
<1> DEFINE F == CHOOSE f : Covering(f, top, size, start, end, store, MaxDepth)
           W == {d \in 0..MaxDepth : AllTold(F[d], T)}
<1>1. MaxDepth \in Nat
  BY TreeAssumption
<1>2. Covering(F, top, size, start, end, store, MaxDepth)
  BY <1>1, CoveringExists
<1>3. CoveringShards(top, size, start, end, store) = F[MaxDepth]
  BY DEF CoveringShards, Covering
<1> HIDE DEF F
<1>4. \A d \in 0..MaxDepth : F[d] = IF d = 0 THEN Entries(TopDir(top, size), start, end)
                                    ELSE Descend(F[d - 1], start, end, store)
  BY <1>2 DEF Covering
<1>5. 0 \in W
  <2> DEFINE dir == TopDir(top, size)
  <2>1. dir.offset = 0 /\ dir.digest = top
    BY DEF TopDir
  <2> HIDE DEF dir
  <2>2. dir.offset \in Nat /\ Lined(dir.digest, T, dir.offset, y)
    BY <2>1
  <2>3. AllTold(Entries(dir, start, end), T)
    BY <2>2, EntriesTold
  <2>4. 0 \in 0..MaxDepth /\ F[0] = Entries(dir, start, end)
    BY <1>1, <1>4 DEF dir
  <2>. QED
    BY <2>3, <2>4
<1>6. ASSUME NEW k \in 0..MaxDepth, k \in W, k < MaxDepth PROVE k + 1 \in W
  <2> DEFINE j == k + 1
  <2>1. j \in 0..MaxDepth /\ j # 0 /\ j - 1 = k /\ AllTold(F[k], T)
    BY <1>1, <1>6
  <2> HIDE DEF j
  <2>2. F[j] = Descend(F[k], start, end, store)
    BY <1>4, <2>1
  <2>3. AllTold(F[j], T)
    BY <2>1, <2>2, DescendTold
  <2>4. j \in W
    BY <2>1, <2>3
  <2>. QED
    BY <2>4 DEF j
<1> HIDE DEF W
<1>7. \A k \in 0..MaxDepth : k \in W
  BY <1>1, <1>5, <1>6, Ascent
<1>8. MaxDepth \in W
  BY <1>1, <1>7
<1>. QED
  BY <1>3, <1>8 DEF W

\* The search ends at a record.
LEMMA SearchIn ==
  ASSUME NEW s, NEW n \in Nat \ {0}, Len(s) = n, DOMAIN s = 1..n, \A i \in 1..n : s[i].rel \in Int,
         NEW rel \in Int
  PROVE  Search(s, rel) \in 1..n
<1> DEFINE Ends(i) == /\ i = 1 \/ s[i].rel <= rel
                      /\ \A j \in (i + 1)..n : s[j].rel > rel
           L == {i \in 1..n : i = 1 \/ s[i].rel <= rel}
           M == {n - i : i \in L}
<1>1. M \in SUBSET Nat /\ M # {}
  <2>1. 1 \in L
    OBVIOUS
  <2>2. \A i \in L : n - i \in Nat
    OBVIOUS
  <2> HIDE DEF L
  <2>. QED
    BY <2>1, <2>2
<1>2. PICK m \in M : \A k \in M : m <= k
  <2> HIDE DEF M
  <2>. QED
    BY <1>1, LeastNat
<1>3. PICK i \in L : m = n - i
  <2> HIDE DEF L
  <2>. QED
    BY <1>2
<1>4. ASSUME NEW j \in (i + 1)..n PROVE s[j].rel > rel
  <2>1. j \in 1..n /\ n - j < n - i
    OBVIOUS
  <2>2. j \notin L
    <3>1. j \in L => n - j \in M
      OBVIOUS
    <3> HIDE DEF L, M
    <3>. QED
      BY <1>2, <1>3, <2>1, <3>1
  <2>. QED
    BY <2>1, <2>2
<1>5. i \in 1..n /\ Ends(i)
  BY <1>4
<1>6. Search(s, rel) = CHOOSE k \in 1..n : Ends(k)
  BY DEF Search
<1> HIDE DEF Ends
<1>. QED
  BY <1>5, <1>6

\* The leaves of a shard of D are leaves of D.
LEMMA ShardLeavesIn ==
  ASSUME NEW D, NEW p, IsLine(D, p), Formed(D), NEW e, NEW t, ShardOf(D, p, t),
         e.offset = t[2], e.length = t[3], e.digest = t[4], NEW start \in Nat, NEW end
  PROVE  ShardLeavesFor(e, start, end) \in Seq(ToSet(D))
<1> DEFINE N == Len(D)
<1>1. PICK a \in 1..N, b \in 1..N : /\ a <= b /\ e.offset = p[a] /\ e.length = p[b + 1] - p[a]
                                    /\ e.digest = EncodeShard(SubSeq(D, a, b))
  BY DEF ShardOf
<1>2. /\ IsSeq(D) /\ p \in [1..(N + 1) -> Nat] /\ N \in Nat /\ DOMAIN D = 1..N
      /\ \A i \in 1..N : /\ D[i].length \in Nat \ {0} /\ p[i + 1] = p[i] + D[i].length /\ D[i].offset = p[i]
                         /\ D[i] = [offset |-> D[i].offset, length |-> D[i].length, digest |-> D[i].digest]
  BY DEF IsLine, Placed, IsSeq, Formed
<1> DEFINE q == SubSeq(D, a, b)
           m == b - a + 1
           s == e.digest
<1>3. IsSeq(q) /\ Len(q) = m /\ DOMAIN q = 1..m /\ \A i \in 1..m : q[i] = D[a + i - 1]
  <2>1. a \in Nat \ {0} /\ b \in Nat /\ a <= b + 1 /\ b <= Len(D)
    BY <1>1, <1>2
  <2>. QED
    BY <1>2, <2>1, SubSeqIs
<1>4. m \in Nat \ {0}
  BY <1>1, <1>2
<1>5. s = [i \in 1..m |-> [rel |-> q[i].offset - q[1].offset, digest |-> q[i].digest]]
  BY <1>1, <1>3 DEF EncodeShard
<1> HIDE DEF q
<1>6. s = [i \in 1..m |-> s[i]] /\ \A i \in 1..m : s[i].rel = q[i].offset - q[1].offset /\ s[i].digest = q[i].digest
  BY <1>5
<1> HIDE DEF s
<1>7. Len(s) = m /\ DOMAIN s = 1..m
  BY <1>4, <1>6, ValuesAreSeq
<1> DEFINE k(i) == a + i - 1
           leaf == [i \in DOMAIN s |->
                      [offset |-> e.offset + s[i].rel,
                       length |-> (IF i < Len(s) THEN s[i + 1].rel ELSE e.length) - s[i].rel,
                       digest |-> s[i].digest]]
           at == {i \in Search(s, start - e.offset)..Len(s) : leaf[i].offset < end}
<1>8. ShardLeavesFor(e, start, end) = Selected(leaf, at)
  BY DEF ShardLeavesFor, s
<1>9. \A i \in 1..m : leaf[i] = [offset |-> e.offset + s[i].rel,
                                 length |-> (IF i < m THEN s[i + 1].rel ELSE e.length) - s[i].rel,
                                 digest |-> s[i].digest]
  BY <1>7
<1>10. ASSUME NEW i \in 1..m
       PROVE  k(i) \in 1..N /\ s[i].rel = p[k(i)] - p[a] /\ s[i].digest = D[k(i)].digest
  <2>1. k(i) \in 1..N /\ 1 \in 1..m /\ a + 1 - 1 = a
    BY <1>1, <1>2
  <2>2. q[i] = D[k(i)] /\ q[1] = D[a]
    BY <1>3, <2>1
  <2>3. D[k(i)].offset = p[k(i)] /\ D[a].offset = p[a]
    BY <1>1, <1>2, <2>1
  <2>. QED
    BY <1>6, <2>1, <2>2, <2>3
<1>11. ASSUME NEW i \in 1..m PROVE leaf[i] = D[k(i)]
  <2> DEFINE x == k(i)
  <2>1. x \in 1..N /\ s[i].rel = p[x] - p[a] /\ s[i].digest = D[x].digest
    BY <1>10
  <2>2. /\ p[x] \in Nat /\ p[a] \in Nat /\ p[x + 1] \in Nat /\ p[x + 1] = p[x] + D[x].length
        /\ D[x].length \in Nat /\ D[x].offset = p[x]
        /\ D[x] = [offset |-> D[x].offset, length |-> D[x].length, digest |-> D[x].digest]
    <3>1. x \in 1..(N + 1) /\ x + 1 \in 1..(N + 1) /\ a \in 1..(N + 1)
      <4>1. N \in Nat /\ x \in 1..N /\ a \in 1..N
        BY <1>2, <2>1
      <4> HIDE DEF x, N
      <4>. QED
        BY ONLY <4>1
    <3>. QED
      BY <1>2, <2>1, <3>1
  <2>3. (IF i < m THEN s[i + 1].rel ELSE e.length) = p[x + 1] - p[a]
    <3>1. CASE i < m
      <4> DEFINE j == i + 1
      <4>1. j \in 1..m /\ k(j) = x + 1
        BY <1>4, <3>1
      <4> HIDE DEF j
      <4>2. s[j].rel = p[k(j)] - p[a]
        BY <1>10, <4>1
      <4> HIDE DEF x
      <4>3. s[j].rel = p[x + 1] - p[a]
        BY <4>1, <4>2
      <4>. QED
        BY <3>1, <4>3 DEF j
    <3>2. CASE ~(i < m)
      <4>1. x = b
        BY <1>1, <1>2, <3>2
      <4>. QED
        BY <1>1, <3>2, <4>1
    <3>. QED
      BY <3>1, <3>2
  <2> DEFINE z == IF i < m THEN s[i + 1].rel ELSE e.length
             rel == s[i].rel
  <2>4. leaf[i] = [offset |-> e.offset + rel, length |-> z - rel, digest |-> s[i].digest]
    BY <1>9
  <2>5. z = p[x + 1] - p[a] /\ rel = p[x] - p[a]
    BY <2>1, <2>3
  <2> HIDE DEF x, z, rel, leaf
  <2>6. e.offset + rel = D[x].offset /\ z - rel = D[x].length
    BY <1>1, <2>2, <2>5, SMTT(30)
  <2>7. leaf[i] = D[x]
    BY <2>1, <2>2, <2>4, <2>6
  <2>. QED
    BY <2>7 DEF x
<1> HIDE DEF leaf
<1>12. at \in SUBSET (1..m)
  <2> DEFINE rel == start - e.offset
  <2>1. e.offset \in Nat
    BY <1>2, <1>1
  <2>2. rel \in Int
    BY <2>1
  <2>3. \A i \in 1..m : s[i].rel \in Int
    <3> SUFFICES ASSUME NEW i \in 1..m PROVE s[i].rel \in Int
      OBVIOUS
    <3> DEFINE x == k(i)
    <3>1. x \in 1..(N + 1) /\ a \in 1..(N + 1) /\ s[i].rel = p[x] - p[a]
      BY <1>2, <1>10
    <3> HIDE DEF x
    <3>2. p[x] \in Nat /\ p[a] \in Nat
      BY <1>2, <3>1
    <3>. QED
      BY <3>1, <3>2
  <2> HIDE DEF rel, m
  <2>4. Search(s, rel) \in 1..m
    BY <1>4, <1>7, <2>2, <2>3, SearchIn
  <2>5. Search(s, rel)..Len(s) \subseteq 1..m
    BY <1>4, <1>7, <2>4
  <2>. QED
    BY <2>5 DEF rel
<1> HIDE DEF at, k
<1>13. IsFiniteSet(at) /\ at \in SUBSET Nat
  <2>1. IsFiniteSet(1..m) /\ 1..m \subseteq Nat
    BY <1>4, FS_Interval
  <2>. QED
    BY <1>12, <2>1, FS_Subset
<1> DEFINE r == Selected(leaf, at)
<1>14. IsSeq(r) /\ \A i \in DOMAIN r : \E j \in at : r[i] = leaf[j]
  BY ONLY <1>13, SelectedIn
<1> HIDE DEF r
<1>15. \A i \in DOMAIN r : r[i] \in ToSet(D)
  <2> SUFFICES ASSUME NEW i \in DOMAIN r PROVE r[i] \in ToSet(D)
    OBVIOUS
  <2>1. PICK j \in at : r[i] = leaf[j]
    BY <1>14
  <2>2. j \in 1..m /\ k(j) \in 1..N /\ leaf[j] = D[k(j)]
    BY <1>10, <1>11, <1>12
  <2>. QED
    BY <1>2, <2>1, <2>2 DEF ToSet
<1>16. ToSet(r) \subseteq ToSet(D)
  BY <1>15 DEF ToSet
<1>17. r \in Seq(ToSet(D))
  BY <1>14, <1>16 DEF IsSeq
<1>. QED
  BY <1>8, <1>17 DEF r

\* The leaves a client is given are leaves of D.
LEMMA LeavesIn ==
  ASSUME NEW D, NEW p, IsLine(D, p), Formed(D), NEW T, TrueOf(T, D, p),
         NEW top, NEW y, Lined(top, T, 0, y), NEW size, NEW start \in Nat, NEW end, NEW store,
         LeavesFor(top, size, start, end, store).ok
  PROVE  LeavesFor(top, size, start, end, store).leaves \in Seq(ToSet(D))
<1> DEFINE shards == CoveringShards(top, size, start, end, store)
           gs == [i \in DOMAIN shards |-> ShardLeavesFor(shards[i], start, end)]
           n == Len(shards)
<1>1. /\ \A i \in DOMAIN shards : GoodShard(shards[i], store)
      /\ LeavesFor(top, size, start, end, store).leaves = FlattenSeq(gs)
  BY DEF LeavesFor
<1>2. AllTold(shards, T)
  BY CoveringTold
<1> HIDE DEF shards
<1>3. n \in Nat /\ DOMAIN shards = 1..n /\ \A i \in 1..n : Told(shards[i], T)
  BY <1>2 DEF AllTold, IsSeq
<1>4. gs = [i \in 1..n |-> gs[i]] /\ \A i \in 1..n : gs[i] = ShardLeavesFor(shards[i], start, end)
  BY <1>3
<1> HIDE DEF n, gs
<1>5. ASSUME NEW i \in 1..n PROVE gs[i] \in Seq(ToSet(D))
  <2> DEFINE e == shards[i]
             t == <<e.kind, e.offset, e.length, e.digest>>
  <2>1. e.kind = Shard /\ Told(e, T)
    BY <1>1, <1>3 DEF GoodShard
  <2>2. t \in T
    BY <2>1 DEF Told, Shard, Broken
  <2>3. t[1] = Shard /\ e.offset = t[2] /\ e.length = t[3] /\ e.digest = t[4]
    BY <2>1
  <2> HIDE DEF t
  <2>4. ShardOf(D, p, t)
    BY <2>2, <2>3 DEF TrueOf, Shard, Dir
  <2>5. ShardLeavesFor(e, start, end) \in Seq(ToSet(D))
    <3> HIDE DEF e
    <3>. QED
      BY <2>3, <2>4, ShardLeavesIn
  <2>. QED
    BY <1>4, <2>5
<1>6. FlattenSeq(gs) \in Seq(ToSet(D))
  BY <1>3, <1>4, <1>5, FlattenIn
<1>. QED
  BY <1>1, <1>6

\* The places of D increase.
LEMMA LineAscends ==
  ASSUME NEW D, NEW p, IsLine(D, p)
  PROVE  Ascends(p, Len(D) + 1)
<1> DEFINE n == Len(D)
<1>1. /\ p \in [1..(n + 1) -> Nat] /\ n \in Nat
      /\ \A i \in 1..n : D[i].length \in Nat \ {0} /\ p[i + 1] = p[i] + D[i].length
  BY DEF IsLine, Placed, IsSeq
<1> HIDE DEF n
<1>2. ASSUME NEW i \in 2..(n + 1) PROVE p[i - 1] < p[i]
  <2> DEFINE j == i - 1
  <2>1. j \in 1..n /\ j \in 1..(n + 1) /\ j + 1 = i
    BY <1>1
  <2> HIDE DEF j
  <2>2. p[j + 1] = p[j] + D[j].length /\ D[j].length \in Nat \ {0} /\ p[j] \in Nat
    BY <1>1, <2>1
  <2>3. p[j] < p[i]
    BY <2>1, <2>2
  <2>. QED
    BY <2>3 DEF j
<1>3. n + 1 \in Nat
  BY <1>1
<1>4. Ascends(p, n + 1)
  BY <1>1, <1>2, <1>3, StepsAscend
<1>. QED
  BY <1>4 DEF n

\* Leaves of D that cover a range, and overlap it, are those D has there.
LEMMA LeavesAreWanted ==
  ASSUME NEW D, NEW p, IsLine(D, p), p[1] = 0, NEW start \in Nat, NEW end \in Nat, start < end,
         NEW size, size = p[Len(D) + 1], end <= size,
         NEW r, r \in Seq(ToSet(D)), Covers(r, 0, size, start, end)
  PROVE  r = Selected(D, {i \in DOMAIN D : Overlaps(D[i], start, end)})
<1> DEFINE n == Len(D)
           W == {i \in DOMAIN D : Overlaps(D[i], start, end)}
           m == Len(r)
<1>1. /\ p \in [1..(n + 1) -> Nat] /\ n \in Nat \ {0} /\ DOMAIN D = 1..n /\ size = p[n + 1] /\ size \in Nat
      /\ \A i \in 1..n : D[i].length \in Nat \ {0} /\ p[i + 1] = p[i] + D[i].length /\ D[i].offset = p[i]
  <2>1. p \in [1..(n + 1) -> Nat] /\ n \in Nat \ {0}
    BY DEF IsLine, Placed, IsSeq
  <2>2. n + 1 \in 1..(n + 1)
    BY <2>1
  <2>. QED
    BY <2>1, <2>2 DEF IsLine, Placed, IsSeq
<1>2. Ascends(p, n + 1)
  BY LineAscends
<1>3. /\ m \in Nat \ {0} /\ DOMAIN r = 1..m
      /\ \A i \in 1..m : r[i].offset < end /\ End(r[i]) > start
  BY CoversParts
<1>4. /\ \A i \in 2..m : r[i].offset = End(r[i - 1])
      /\ r[1].offset = 0 \/ r[1].offset <= start
      /\ End(r[m]) = size \/ End(r[m]) >= end
  BY <1>3 DEF Covers
<1>5. r = [k \in 1..m |-> r[k]] /\ \A i \in 1..m : r[i] \in ToSet(D)
  BY <1>3
<1> HIDE DEF n, m
<1>6. ASSUME NEW i \in 1..n
      PROVE  /\ p[i] \in Nat /\ p[i + 1] \in Nat /\ p[i] < p[i + 1] /\ End(D[i]) = p[i + 1]
             /\ Overlaps(D[i], start, end) <=> p[i + 1] > start /\ p[i] < end
  <2>1. i \in 1..(n + 1) /\ i + 1 \in 1..(n + 1)
    BY <1>1
  <2>2. p[i] \in Nat /\ p[i + 1] \in Nat /\ p[i + 1] = p[i] + D[i].length /\ D[i].length \in Nat \ {0}
        /\ D[i].offset = p[i]
    BY <1>1, <2>1
  <2>3. End(D[i]) = p[i + 1]
    BY <2>2 DEF End
  <2>. QED
    BY <2>2, <2>3 DEF Overlaps
<1>7. W = {i \in 1..n : p[i + 1] > start /\ p[i] < end}
  BY <1>1, <1>6
<1>8. PICK lo \in 1..n, hi \in 1..n :
        /\ lo <= hi
        /\ {i \in 1..n : p[i + 1] > start /\ p[i] < end} = lo..hi
        /\ lo = 1 \/ p[lo] <= start
        /\ hi = n \/ p[hi + 1] >= end
  <2>1. p[n + 1] > start /\ p[1] < end
    BY <1>1
  <2>2. n \in Nat \ {0} /\ p \in [1..(n + 1) -> Nat] /\ Ascends(p, n + 1)
    BY <1>1, <1>2 DEF n
  <2>3. start \in Nat /\ end \in Nat /\ start < end
    OBVIOUS
  <2>. QED
    <3>1. Windowed(p, n, start, end)
      BY <2>1, <2>2, <2>3, Window
    <3>. QED
      BY <3>1 DEF Windowed
<1> HIDE DEF W
<1>9. W = lo..hi /\ lo \in Nat /\ hi \in Nat /\ lo <= hi
  BY <1>1, <1>7, <1>8
<1> DEFINE at(i) == CHOOSE j \in 1..n : r[i] = D[j]
<1>10. ASSUME NEW i \in 1..m
       PROVE  at(i) \in lo..hi /\ at(i) \in 1..n /\ r[i] = D[at(i)]
  <2>1. \E j \in 1..n : r[i] = D[j]
    BY <1>1, <1>5 DEF ToSet
  <2>2. at(i) \in 1..n /\ r[i] = D[at(i)]
    BY <2>1
  <2> DEFINE x == at(i)
  <2> HIDE DEF at
  <2>3. x \in 1..n /\ D[x].offset < end /\ End(D[x]) > start
    BY <1>3, <2>2
  <2>4. p[x + 1] > start /\ p[x] < end
    BY <1>1, <1>6, <2>3
  <2>5. x \in lo..hi
    BY <1>8, <2>3, <2>4
  <2>. QED
    BY <2>2, <2>5
<1> HIDE DEF at
<1>11. ASSUME NEW x \in 1..n, NEW y \in 1..n, p[y] = p[x + 1] PROVE y = x + 1
  BY <1>1, <1>2, <1>11 DEF Ascends
<1>12. ASSUME NEW i \in 1..m, i < m PROVE at(i + 1) = at(i) + 1
  <2> DEFINE j == i + 1
             x == at(i)
             y == at(j)
  <2>1. j \in 2..m /\ j \in 1..m /\ j - 1 = i
    BY <1>3, <1>12
  <2> HIDE DEF j
  <2>2. r[j].offset = End(r[i])
    BY <1>4, <2>1
  <2>3. x \in 1..n /\ y \in 1..n /\ r[i] = D[x] /\ r[j] = D[y]
    BY <1>10, <2>1
  <2> HIDE DEF x, y
  <2>4. p[y] = p[x + 1]
    BY <1>1, <1>6, <2>2, <2>3
  <2>5. y = x + 1
    BY <1>11, <2>3, <2>4
  <2>. QED
    BY <2>5 DEF x, y, j
<1>13. at(1) = lo
  <2> DEFINE x == at(1)
  <2>1. x \in lo..hi /\ x \in 1..n /\ r[1] = D[x]
    BY <1>3, <1>10
  <2> HIDE DEF x
  <2>2. p[x] = 0 \/ p[x] <= start
    BY <1>1, <1>4, <2>1
  <2>3. ASSUME x # lo PROVE FALSE
    <3>1. lo + 1 \in 1..(n + 1) /\ x \in 1..(n + 1) /\ (lo + 1 = x \/ lo + 1 < x) /\ lo \in lo..hi
      BY <1>1, <1>8, <1>9, <2>1, <2>3
    <3>2. p[lo + 1] = p[x] \/ p[lo + 1] < p[x]
      BY <1>2, <3>1 DEF Ascends
    <3>3. p[lo + 1] > start /\ p[lo + 1] \in Nat /\ p[x] \in Nat
      BY <1>1, <1>8, <3>1
    <3>. QED
      BY <2>2, <3>2, <3>3
  <2>. QED
    BY <2>3 DEF x
<1>14. at(m) = hi
  <2> DEFINE x == at(m)
  <2>1. x \in lo..hi /\ x \in 1..n /\ r[m] = D[x]
    BY <1>3, <1>10
  <2> HIDE DEF x
  <2>2. p[x + 1] = size \/ p[x + 1] >= end
    BY <1>4, <1>6, <2>1
  <2>3. ASSUME x # hi PROVE FALSE
    <3>1. x + 1 \in 1..(n + 1) /\ hi \in 1..(n + 1) /\ (x + 1 = hi \/ x + 1 < hi) /\ hi \in lo..hi
          /\ hi < n + 1 /\ n + 1 \in 1..(n + 1)
      BY <1>1, <1>8, <1>9, <2>1, <2>3
    <3>2. p[x + 1] = p[hi] \/ p[x + 1] < p[hi]
      BY <1>2, <3>1 DEF Ascends
    <3>3. p[hi] < end /\ p[hi] \in Nat /\ p[x + 1] \in Nat /\ p[hi] < p[n + 1]
      BY <1>2, <3>1, <1>1, <1>8 DEF Ascends
    <3>. QED
      BY <1>1, <2>2, <3>2, <3>3
  <2>. QED
    BY <2>3 DEF x
<1> DEFINE T == {i \in 0..(m - 1) : at(i + 1) = lo + i}
<1>15. 0 \in T
  BY <1>3, <1>9, <1>13
<1>16. ASSUME NEW k \in 0..(m - 1), k \in T, k < m - 1 PROVE k + 1 \in T
  <2> DEFINE j == k + 1
  <2>1. j \in 1..m /\ j < m /\ j \in 0..(m - 1) /\ at(j) = lo + k /\ lo + k + 1 = lo + j
    BY <1>3, <1>9, <1>16
  <2> HIDE DEF j
  <2>2. at(j + 1) = at(j) + 1
    BY <1>12, <2>1
  <2>3. at(j + 1) = lo + j
    BY <2>1, <2>2
  <2>4. j \in T
    BY <2>1, <2>3
  <2>. QED
    BY <2>4 DEF j
<1> HIDE DEF T
<1>17. m - 1 \in Nat
  BY <1>3
<1>18. \A k \in 0..(m - 1) : k \in T
  BY <1>15, <1>16, <1>17, Ascent
<1>19. ASSUME NEW i \in 1..m PROVE at(i) = lo + i - 1
  <2> DEFINE j == i - 1
  <2>1. j \in 0..(m - 1) /\ j + 1 = i /\ lo + j = lo + i - 1
    BY <1>3, <1>9
  <2> HIDE DEF j
  <2>2. at(j + 1) = lo + j
    BY <1>18, <2>1 DEF T
  <2>. QED
    BY <2>1, <2>2
<1>20. m = hi - lo + 1
  BY <1>3, <1>14, <1>19, <1>9
<1> DEFINE s == Selected(D, lo..hi)
<1>21. /\ IsSeq(s) /\ Len(s) = hi - lo + 1
       /\ \A k \in 1..(hi - lo + 1) : s[k] = D[lo + k - 1]
  <2>1. lo \in Nat /\ hi \in Nat /\ lo <= hi
    BY <1>9
  <2>2. IsSeq(Selected(D, lo..hi))
    BY ONLY <2>1, SelectedBetween
  <2>3. Len(Selected(D, lo..hi)) = hi - lo + 1
    BY ONLY <2>1, SelectedBetween
  <2>4. \A k \in 1..(hi - lo + 1) : Selected(D, lo..hi)[k] = D[lo + k - 1]
    BY ONLY <2>1, SelectedBetween
  <2>. QED
    BY <2>2, <2>3, <2>4
<1> HIDE DEF s
<1>22. s = [k \in 1..m |-> s[k]] /\ \A k \in 1..m : s[k] = D[lo + k - 1]
  BY <1>20, <1>21 DEF IsSeq
<1>23. \A k \in 1..m : r[k] = s[k]
  BY <1>10, <1>19, <1>22
<1>24. r = s
  BY <1>5, <1>22, <1>23
<1>. QED
  BY <1>9, <1>24 DEF s, W

\* A read of what pack made.
LEMMA ReadWanted ==
  ASSUME NEW pack, NEW p, IsLine(pack.leaves, p), Formed(pack.leaves), p[1] = 0,
         Says(pack.anchor[3], pack.leaves, p, p[Len(pack.leaves) + 1]), DecodesDescriptor(pack.anchor),
         NEW start \in 0..(pack.anchor[2] - 1), NEW end \in (start + 1)..pack.anchor[2], NEW store,
         LeavesFor(pack.anchor[3], pack.anchor[2], start, end, store).ok
  PROVE  LeavesFor(pack.anchor[3], pack.anchor[2], start, end, store).leaves = Wanted(pack, start, end)
<1> DEFINE D == pack.leaves
           top == pack.anchor[3]
           size == pack.anchor[2]
           y == p[Len(D) + 1]
           r == LeavesFor(top, size, start, end, store).leaves
<1>1. PICK T : TrueOf(T, D, p) /\ Lined(top, T, 0, y)
  BY DEF Says
<1>2. size = y /\ y \in Nat
  <2>1. SpanOf(top) = size
    BY DEF DecodesDescriptor, MetaDecodes
  <2> HIDE DEF top, y, size
  <2>2. 0 \in Nat /\ SpanOf(top) = y - 0 /\ y \in Nat
    BY <1>1, LinedOffsets
  <2>. QED
    BY <2>1, <2>2
<1>3. start \in Nat /\ end \in Nat /\ start < end /\ end <= size /\ size \in Nat
  BY <1>2
<1>4. LeavesFor(top, size, start, end, store).ok
  OBVIOUS
<1>5. IsLine(D, p) /\ Formed(D) /\ p[1] = 0
  OBVIOUS
<1>6. Wanted(pack, start, end) = Selected(D, {i \in DOMAIN D : Overlaps(D[i], start, end)})
  BY DEF Wanted
<1> HIDE DEF D, top, size, y
<1>7. r \in Seq(ToSet(D))
  BY <1>1, <1>3, <1>4, <1>5, LeavesIn
<1>8. Covers(r, 0, size, start, end)
  BY <1>3, <1>4, LeavesCover
<1>9. size = p[Len(D) + 1]
  BY <1>2 DEF y
<1> HIDE DEF r
<1>10. r = Selected(D, {i \in DOMAIN D : Overlaps(D[i], start, end)})
  BY <1>3, <1>5, <1>7, <1>8, <1>9, LeavesAreWanted
<1>. QED
  BY <1>6, <1>10 DEF r, top, size

-----------------------------------------------------------------------------
(***************************************************************************)
(* The cuts of every profile are a line of leaves from 0, cut into bands.  *)
(***************************************************************************)
\* The leaves between cut points lie in a line.
LEMMA BetweenIsLine ==
  ASSUME NEW S \in SUBSET Nat, IsFiniteSet(S), 0 \in S, NEW x \in S, x # 0, \A y \in S : y <= x
  PROVE  CutsLine(S, x)
<1> DEFINE n == Cardinality(S)
           p == Ascending(S)
           s == LeavesBetween(S)
           m == n - 1
<1>1. /\ n \in Nat /\ p \in [1..n -> Nat] /\ Len(p) = n /\ Ascends(p, n)
      /\ \A y \in S : \E k \in 1..n : p[k] = y
      /\ \A k \in 1..n : p[k] \in S
  BY AscendingIs
<1>2. s = [i \in 1..(Len(p) - 1) |-> [offset |-> p[i], length |-> p[i + 1] - p[i]]]
  BY DEF LeavesBetween
<1> HIDE DEF n, p, s
<1>3. PICK k \in 1..n : p[k] = 0
  BY <1>1
<1>4. PICK l \in 1..n : p[l] = x
  BY <1>1
<1>5. k = 1 /\ n > 1
  BY <1>3, <1>4, <1>1 DEF Ascends
<1>6. m \in Nat \ {0} /\ Len(p) - 1 = m /\ m + 1 = n
  BY <1>1, <1>5
<1> HIDE DEF m
<1>7. s = [i \in 1..m |-> s[i]]
  BY <1>2, <1>6
<1>8. IsSeq(s) /\ Len(s) = m
  BY <1>6, <1>7, ValuesAreSeq
<1>9. ASSUME NEW i \in 1..m
      PROVE  s[i].offset = p[i] /\ s[i].length \in Nat \ {0} /\ p[i + 1] = p[i] + s[i].length
  <2>1. i \in 1..n /\ i + 1 \in 1..n /\ i < i + 1
    BY <1>1, <1>6
  <2> DEFINE j == i + 1
  <2>2. p[i] \in Nat /\ p[j] \in Nat /\ p[i] < p[j]
    BY <1>1, <2>1 DEF Ascends
  <2>3. s[i] = [offset |-> p[i], length |-> p[j] - p[i]]
    BY <1>2, <1>6
  <2> HIDE DEF j
  <2>4. s[i].offset = p[i] /\ s[i].length = p[j] - p[i]
    BY <2>3
  <2>5. s[i].length \in Nat \ {0} /\ p[j] = p[i] + s[i].length
    BY <2>2, <2>4
  <2>. QED
    BY <2>4, <2>5 DEF j
<1>10. p \in [1..(Len(s) + 1) -> Nat]
  BY <1>1, <1>6, <1>8
<1>11. Placed(s, p)
  BY <1>8, <1>9, <1>10 DEF Placed
<1>12. IsLine(s, p) /\ p[1] = 0
  BY <1>3, <1>5, <1>6, <1>8, <1>9, <1>11 DEF IsLine
<1>13. p[n] = x
  BY <1>1, <1>5, <1>4 DEF Ascends
<1>14. Len(s) + 1 = n
  BY <1>6, <1>8
<1>. QED
  BY <1>12, <1>13, <1>14 DEF s, p, CutsLine, LineTo

\* A file that is one band.
LEMMA OneBand ==
  ASSUME NEW s, IsSeq(s), Len(s) # 0
  PROVE  \E c, g : CutInto(<<s>>, s, c, g)
<1> DEFINE n == Len(s)
           g == [k \in 1..1 |-> <<1, n>>]
           parts == <<s>>
<1>1. n \in Nat \ {0}
  BY DEF IsSeq
<1>2. SubSeq(s, 1, n) = s
  BY WholeSub
<1>3. DOMAIN g = 1..1 /\ \A k \in 1..1 : g[k] = <<1, n>> /\ k = 1
  OBVIOUS
<1>4. parts = [k \in 1..1 |-> parts[k]] /\ parts[1] = s
  OBVIOUS
<1>5. IsSeq(parts) /\ Len(parts) = 1
  BY <1>4, ValuesAreSeq
<1> HIDE DEF n, g, parts
<1>6. ASSUME NEW k \in 1..1 PROVE g[k][1] = 1 /\ g[k][2] = n /\ k = 1
  BY <1>3
<1>7. Runs(g, 1, 1, n)
  BY <1>1, <1>3, <1>6 DEF Runs
<1>8. \A k \in 1..1 : parts[k] = SubSeq(s, g[k][1], g[k][2])
  BY <1>2, <1>3, <1>4, <1>6
<1>9. CutInto(parts, s, 1, g)
  BY <1>5, <1>7, <1>8 DEF CutInto, n
<1>. QED
  BY <1>9 DEF parts

\* A PMTiles file's bands.
LEMMA PmtilesCut ==
  ASSUME NEW f, NEW leaves, IsSeq(leaves), Len(leaves) # 0, NEW groups
  PROVE  \E c, g : CutInto(PmtilesBands(f, leaves, groups), leaves, c, g)
<1> DEFINE zoom == [i \in DOMAIN leaves |-> LeafZoom(f, leaves[i], groups)]
           S == {i \in DOMAIN leaves : i = 1 \/ zoom[i] # zoom[i - 1]}
           n == Len(leaves)
           p == Ascending(S)
           c == Cardinality(S)
<1>1. n \in Nat \ {0} /\ DOMAIN leaves = 1..n
  BY DEF IsSeq
<1>2. PmtilesBands(f, leaves, groups) = SplitAt(leaves, p)
  BY DEF PmtilesBands
<1>3. 1 \in S /\ \A i \in S : i \in 1..n
  BY <1>1
<1> HIDE DEF S, n
<1>4. IsFiniteSet(1..n) /\ S \subseteq 1..n
  BY <1>1, <1>3, FS_Interval
<1>5. IsFiniteSet(S) /\ S \in SUBSET Nat
  <2>1. S \in SUBSET (1..n) /\ S \in SUBSET Nat
    BY <1>1, <1>4
  <2>. QED
    BY <1>4, <2>1, FS_Subset
<1>6. /\ c \in Nat /\ Len(p) = c /\ DOMAIN p = 1..c
      /\ \A k \in 1..c : p[k] \in S
  BY <1>5, AscendingIs
<1>7. Ascends(p, c)
  BY <1>5, AscendingIs
<1>8. \A y \in S : \E k \in 1..c : p[k] = y
  BY <1>5, AscendingIs
<1> HIDE DEF p, c
<1>9. PICK k \in 1..c : p[k] = 1
  BY <1>3, <1>8
<1>10. c # 0 /\ p[1] = 1
  BY <1>6, <1>3, <1>7, <1>1, <1>9 DEF Ascends
<1>11. ASSUME NEW i \in 1..c, i < c PROVE p[i] < p[i + 1]
  BY <1>6, <1>11, <1>7 DEF Ascends
<1>12. Begins(p, c, n)
  BY <1>3, <1>6, <1>10, <1>11 DEF Begins
<1>13. \E g : CutInto(SplitAt(leaves, p), leaves, c, g)
  BY <1>12, SplitIs DEF n
<1>. QED
  BY <1>2, <1>13

\* The fixed profile.
LEMMA Fixed ==
  ASSUME NEW f, f.length \in Nat \ {0}, NEW opts, opts.chunk \in Nat \cup {Unset}, OptionsApply(f, opts)
  PROVE  \E p : LineTo(FixedLeaves(f, opts), p, f.length)
<1> DEFINE chunk == IF opts.chunk = Unset THEN DefaultChunk ELSE opts.chunk
           q == (f.length - 1) \div chunk
           A == {k * chunk : k \in 0..q}
           S == A \cup {f.length}
<1>1. chunk \in Nat \ {0}
  BY CutsAssumption DEF OptionsApply, Unset
<1>2. FixedLeaves(f, opts) = LeavesBetween(S)
  BY DEF FixedLeaves
<1> HIDE DEF chunk
<1>3. q \in Nat /\ q * chunk < f.length /\ \A k \in 0..q : k * chunk <= q * chunk
  <2> DEFINE n == f.length - 1
  <2>1. n \in Nat
    OBVIOUS
  <2> HIDE DEF n
  <2>2. n \div chunk \in Nat /\ n % chunk \in 0..(chunk - 1) /\ n = chunk * (n \div chunk) + (n % chunk)
    BY ONLY <1>1, <2>1, DivisionIs
  <2>3. q = n \div chunk
    BY DEF n
  <2> HIDE DEF q
  <2>4. chunk * q <= n
    BY ONLY <1>1, <2>1, <2>2, <2>3
  <2>5. chunk * q = q * chunk /\ q \in Nat
    BY ONLY <1>1, <2>2, <2>3
  <2>6. ASSUME NEW k \in 0..q PROVE k * chunk <= q * chunk
    <3> DEFINE d == q - k
    <3>1. d \in Nat /\ k \in Nat /\ q = k + d
      BY <2>5
    <3> HIDE DEF d
    <3>2. q * chunk = k * chunk + d * chunk /\ k * chunk \in Nat /\ d * chunk \in Nat
      BY ONLY <1>1, <3>1
    <3>. QED
      BY ONLY <3>2
  <2>7. q * chunk < f.length
    <3>1. n = f.length - 1 /\ f.length \in Nat
      BY DEF n
    <3>2. q * chunk \in Nat
      BY ONLY <1>1, <2>5
    <3> DEFINE m == q * chunk
               l == f.length
    <3>3. m \in Nat /\ m <= n /\ n = l - 1 /\ l \in Nat
      BY <2>4, <2>5, <3>1, <3>2
    <3> HIDE DEF m, l
    <3>4. m < l
      BY ONLY <3>3
    <3>. QED
      BY <3>4 DEF m, l
  <2>. QED
    BY <2>5, <2>6, <2>7
<1> HIDE DEF q
<1>4. \A k \in 0..q : k * chunk \in Nat
  BY <1>1, <1>3
<1>5. 0 \in A
  BY <1>1, <1>3
<1>6. IsFiniteSet(A)
  <2> DEFINE h == [k \in 0..q |-> k * chunk]
             I == 0..q
             B == {h[k] : k \in I}
  <2>1. A = B
    OBVIOUS
  <2>2. IsFiniteSet(I)
    BY <1>3, FS_Interval
  <2>3. IsFiniteSet(B)
    <3> HIDE DEF I, h
    <3>. QED
      BY <2>2, ImageFinite
  <2>. QED
    BY <2>1, <2>3
<1>7. A \in SUBSET Nat
  BY <1>4
<1>11. \A y \in A : y <= f.length
  BY <1>3, <1>4
<1> HIDE DEF A
<1>8. /\ S \in SUBSET Nat /\ 0 \in S /\ f.length \in S /\ f.length # 0
      /\ \A y \in S : y <= f.length
  <2> DEFINE l == f.length
  <2>1. l \in Nat /\ l # 0 /\ S = A \cup {l} /\ \A y \in A : y <= l
    BY <1>11
  <2> HIDE DEF l, S
  <2>2. S \in SUBSET Nat /\ 0 \in S /\ l \in S
    BY <1>5, <1>7, <2>1
  <2>3. \A y \in S : y <= l
    BY <2>1
  <2>. QED
    BY <2>1, <2>2, <2>3 DEF l
<1>9. IsFiniteSet(S)
  BY <1>6, FS_AddElement
<1> HIDE DEF S
<1>10. CutsLine(S, f.length)
  BY <1>8, <1>9, BetweenIsLine
<1>. QED
  BY <1>2, <1>10 DEF CutsLine

\* No box chains from 0 to 0.
LEMMA NothingChained == Chained(<<>>, 0)
<1> DEFINE p == [i \in 1..1 |-> 0]
<1>1. p \in [1..(0 + 1) -> Nat] /\ p[1] = 0
  OBVIOUS
<1> HIDE DEF p
<1>2. Len(<<>>) = 0
  OBVIOUS
<1>. QED
  BY <1>1, <1>2 DEF Chained

\* One more box in the chain.
LEMMA ChainedMore ==
  ASSUME NEW B, NEW boxes \in Seq(B), NEW at \in Nat, Chained(boxes, at), NEW box \in B,
         box.offset = at, box.length \in Nat \ {0}
  PROVE  Chained(Append(boxes, box), at + box.length)
<1> DEFINE n == Len(boxes)
           more == Append(boxes, box)
           to == at + box.length
<1>1. PICK p \in [1..(n + 1) -> Nat] :
         /\ p[1] = 0 /\ p[n + 1] = at
         /\ \A i \in 1..n : /\ boxes[i].offset = p[i] /\ boxes[i].length \in Nat \ {0}
                          /\ p[i + 1] = p[i] + boxes[i].length
  BY DEF Chained
<1>2. n \in Nat /\ Len(more) = n + 1 /\ more[n + 1] = box /\ \A i \in 1..n : more[i] = boxes[i]
  OBVIOUS
<1> HIDE DEF n, more
<1> DEFINE m == n + 1
           q == [i \in 1..(m + 1) |-> IF i = m + 1 THEN to ELSE p[i]]
<1>3. m \in Nat \ {0} /\ to \in Nat
  BY <1>2
<1>4. /\ q \in [1..(m + 1) -> Nat] /\ q[m + 1] = to /\ \A i \in 1..m : q[i] = p[i]
  BY <1>1, <1>2, <1>3
<1> HIDE DEF q, to
<1>5. q[1] = 0
  BY <1>1, <1>3, <1>4
<1>6. ASSUME NEW i \in 1..m
      PROVE  more[i].offset = q[i] /\ more[i].length \in Nat \ {0} /\ q[i + 1] = q[i] + more[i].length
  <2>1. CASE i = m
    BY <1>1, <1>3, <1>4, <1>2, <2>1 DEF to
  <2>2. CASE i # m
    <3>1. i \in 1..n /\ i + 1 \in 1..m
      BY <1>2, <2>2
    <3>2. more[i] = boxes[i] /\ q[i] = p[i] /\ q[i + 1] = p[i + 1]
      BY <1>2, <1>4, <3>1
    <3>. QED
      BY <1>1, <3>1, <3>2
  <2>. QED
    BY <2>1, <2>2
<1>7. Len(more) = m
  BY <1>2
<1>8. Chained(more, to)
  <2> HIDE DEF m
  <2>1. \E r \in [1..(m + 1) -> Nat] :
           /\ r[1] = 0 /\ r[m + 1] = to
           /\ \A i \in 1..m : /\ more[i].offset = r[i] /\ more[i].length \in Nat \ {0}
                            /\ r[i + 1] = r[i] + more[i].length
    BY <1>4, <1>5, <1>6
  <2>. QED
    BY ONLY <1>7, <2>1 DEF Chained
<1>. QED
  BY <1>8 DEF more, to

\* One more box, and all of them.
LEMMA WalkBoxIs ==
  ASSUME NEW f, f.length \in Nat, NEW B, NEW W,
         B = [offset : 0..(f.length - 1), length : Nat, type : {b.type : b \in ToSet(f.boxes)}],
         W = [at : 0..f.length, boxes : Seq(B), bad : BOOLEAN],
         NEW walk \in W, Chained(walk.boxes, walk.at), NEW box \in ToSet(f.boxes), box.size \in Nat
  PROVE  LET w == WalkBox(f, walk, box) IN w \in W /\ Chained(w.boxes, w.at)
<1> DEFINE left == f.length - walk.at
           header == IF box.form = 64 THEN LargeBoxHeader ELSE BoxHeader
           size == IF box.form = 0 THEN left ELSE box.size
           new == [offset |-> walk.at, length |-> size, type |-> box.type]
           to == walk.at + size
           more == Append(walk.boxes, new)
           next1 == [walk EXCEPT !.at = to, !.boxes = more]
<1>1. walk.at \in 0..f.length /\ walk.boxes \in Seq(B) /\ walk.bad \in BOOLEAN
      /\ walk = [at |-> walk.at, boxes |-> walk.boxes, bad |-> walk.bad]
  OBVIOUS
<1>2. header \in Nat \ {0} /\ left \in Int /\ size \in Int
  BY <1>1, CutsAssumption
<1>3. WalkBox(f, walk, box) =
        IF walk.bad \/ left = 0 THEN walk
        ELSE IF left < header \/ size < header \/ size > left THEN [walk EXCEPT !.bad = TRUE] ELSE next1
  BY DEF WalkBox
<1>4. LET w == [walk EXCEPT !.bad = TRUE] IN w \in W /\ Chained(w.boxes, w.at)
  <2> DEFINE w == [walk EXCEPT !.bad = TRUE]
  <2>1. w \in W /\ w.boxes = walk.boxes /\ w.at = walk.at
    BY <1>1
  <2>. QED
    BY <2>1
<1>5. ASSUME ~(size < header), ~(size > left), left # 0 PROVE next1 \in W /\ Chained(next1.boxes, next1.at)
  <2>1. size \in Nat \ {0} /\ to \in 0..f.length /\ walk.at \in 0..(f.length - 1)
    BY <1>1, <1>2, <1>5
  <2>2. box.type \in {b.type : b \in ToSet(f.boxes)}
    OBVIOUS
  <2>3. new \in B /\ new.offset = walk.at /\ new.length = size /\ to = walk.at + new.length
    <3> HIDE DEF size
    <3>. QED
      BY <1>1, <2>1, <2>2
  <2> HIDE DEF new, to
  <2>4. more \in Seq(B)
    BY <1>1, <2>3
  <2>5. Chained(more, to)
    <3> DEFINE boxes == walk.boxes
               at == walk.at
    <3>1. boxes \in Seq(B) /\ at \in Nat /\ Chained(boxes, at) /\ new \in B /\ new.offset = at
          /\ new.length \in Nat \ {0} /\ more = Append(boxes, new) /\ to = at + new.length
      BY <1>1, <2>1, <2>3
    <3> HIDE DEF boxes, at, more
    <3>. QED
      BY ONLY <3>1, ChainedMore
  <2> HIDE DEF more
  <2>6. next1 \in W /\ next1.boxes = more /\ next1.at = to
    BY <1>1, <2>1, <2>4
  <2>. QED
    BY <2>5, <2>6
<1> HIDE DEF next1, left, size, header
<1>. QED
  BY <1>3, <1>4, <1>5

\* The boxes that a walk of the file finds.
LEMMA WalkIs ==
  ASSUME NEW f, f.length \in Nat, IsBoxes(f.boxes)
  PROVE  /\ \E B : Mp4Walk(f).boxes \in Seq([offset : 0..(f.length - 1), length : Nat, type : B])
         /\ ~Mp4Walk(f).bad => Chained(Mp4Walk(f).boxes, f.length)
<1> DEFINE n == Len(f.boxes)
           T == {b.type : b \in ToSet(f.boxes)}
           B == [offset : 0..(f.length - 1), length : Nat, type : T]
           V == [at : 0..f.length, boxes : Seq(B), bad : BOOLEAN]
           W == {w \in V : Chained(w.boxes, w.at)}
           base == [at |-> 0, boxes |-> <<>>, bad |-> FALSE]
           G == [i \in 1..n |-> [w \in W |-> WalkBox(f, w, f.boxes[i])]]
           h == CHOOSE h : Walk(h, f)
<1>1. n \in Nat /\ \A i \in 1..n : f.boxes[i] \in ToSet(f.boxes) /\ f.boxes[i].size \in Nat
  BY DEF IsBoxes
<1>2. base \in W
  BY NothingChained
<1>3. ASSUME NEW i \in 1..n, NEW w \in W PROVE WalkBox(f, w, f.boxes[i]) \in W
  <2> DEFINE box == f.boxes[i]
  <2>1. box \in ToSet(f.boxes) /\ box.size \in Nat
    BY <1>1
  <2>2. B = [offset : 0..(f.length - 1), length : Nat, type : {b.type : b \in ToSet(f.boxes)}]
        /\ V = [at : 0..f.length, boxes : Seq(B), bad : BOOLEAN]
        /\ w \in V /\ Chained(w.boxes, w.at)
    OBVIOUS
  <2> DEFINE u == WalkBox(f, w, box)
  <2> HIDE DEF box, B, V, T
  <2>3. u \in V /\ Chained(u.boxes, u.at)
    BY <2>1, <2>2, WalkBoxIs
  <2>. QED
    BY <2>3 DEF box
<1>4. G \in [1..n -> [W -> W]]
  <2> HIDE DEF W
  <2>. QED
    BY <1>3
<1>17. \A i \in 1..n, w \in W : G[i][w] = WalkBox(f, w, f.boxes[i])
  OBVIOUS
<1> HIDE DEF G, W
<1>5. PICK g \in [0..n -> W] : g[0] = base /\ \A i \in 1..n : g[i] = G[i][g[i - 1]]
  <2>1. n \in Nat
    BY <1>1
  <2> HIDE DEF n, base
  <2>. QED
    BY ONLY <2>1, <1>2, <1>4, Recursion
<1>6. \A i \in 1..n : i - 1 \in 0..n /\ g[i] = WalkBox(f, g[i - 1], f.boxes[i])
  <2> SUFFICES ASSUME NEW i \in 1..n
               PROVE  i - 1 \in 0..n /\ g[i] = WalkBox(f, g[i - 1], f.boxes[i])
    OBVIOUS
  <2>1. i - 1 \in 0..n
    BY <1>1
  <2> DEFINE w == g[i - 1]
  <2>2. w \in W
    BY <2>1
  <2> HIDE DEF w
  <2>3. G[i][w] = WalkBox(f, w, f.boxes[i])
    BY <1>17, <2>2
  <2>4. g[i] = G[i][w]
    BY <1>5 DEF w
  <2>. QED
    BY <2>1, <2>3, <2>4 DEF w
<1>7. Walk(g, f)
  BY <1>1, <1>5, <1>6 DEF Walk
<1>8. Walk(h, f)
  BY <1>7
<1>9. Mp4Walk(f) = [h[n] EXCEPT !.bad = @ \/ h[n].at < f.length]
  BY DEF Mp4Walk, Walk
<1> HIDE DEF h
<1>10. h[0] = base /\ \A i \in 1..n : h[i] = WalkBox(f, h[i - 1], f.boxes[i])
  <2>1. 0 \in 0..n /\ \A i \in 1..n : i \in 0..n /\ i # 0
    BY <1>1
  <2> HIDE DEF n
  <2>. QED
    BY <1>8, <2>1 DEF Walk, n
<1> DEFINE U == {i \in 0..n : h[i] \in W}
<1>11. 0 \in U
  BY <1>1, <1>2, <1>10
<1>12. ASSUME NEW k \in 0..n, k \in U, k < n PROVE k + 1 \in U
  <2> DEFINE j == k + 1
  <2>1. j \in 1..n /\ j \in 0..n /\ j - 1 = k /\ h[k] \in W
    BY <1>1, <1>12
  <2> HIDE DEF j
  <2>2. h[j] = WalkBox(f, h[k], f.boxes[j])
    BY <1>10, <2>1
  <2> DEFINE w == h[k]
  <2> HIDE DEF w
  <2>3. WalkBox(f, w, f.boxes[j]) \in W
    BY <2>1, <1>3 DEF w
  <2>4. j \in U
    BY <2>1, <2>2, <2>3 DEF w
  <2>. QED
    BY <2>4 DEF j
<1> HIDE DEF U
<1>13. \A k \in 0..n : k \in U
  BY <1>1, <1>11, <1>12, Ascent
<1>14. h[n] \in W
  BY <1>1, <1>13 DEF U
<1>15. h[n].boxes \in Seq(B)
  <2> HIDE DEF n, B
  <2>. QED
    BY <1>14 DEF W
<1>16. Mp4Walk(f).boxes = h[n].boxes
  <2> DEFINE w == h[n]
  <2>1. w \in [at : 0..f.length, boxes : Seq(B), bad : BOOLEAN]
    BY <1>14 DEF W
  <2>2. Mp4Walk(f) = [w EXCEPT !.bad = @ \/ w.at < f.length]
    BY <1>9
  <2> HIDE DEF w, B
  <2>3. [w EXCEPT !.bad = @ \/ w.at < f.length].boxes = w.boxes
    BY <2>1
  <2>. QED
    BY <2>2, <2>3 DEF w
<1>18. ASSUME ~Mp4Walk(f).bad PROVE Chained(h[n].boxes, f.length)
  <2> DEFINE w == h[n]
  <2>1. w \in [at : 0..f.length, boxes : Seq(B), bad : BOOLEAN] /\ Chained(w.boxes, w.at)
    BY <1>14 DEF W
  <2>2. Mp4Walk(f) = [w EXCEPT !.bad = @ \/ w.at < f.length]
    BY <1>9
  <2> HIDE DEF w, B
  <2>3. [w EXCEPT !.bad = @ \/ w.at < f.length].bad = (w.bad \/ w.at < f.length)
    BY <2>1
  <2>4. ~(w.bad \/ w.at < f.length)
    BY <1>18, <2>2, <2>3, Zenon
  <2>5. w.at \in 0..f.length
    BY <2>1
  <2>6. w.at = f.length
    BY <2>4, <2>5
  <2>. QED
    BY <2>1, <2>6 DEF w
<1>. QED
  <2>1. Mp4Walk(f).boxes \in Seq([offset : 0..(f.length - 1), length : Nat, type : T])
    BY <1>15, <1>16
  <2>2. ~Mp4Walk(f).bad => Chained(Mp4Walk(f).boxes, f.length)
    BY <1>16, <1>18
  <2> HIDE DEF T
  <2>. QED
    BY <2>1, <2>2

\* The run of segment boxes ahead of a box begins somewhere.
LEMMA StartWithin ==
  ASSUME NEW boxes, NEW i \in Nat \ {0}
  PROVE  LET s == SegmentStart(boxes, i)
         IN  /\ s \in 1..i /\ \A j \in s..(i - 1) : boxes[j].type \in SegmentBoxes
             /\ s = 1 \/ boxes[s - 1].type \notin SegmentBoxes
<1> DEFINE Good(s) == \A j \in s..(i - 1) : boxes[j].type \in SegmentBoxes
           T == {s \in 1..i : Good(s)}
<1>1. i \in T
  OBVIOUS
<1>2. PICK m \in T : \A k \in T : m <= k
  <2>1. T \in SUBSET Nat /\ T # {}
    BY <1>1
  <2> HIDE DEF T
  <2>. QED
    BY <2>1, LeastNat
<1>3. ASSUME m # 1 PROVE boxes[m - 1].type \notin SegmentBoxes
  <2>1. m - 1 \in 1..i /\ ~(m <= m - 1)
    BY <1>3
  <2>2. ~Good(m - 1)
    <3>1. m - 1 \notin T
      <4> HIDE DEF T
      <4>. QED
        BY <1>2, <2>1
    <3> HIDE DEF Good
    <3>. QED
      BY <2>1, <3>1
  <2>3. PICK j \in (m - 1)..(i - 1) : boxes[j].type \notin SegmentBoxes
    BY <2>2
  <2>4. j \notin m..(i - 1)
    BY <2>3
  <2>5. j = m - 1
    BY <2>4
  <2>. QED
    BY <2>3, <2>5
<1>4. \E s \in 1..i : Good(s) /\ (s = 1 \/ boxes[s - 1].type \notin SegmentBoxes)
  BY <1>3
<1>. QED
  BY <1>4 DEF SegmentStart

\* The mp4 profile.
LEMMA Mp4Points ==
  ASSUME NEW f, f.length \in Nat \ {0}, IsBoxes(f.boxes), FirstMoof(Mp4Walk(f).boxes) # 0
  PROVE  PointsTo(Mp4CutPoints(f), f.length)
<1> DEFINE boxes == Mp4Walk(f).boxes
           first == FirstMoof(boxes)
           n == Len(boxes)
           after == {i \in (first + 1)..n : boxes[i - 1].type = "mdat" /\ boxes[i].type # "mdat"}
           x == boxes[SegmentStart(boxes, first)].offset
           A == {boxes[i].offset : i \in after}
           S == {0, f.length, x} \cup A
<1>1. n \in Nat /\ DOMAIN boxes = 1..n /\ \A i \in 1..n : boxes[i].offset \in 0..f.length
  <2>1. \E B : boxes \in Seq([offset : 0..(f.length - 1), length : Nat, type : B])
    BY WalkIs
  <2> HIDE DEF boxes
  <2>2. PICK B : boxes \in Seq([offset : 0..(f.length - 1), length : Nat, type : B])
    BY <2>1
  <2> DEFINE R == [offset : 0..(f.length - 1), length : Nat, type : B]
  <2>3. \A r \in R : r.offset \in 0..f.length
    OBVIOUS
  <2>4. boxes \in Seq(R)
    BY <2>2
  <2> HIDE DEF R
  <2>5. n \in Nat /\ DOMAIN boxes = 1..n /\ \A i \in 1..n : boxes[i] \in R
    BY <2>4
  <2>. QED
    BY <2>3, <2>5
<1>2. Mp4CutPoints(f) = S
  BY DEF Mp4CutPoints
<1>3. first # 0
  OBVIOUS
<1> HIDE DEF boxes, n
<1>4. first \in 1..n
  <2> DEFINE moofs == {i \in 1..n : boxes[i].type = "moof"}
  <2>1. moofs # {} /\ first = CHOOSE i \in moofs : \A j \in moofs : i <= j
    BY <1>1, <1>3 DEF FirstMoof
  <2>2. moofs \in SUBSET Nat
    OBVIOUS
  <2>3. \E i \in moofs : \A j \in moofs : i <= j
    <3> HIDE DEF moofs
    <3>. QED
      BY <2>1, <2>2, LeastNat
  <2>. QED
    BY <2>1, <2>3
<1> HIDE DEF first
<1>5. x \in 0..f.length
  <2> DEFINE k == SegmentStart(boxes, first)
  <2>1. first \in Nat \ {0}
    BY <1>1, <1>4
  <2>2. k \in 1..first
    BY <2>1, StartWithin
  <2> HIDE DEF k
  <2>3. k \in 1..n
    BY <1>1, <1>4, <2>2
  <2>. QED
    BY <1>1, <2>3 DEF k
<1> HIDE DEF x
<1>6. \A i \in after : i \in 1..n
  BY <1>1, <1>4
<1>7. IsFiniteSet(A) /\ A \in SUBSET (0..f.length)
  <2> HIDE DEF A, after
  <2>6. after \in SUBSET (1..n)
    BY <1>6
  <2>7. IsFiniteSet(1..n)
    BY <1>1, FS_Interval
  <2>1. IsFiniteSet(1..n) /\ after \in SUBSET (1..n)
    BY <2>6, <2>7
  <2>2. IsFiniteSet(after)
    BY <2>1, FS_Subset
  <2> USE DEF A
  <2> DEFINE o == [i \in 1..n |-> boxes[i].offset]
  <2>3. A = {o[i] : i \in after}
    BY <2>1
  <2> HIDE DEF o
  <2>4. IsFiniteSet({o[i] : i \in after})
    BY <2>2, ImageFinite
  <2>5. A \in SUBSET (0..f.length)
    BY <1>1, <1>6
  <2>. QED
    BY <2>3, <2>4, <2>5
<1> HIDE DEF A
<1> DEFINE l == f.length
           B == A \cup {0}
           C == B \cup {l}
<1>8. /\ l \in Nat /\ l # 0 /\ S = C \cup {x}
      /\ A \in SUBSET (0..l) /\ x \in 0..l
  BY <1>5, <1>7
<1> HIDE DEF l, S
<1>10. IsFiniteSet(B) /\ B \in SUBSET (0..l) /\ 0 \in B
  BY ONLY <1>7, <1>8, FS_AddElement
<1> HIDE DEF B
<1>11. IsFiniteSet(C) /\ C \in SUBSET (0..l) /\ 0 \in C /\ l \in C
  BY ONLY <1>8, <1>10, FS_AddElement
<1> HIDE DEF C
<1>12. S \in SUBSET Nat /\ 0 \in S /\ l \in S /\ \A y \in S : y <= l
  BY ONLY <1>8, <1>11
<1>9. IsFiniteSet(S)
  BY ONLY <1>8, <1>11, FS_AddElement
<1>. QED
  BY <1>2, <1>9, <1>12 DEF l, PointsTo

\* The cut points of an MP4 cut it into ranges in order.
LEMMA Mp4 ==
  ASSUME NEW f, f.length \in Nat \ {0}, IsBoxes(f.boxes), FirstMoof(Mp4Walk(f).boxes) # 0
  PROVE  CutsLine(Mp4CutPoints(f), f.length)
BY Mp4Points, BetweenIsLine DEF PointsTo

\* The parts of a tile range.
LEMMA RangesAre ==
  ASSUME NEW T, NEW M \in Int, NEW r \in Ranges(T, M)
  PROVE  r.offset \in Nat /\ r.length \in Nat /\ r.tileId \in T /\ End(r) <= M
         /\ \A n \in Nat : r.offset + n <= M => [r EXCEPT !.length = n] \in Ranges(T, M)
<1>1. ASSUME NEW n \in Nat, r.offset + n <= M PROVE [r EXCEPT !.length = n] \in Ranges(T, M)
  <2> DEFINE u == [r EXCEPT !.length = n]
  <2>1. u \in [offset : Nat, length : Nat, tileId : T] /\ u.offset = r.offset /\ u.length = n
    BY DEF Ranges
  <2> HIDE DEF u
  <2>2. End(u) <= M
    BY <1>1, <2>1 DEF End
  <2>. QED
    BY <2>1, <2>2 DEF Ranges, u
<1>. QED
  BY <1>1 DEF Ranges

\* uniqueRanges keeps some of the ranges.
LEMMA UniqueRanges ==
  ASSUME NEW B, NEW s \in Seq(B)
  PROVE  UniqueBy(s, LAMBDA r : <<r.offset, r.length>>) \in Seq(B)
<1> DEFINE n == Len(s)
           S == Seq(B)
           base == <<>>
           Old(q, i) == \E k \in DOMAIN q : <<q[k].offset, q[k].length>> = <<s[i].offset, s[i].length>>
           Add(q, i) == IF Old(q, i) THEN q ELSE Append(q, s[i])
           G == [i \in 1..n |-> [q \in S |-> Add(q, i)]]
           h == CHOOSE f : KeptRanges(f, s, n)
<1>1. n \in Nat /\ \A i \in 1..n : s[i] \in B
  OBVIOUS
<1>2. ASSUME NEW i \in 1..n, NEW q \in S PROVE Add(q, i) \in S
  <2>1. s[i] \in B
    BY <1>1
  <2>2. Append(q, s[i]) \in S
    BY <2>1
  <2> HIDE DEF Old, S
  <2>. QED
    BY <2>2
<1> HIDE DEF Add
<1>3. G \in [1..n -> [S -> S]]
  <2> HIDE DEF S
  <2>. QED
    BY <1>2
<1>4. \A i \in 1..n, q \in S : G[i][q] = Add(q, i)
  OBVIOUS
<1>5. base \in S
  OBVIOUS
<1> HIDE DEF G
<1> HIDE DEF S
<1>6. PICK g \in [0..n -> S] : g[0] = base /\ \A i \in 1..n : g[i] = G[i][g[i - 1]]
  <2>1. n \in Nat
    BY <1>1
  <2> HIDE DEF n, base
  <2>. QED
    BY ONLY <2>1, <1>3, <1>5, Recursion
<1>7. \A i \in 1..n : g[i] = Add(g[i - 1], i)
  <2> SUFFICES ASSUME NEW i \in 1..n PROVE g[i] = Add(g[i - 1], i)
    OBVIOUS
  <2> DEFINE w == g[i - 1]
  <2>1. w \in S
    BY <1>1
  <2>2. g[i] = G[i][w]
    BY <1>6
  <2> HIDE DEF w
  <2>3. g[i] = Add(w, i)
    BY <1>4, <2>1, <2>2
  <2>. QED
    BY <2>3 DEF w
<1>8. KeptRanges(g, s, n)
  <2>1. ASSUME NEW i \in 0..n
        PROVE  g[i] = IF i = 0 THEN base ELSE Add(g[i - 1], i)
    BY <1>1, <1>6, <1>7
  <2>2. DOMAIN g = 0..n /\ g = [i \in 0..n |-> g[i]]
    OBVIOUS
  <2> HIDE DEF n
  <2>. QED
    BY <2>1, <2>2 DEF KeptRanges, Add
<1>9. KeptRanges(h, s, n)
  <2> HIDE DEF n
  <2>. QED
    BY <1>8
<1>10. UniqueBy(s, LAMBDA r : <<r.offset, r.length>>) = h[n]
  BY DEF UniqueBy, KeptRanges
<1> HIDE DEF h
<1>11. h[0] = base /\ \A i \in 1..n : h[i] = Add(h[i - 1], i)
  <2>1. 0 \in 0..n /\ \A i \in 1..n : i \in 0..n /\ i # 0
    BY <1>1
  <2> HIDE DEF n
  <2>. QED
    BY <1>9, <2>1 DEF KeptRanges, Add
<1> DEFINE U == {i \in 0..n : h[i] \in S}
<1>12. 0 \in U
  BY <1>1, <1>5, <1>11
<1>13. ASSUME NEW k \in 0..n, k \in U, k < n PROVE k + 1 \in U
  <2> DEFINE j == k + 1
             w == h[k]
  <2>1. j \in 1..n /\ j \in 0..n /\ j - 1 = k /\ w \in S
    BY <1>1, <1>13
  <2> HIDE DEF j
  <2>2. h[j] = Add(w, j)
    BY <1>11, <2>1
  <2> HIDE DEF w
  <2>3. Add(w, j) \in S
    BY <1>2, <2>1
  <2>4. j \in U
    BY <2>1, <2>2, <2>3
  <2>. QED
    BY <2>4 DEF j
<1> HIDE DEF U
<1>14. \A k \in 0..n : k \in U
  BY <1>1, <1>12, <1>13, Ascent
<1>15. h[n] \in S
  BY <1>1, <1>14 DEF U
<1>. QED
  BY <1>10, <1>15 DEF S

\* Sorting by offset adds and loses no range.
LEMMA SortedIn ==
  ASSUME NEW T, NEW M \in Int, NEW s \in Seq(Ranges(T, M))
  PROVE  /\ StableSort(s, LAMBDA r : r.offset) \in Seq(Ranges(T, M))
         /\ \A i \in 1..Len(s) :
              \E k \in 1..Len(StableSort(s, LAMBDA r : r.offset)) : StableSort(s, LAMBDA r : r.offset)[k] = s[i]
<1> DEFINE n == Len(s)
           D == 1..n
           Before(j, i) == s[j].offset < s[i].offset \/ (s[j].offset = s[i].offset /\ j < i)
           R == {q \in D \X D : Before(q[1], q[2])}
           o == [i \in D |-> s[i].offset]
           q == StableSort(s, LAMBDA r : r.offset)
<1>1. n \in Nat /\ DOMAIN s = D /\ \A i \in D : s[i] \in Ranges(T, M)
  OBVIOUS
<1>2. \A i \in D : o[i] \in Nat /\ s[i].offset = o[i] /\ i \in Nat
  BY <1>1, RangesAre
<1>3. \A i, j \in D : <<i, j>> \in R <=> Before(i, j)
  OBVIOUS
<1>4. \A i, j \in D : Before(i, j) <=> o[i] < o[j] \/ (o[i] = o[j] /\ i < j)
  BY <1>2
<1> HIDE DEF R, o
<1>5. \A i, j \in D : <<i, j>> \in R <=> o[i] < o[j] \/ (o[i] = o[j] /\ i < j)
  BY <1>3, <1>4
<1>6. IsFiniteSet(D) /\ Cardinality(D) = n
  <2>1. 1 \in Int /\ n \in Int /\ n - 1 + 1 = n
    BY <1>1
  <2> HIDE DEF n
  <2>2. IsFiniteSet(1..n)
    BY <2>1, FS_Interval
  <2>3. Cardinality(1..n) = IF 1 > n THEN 0 ELSE n - 1 + 1
    BY <2>1, FS_Interval
  <2>4. n \in Nat
    BY <1>1
  <2>. QED
    BY <2>1, <2>2, <2>3, <2>4
<1>7. \A i, j \in D : <<i, j>> \in R => <<j, i>> \notin R
  BY <1>2, <1>5
<1>8. ASSUME NEW U \in SUBSET D, U # {} PROVE \E m \in U : \A y \in U : y # m => <<m, y>> \in R
  <2> DEFINE O == {o[i] : i \in U}
  <2>1. O \in SUBSET Nat /\ O # {}
    BY <1>2, <1>8
  <2>2. PICK a \in O : \A b \in O : a <= b
    <3> HIDE DEF O
    <3>. QED
      BY <2>1, LeastNat
  <2> DEFINE V == {i \in U : o[i] = a}
  <2>3. V \in SUBSET Nat /\ V # {}
    BY <1>2
  <2>4. PICK m \in V : \A k \in V : m <= k
    <3> HIDE DEF V
    <3>. QED
      BY <2>3, LeastNat
  <2>5. ASSUME NEW y \in U, y # m PROVE <<m, y>> \in R
    <3>1. o[y] \in O /\ a <= o[y] /\ o[m] = a /\ m \in D /\ y \in D
      BY <2>2, <2>4
    <3>2. o[y] \in Nat /\ a \in Nat /\ m \in Nat /\ y \in Nat
      BY <1>2, <3>1
    <3>3. CASE o[y] = a
      BY <2>4, <3>3, <1>5, <2>5, <3>1, <3>2
    <3>4. CASE o[y] # a
      BY <1>5, <3>1, <3>2, <3>4
    <3>. QED
      BY <3>3, <3>4
  <2>. QED
    BY <2>4, <2>5
<1>9. Ranked(D, R)
  <2> HIDE DEF D
  <2>. QED
    BY <1>6, <1>7, <1>8, Ranks
<1>10. ASSUME NEW k \in D PROVE \E i \in D : Cardinality({j \in D : Before(j, i)}) = k - 1
  <2>1. PICK i \in D : Cardinality({j \in D : <<j, i>> \in R}) = k - 1
    BY <1>6, <1>9 DEF Ranked
  <2>2. {j \in D : <<j, i>> \in R} = {j \in D : Before(j, i)}
    BY <1>3
  <2>. QED
    BY <2>1, <2>2
<1>11. q = [k \in D |-> s[CHOOSE i \in D : Cardinality({j \in D : Before(j, i)}) = k - 1]]
  BY <1>1 DEF StableSort
<1> HIDE DEF q, Before
<1>12. \A k \in 1..n : q[k] \in Ranges(T, M)
  <2> SUFFICES ASSUME NEW k \in D PROVE q[k] \in Ranges(T, M)
    OBVIOUS
  <2> DEFINE i == CHOOSE i \in D : Cardinality({j \in D : Before(j, i)}) = k - 1
  <2>1. i \in D
    BY <1>10
  <2>2. q[k] = s[i]
    BY <1>11
  <2> HIDE DEF i
  <2>. QED
    BY <1>1, <2>1, <2>2
<1>13. q = [k \in 1..n |-> q[k]]
  BY <1>11
<1>14. q \in Seq(Ranges(T, M)) /\ Len(q) = n
  BY <1>1, <1>12, <1>13
<1>15. ASSUME NEW i \in 1..n PROVE \E k \in 1..n : q[k] = s[i]
  <2> DEFINE rank(x) == Cardinality({y \in D : Before(y, x)})
             at == [k \in D |-> CHOOSE x \in D : rank(x) = k - 1]
  <2>1. \A k \in D : at[k] \in D /\ rank(at[k]) = k - 1 /\ q[k] = s[at[k]]
    BY <1>10, <1>11
  <2>2. at = [k \in D |-> at[k]]
    <3> HIDE DEF rank, D
    <3>. QED
      OBVIOUS
  <2> HIDE DEF at, rank
  <2>3. at \in [D -> D]
    <3> HIDE DEF D
    <3>. QED
      BY <2>1, <2>2
  <2>4. \A k, l \in D : at[k] = at[l] => k = l
    BY <2>1
  <2>5. i \in D
    OBVIOUS
  <2> HIDE DEF D
  <2>6. at \in Injection(D, D)
    BY <2>3, <2>4 DEF Injection, IsInjective
  <2>7. at \in Surjection(D, D)
    BY ONLY <1>6, <2>6, FS_Injection
  <2>8. \E k \in D : at[k] = i
    BY <2>5, <2>7 DEF Surjection
  <2>. QED
    BY <2>1, <2>8 DEF D
<1>. QED
  BY <1>14, <1>15 DEF q

\* One more tile, and all of them.
LEMMA GroupedWithIs ==
  ASSUME NEW T, NEW M \in Int, NEW q \in Seq(Ranges(T, M)), NEW tile \in Ranges(T, M), NEW budget
  PROVE  GroupedWith(q, tile, budget) \in Seq(Ranges(T, M))
<1> DEFINE n == Len(q)
           B == Ranges(T, M)
           last == q[n]
           sum == last.length + tile.length
           more == [q EXCEPT ![n].length = sum]
<1>1. Append(q, tile) \in Seq(B)
  OBVIOUS
<1>2. ASSUME q # <<>>, tile.offset = End(last) PROVE more \in Seq(B)
  <2>1. n \in Nat \ {0} /\ last \in B /\ DOMAIN q = 1..n /\ n \in 1..n /\ \A i \in 1..n : q[i] \in B
    BY <1>2
  <2>2. sum \in Nat /\ last.offset + sum <= M
    <3>1. /\ last.length \in Nat /\ last.offset \in Nat /\ tile.length \in Nat /\ tile.offset \in Nat
          /\ End(tile) <= M
      BY <2>1, RangesAre
    <3> HIDE DEF last
    <3>. QED
      BY <1>2, <3>1 DEF End
  <2> DEFINE new == [last EXCEPT !.length = sum]
  <2>3. new \in B
    BY <2>1, <2>2, RangesAre
  <2>4. more = [q EXCEPT ![n] = new]
    OBVIOUS
  <2> HIDE DEF new, B, n
  <2>. QED
    BY <2>1, <2>3, <2>4
<1>3. GroupedWith(q, tile, budget) = IF \/ q = <<>> \/ tile.offset # End(last) \/ budget = 0
                                        \/ Last(q).length + tile.length > budget
                                     THEN Append(q, tile) ELSE more
  BY DEF GroupedWith, Last
<1> HIDE DEF more
<1>. QED
  BY <1>1, <1>2, <1>3

\* The recursion over the tiles defines a function.
LEMMA GroupingExists ==
  ASSUME NEW T, NEW M, M \in Int, NEW ranges \in Seq(Ranges(T, M)), NEW budget
  PROVE  \E g, q : Grouping(g, q, ranges, budget, Ranges(T, M))
<1> DEFINE tiles == StableSort(ranges, LAMBDA r : r.offset)
           n == Len(tiles)
           S == Seq(Ranges(T, M))
           base == <<>>
           G == [i \in 1..n |-> [q \in S |-> GroupedWith(q, tiles[i], budget)]]
           h == CHOOSE f : Groups(f, tiles, budget)
<1>1. tiles \in S /\ SortedFrom(tiles, ranges)
  BY SortedIn DEF SortedFrom
<1>2. GroupedTileRanges(ranges, budget) = h[n]
  BY DEF GroupedTileRanges, Groups
<1> HIDE DEF tiles
<1>3. n \in Nat /\ \A i \in 1..n : tiles[i] \in Ranges(T, M)
  BY <1>1
<1>4. ASSUME NEW i \in 1..n, NEW q \in S PROVE GroupedWith(q, tiles[i], budget) \in S
  <2> DEFINE tile == tiles[i]
  <2>1. tile \in Ranges(T, M)
    BY <1>3
  <2> HIDE DEF tile
  <2>2. GroupedWith(q, tile, budget) \in S
    BY <2>1, GroupedWithIs
  <2>. QED
    BY <2>2 DEF tile
<1>5. base \in S
  OBVIOUS
<1> HIDE DEF S
<1>6. G \in [1..n -> [S -> S]]
  BY <1>4
<1>7. \A i \in 1..n, q \in S : G[i][q] = GroupedWith(q, tiles[i], budget)
  OBVIOUS
<1> HIDE DEF G
<1>8. PICK g \in [0..n -> S] : g[0] = base /\ \A i \in 1..n : g[i] = G[i][g[i - 1]]
  <2>1. n \in Nat
    BY <1>3
  <2> HIDE DEF n, base
  <2>. QED
    BY ONLY <2>1, <1>5, <1>6, Recursion
<1>9. \A i \in 1..n : g[i] = GroupedWith(g[i - 1], tiles[i], budget)
  <2> SUFFICES ASSUME NEW i \in 1..n PROVE g[i] = GroupedWith(g[i - 1], tiles[i], budget)
    OBVIOUS
  <2> DEFINE w == g[i - 1]
  <2>1. w \in S
    BY <1>3
  <2>2. g[i] = G[i][w]
    BY <1>8
  <2> HIDE DEF w
  <2>3. g[i] = GroupedWith(w, tiles[i], budget)
    BY <1>7, <2>1, <2>2
  <2>. QED
    BY <2>3 DEF w
<1>10. Groups(g, tiles, budget)
  BY <1>3, <1>8, <1>9 DEF Groups
<1>11. Groups(h, tiles, budget)
  <2> HIDE DEF n
  <2>. QED
    BY <1>10
<1> HIDE DEF h
<1>12. h[0] = base /\ \A i \in 1..n : h[i] = GroupedWith(h[i - 1], tiles[i], budget)
  <2>1. 0 \in 0..n /\ \A i \in 1..n : i \in 0..n /\ i # 0
    BY <1>3
  <2> HIDE DEF n
  <2>. QED
    BY <1>11, <2>1 DEF Groups, n
<1> DEFINE U == {i \in 0..n : h[i] \in S}
<1>13. 0 \in U
  BY <1>3, <1>5, <1>12
<1>14. ASSUME NEW k \in 0..n, k \in U, k < n PROVE k + 1 \in U
  <2> DEFINE j == k + 1
             w == h[k]
  <2>1. j \in 1..n /\ j \in 0..n /\ j - 1 = k /\ w \in S
    BY <1>3, <1>14
  <2> HIDE DEF j
  <2>2. h[j] = GroupedWith(w, tiles[j], budget)
    BY <1>12, <2>1
  <2> HIDE DEF w
  <2>3. GroupedWith(w, tiles[j], budget) \in S
    BY <1>4, <2>1
  <2>4. j \in U
    BY <2>1, <2>2, <2>3
  <2>. QED
    BY <2>4 DEF j
<1> HIDE DEF U
<1>15. \A k \in 0..n : k \in U
  BY <1>3, <1>13, <1>14, Ascent
<1>16. \A i \in 0..n : h[i] \in S
  BY <1>15 DEF U
<1>17. GroupingOf(h, tiles, budget, Ranges(T, M))
  BY <1>1, <1>5, <1>12, <1>16 DEF GroupingOf, S, base
<1>18. Grouping(h, tiles, ranges, budget, Ranges(T, M))
  BY <1>1, <1>2, <1>17 DEF Grouping
<1>. QED
  BY <1>18

\* Tile ranges stay in the tile data when they are grouped.
LEMMA GroupsIn ==
  ASSUME NEW T, NEW M, M \in Int, NEW ranges \in Seq(Ranges(T, M)), NEW budget
  PROVE  GroupedTileRanges(ranges, budget) \in Seq(Ranges(T, M))
<1>1. PICK h, tiles : Grouping(h, tiles, ranges, budget, Ranges(T, M))
  BY GroupingExists, Zenon
<1>2. Len(tiles) \in 0..Len(tiles)
  BY <1>1 DEF Grouping, GroupingOf
<1>. QED
  BY <1>1, <1>2 DEF Grouping, GroupingOf

\* The entries of an archive's tiles.
LEMMA TileEntriesIn ==
  ASSUME NEW f, IsArchive(f)
  PROVE  \E X : TileEntries(f) \in Seq(X) /\ \A e \in X : IsSection(e)
<1> DEFINE d == f.directory
           n == Len(d)
           Y == UNION {ToSet(d[i].within) : i \in 1..n}
           X == ToSet(d) \cup Y
           gs == [i \in 1..n |-> IF d[i].run = 0 THEN d[i].within ELSE <<d[i]>>]
<1>1. n \in Nat /\ DOMAIN d = 1..n /\ \A i \in 1..n : d[i] \in ToSet(d) /\ IsSection(d[i])
  <2>1. IsDirectory(d)
    BY DEF IsArchive
  <2> HIDE DEF d
  <2>. QED
    BY <2>1 DEF IsDirectory
<1>2. \A i \in 1..n : IsDirectory(d[i].within)
  BY <1>1 DEF IsArchive
<1>3. TileEntries(f) = FlattenSeq(gs)
  BY <1>1 DEF TileEntries
<1> HIDE DEF d, n
<1>4. ASSUME NEW e \in X PROVE IsSection(e)
  <2>1. CASE e \in ToSet(d)
    BY <1>1, <2>1 DEF ToSet
  <2>2. CASE e \in Y
    <3>1. PICK i \in 1..n : e \in ToSet(d[i].within)
      BY <2>2
    <3>2. IsDirectory(d[i].within)
      BY <1>2
    <3> DEFINE w == d[i].within
    <3> HIDE DEF w
    <3>3. e \in ToSet(w) /\ IsDirectory(w)
      BY <3>1, <3>2 DEF w
    <3>. QED
      BY <3>3 DEF IsDirectory, ToSet
  <2>. QED
    BY <2>1, <2>2
<1>5. ASSUME NEW i \in 1..n PROVE gs[i] \in Seq(X)
  <2> DEFINE w == d[i].within
             e == d[i]
  <2>1. w \in Seq(ToSet(w)) /\ ToSet(w) \subseteq X
    BY <1>2 DEF IsDirectory
  <2>2. e \in X
    BY <1>1
  <2>3. gs[i] = IF d[i].run = 0 THEN w ELSE <<e>>
    OBVIOUS
  <2> HIDE DEF w, e, X, gs
  <2>4. w \in Seq(X) /\ <<e>> \in Seq(X)
    BY <2>1, <2>2
  <2>. QED
    BY <2>3, <2>4
<1>6. gs = [i \in 1..n |-> gs[i]]
  OBVIOUS
<1> HIDE DEF gs, X
<1>7. FlattenSeq(gs) \in Seq(X)
  BY <1>1, <1>5, <1>6, FlattenIn
<1>. QED
  BY <1>3, <1>4, <1>7

\* The tile ranges of an archive.
LEMMA TileRangesIn ==
  ASSUME NEW f, IsArchive(f), NEW M \in Int, \A i \in DOMAIN TileRanges(f) : End(TileRanges(f)[i]) <= M
  PROVE  \E T : TileRanges(f) \in Seq(Ranges(T, M))
<1>1. PICK X : TileEntries(f) \in Seq(X) /\ \A e \in X : IsSection(e)
  BY TileEntriesIn
<1> DEFINE s == TileEntries(f)
           n == Len(s)
           T == {e.tileId : e \in X}
           R == [offset : Nat, length : Nat, tileId : T]
           placed == [i \in DOMAIN s |-> [offset |-> f.tiles.offset + s[i].offset, length |-> s[i].length,
                                          tileId |-> s[i].tileId]]
<1>2. TileRanges(f) = UniqueBy(placed, LAMBDA r : <<r.offset, r.length>>)
  BY DEF TileRanges
<1> HIDE DEF s
<1>3. n \in Nat /\ DOMAIN s = 1..n /\ \A i \in 1..n : s[i] \in X
  BY <1>1 DEF s
<1>4. f.tiles.offset \in Nat
  BY DEF IsArchive, IsSection
<1>5. ASSUME NEW i \in 1..n PROVE placed[i] \in R
  <2> DEFINE e == s[i]
             o == f.tiles.offset
             r == [offset |-> o + e.offset, length |-> e.length, tileId |-> e.tileId]
  <2>1. e \in X
    BY <1>3
  <2>2. placed[i] = r
    BY <1>3
  <2> HIDE DEF e, placed
  <2>3. e.offset \in Nat /\ e.length \in Nat /\ e.tileId \in T
    BY <1>1, <2>1 DEF IsSection
  <2> HIDE DEF T, o
  <2>4. o + e.offset \in Nat
    BY <1>4, <2>3 DEF o
  <2>5. r \in R
    BY <2>3, <2>4
  <2>. QED
    BY <2>2, <2>5
<1>6. placed = [i \in 1..n |-> placed[i]]
  BY <1>3
<1> HIDE DEF placed, R
<1>7. placed \in Seq(R)
  BY <1>3, <1>5, <1>6
<1>8. UniqueBy(placed, LAMBDA r : <<r.offset, r.length>>) \in Seq(R)
  BY <1>7, UniqueRanges
<1>9. TileRanges(f) \in Seq(Ranges(T, M))
  <2> DEFINE u == TileRanges(f)
             m == Len(u)
  <2>1. u \in Seq(R)
    BY <1>2, <1>8
  <2>2. \A i \in DOMAIN u : End(u[i]) <= M
    OBVIOUS
  <2> HIDE DEF u
  <2>3. m \in Nat /\ DOMAIN u = 1..m /\ u = [i \in 1..m |-> u[i]] /\ \A i \in 1..m : u[i] \in R
    BY <2>1
  <2>4. \A i \in 1..m : u[i] \in Ranges(T, M)
    <3> HIDE DEF T, m
    <3>. QED
      BY <2>2, <2>3 DEF R, Ranges
  <2> HIDE DEF m
  <2>5. u \in Seq(Ranges(T, M))
    BY <2>3, <2>4
  <2>. QED
    BY <2>5 DEF u
<1> HIDE DEF T
<1>. QED
  BY <1>9

\* The sections of an archive.
LEMMA SectionsAre ==
  ASSUME NEW f, IsArchive(f)
  PROVE  IsFiniteSet(Sections(f)) /\ \A s \in Sections(f) : IsSection(s)
<1> DEFINE d == f.directory
           n == Len(d)
           I == {j \in 1..n : d[j].run = 0}
           base == f.leaves.offset
           Section(e) == [offset |-> base + e.offset, length |-> e.length]
           at == [j \in I |-> Section(d[j])]
           L == {at[j] : j \in I}
           header == [offset |-> 0, length |-> HeaderSize]
           H == {header, f.root, f.metadata, f.leaves, f.tiles}
<1>1. n \in Nat /\ DOMAIN d = 1..n /\ \A i \in 1..n : IsSection(d[i])
  <2>1. IsDirectory(d)
    BY DEF IsArchive
  <2> HIDE DEF d
  <2>. QED
    BY <2>1 DEF IsDirectory
<1>2. base \in Nat
  BY DEF IsArchive, IsSection
<1>3. LeafEntries(f) = {d[i] : i \in I}
  BY <1>1 DEF LeafEntries
<1>4. Sections(f) = H \cup {Section(e) : e \in LeafEntries(f)}
  BY DEF Sections
<1> HIDE DEF d, n, base
<1>5. {Section(e) : e \in LeafEntries(f)} = L
  <2> HIDE DEF Section
  <2>1. \A j \in I : at[j] = Section(d[j])
    OBVIOUS
  <2> HIDE DEF at, I
  <2>2. {Section(e) : e \in {d[i] : i \in I}} = {at[j] : j \in I}
    BY <2>1
  <2>. QED
    BY <1>3, <2>2
<1>6. IsFiniteSet(L)
  <2>1. IsFiniteSet(1..n) /\ I \in SUBSET (1..n)
    BY <1>1, FS_Interval
  <2>2. IsFiniteSet(I)
    BY <2>1, FS_Subset
  <2> HIDE DEF at, I
  <2>. QED
    BY <2>2, ImageFinite
<1>7. ASSUME NEW s \in L PROVE IsSection(s)
  <2>1. PICK j \in I : s = at[j]
    OBVIOUS
  <2> DEFINE e == d[j]
  <2>2. j \in 1..n /\ s = Section(e)
    BY <2>1
  <2>3. e.offset \in Nat /\ e.length \in Nat
    BY <1>1, <2>2 DEF IsSection
  <2> HIDE DEF e
  <2>4. s.offset = base + e.offset /\ s.length = e.length
    BY <2>2
  <2>. QED
    BY <1>2, <2>3, <2>4 DEF IsSection
<1> HIDE DEF L, Section
<1>8. IsSection(header)
  BY CutsAssumption DEF IsSection
<1> HIDE DEF header
<1>9. \A s \in H : IsSection(s)
  BY <1>8 DEF IsArchive
<1>10. IsFiniteSet(H \cup L)
  <2> DEFINE a == f.root
             b == f.metadata
             c == f.leaves
             e == f.tiles
             M == ((((L \cup {header}) \cup {a}) \cup {b}) \cup {c}) \cup {e}
  <2>1. H = {header, a, b, c, e}
    OBVIOUS
  <2> HIDE DEF a, b, c, e, H
  <2>2. H \cup L = M
    BY <2>1
  <2>3. IsFiniteSet(M)
    BY <1>6, FS_AddElement
  <2>. QED
    BY <2>2, <2>3
<1>. QED
  BY <1>4, <1>5, <1>7, <1>9, <1>10

\* The pmtiles profile.
LEMMA ArchivePoints ==
  ASSUME NEW f, f.length \in Nat \ {0}, IsArchive(f), Parses(f), NEW budget
  PROVE  PointsTo(PmtilesCutPoints(f, GroupedTileRanges(TileRanges(f), budget)), f.length)
<1> DEFINE groups == GroupedTileRanges(TileRanges(f), budget)
           n == Len(groups)
           A == {groups[i] : i \in 1..n}
           Z == Sections(f) \cup A
           begin == [s \in Z |-> s.offset]
           end == [s \in Z |-> End(s)]
           P == {begin[s] : s \in Z}
           Q == {end[s] : s \in Z}
           l == f.length
           probe == IF l > Probe THEN {Probe} ELSE {}
           S == PmtilesCutPoints(f, groups)
<1>1. n \in Nat /\ DOMAIN groups = 1..n /\ \A i \in 1..n : IsSection(groups[i]) /\ End(groups[i]) <= l
  <2>5. End(f.tiles) \in Nat /\ End(f.tiles) <= l
    BY DEF Sections, Parses, IsArchive, IsSection, End
  <2>6. \A i \in DOMAIN TileRanges(f) : End(TileRanges(f)[i]) <= End(f.tiles)
    BY DEF Parses
  <2> DEFINE M == End(f.tiles)
  <2>7. M \in Int /\ M <= l /\ \A i \in DOMAIN TileRanges(f) : End(TileRanges(f)[i]) <= M
    BY <2>5, <2>6
  <2> HIDE DEF M
  <2>1. PICK T : TileRanges(f) \in Seq(Ranges(T, M))
    BY <2>7, TileRangesIn
  <2>2. groups \in Seq(Ranges(T, M))
    BY <2>1, <2>7, GroupsIn
  <2> HIDE DEF groups
  <2>3. n \in Nat /\ DOMAIN groups = 1..n /\ \A i \in 1..n : groups[i] \in Ranges(T, M)
    BY <2>2
  <2>4. ASSUME NEW i \in 1..n PROVE IsSection(groups[i]) /\ End(groups[i]) <= l
    <3> DEFINE r == groups[i]
    <3>1. r \in Ranges(T, M)
      BY <2>3
    <3> HIDE DEF r
    <3>2. r.offset \in Nat /\ r.length \in Nat /\ End(r) <= M
      BY <2>7, <3>1, RangesAre
    <3>3. End(r) <= l
      BY <2>7, <3>2 DEF End
    <3>. QED
      BY <3>2, <3>3 DEF IsSection, r
  <2>. QED
    BY <2>3, <2>4
<1>2. S = (UNION {{s.offset, End(s)} : s \in Sections(f) \cup {groups[i] : i \in DOMAIN groups}}) \cup {0, l} \cup probe
  BY DEF PmtilesCutPoints
<1> HIDE DEF groups, S, n
<1>3. IsFiniteSet(A)
  <2> DEFINE g == [i \in 1..n |-> groups[i]]
             I == 1..n
  <2>1. A = {g[i] : i \in I}
    OBVIOUS
  <2>2. IsFiniteSet(I)
    BY <1>1, FS_Interval
  <2>3. IsFiniteSet({g[i] : i \in I})
    <3> HIDE DEF g, I
    <3>. QED
      BY <2>2, ImageFinite
  <2>. QED
    BY <2>1, <2>3
<1>4. \A s \in A : IsSection(s) /\ End(s) <= l
  BY <1>1
<1>5. {groups[i] : i \in DOMAIN groups} = A
  BY <1>1
<1> HIDE DEF A
<1>6. IsFiniteSet(Z) /\ \A s \in Z : IsSection(s) /\ End(s) <= l
  BY SectionsAre, <1>3, FS_Union, <1>4 DEF Parses
<1>7. S = (UNION {{s.offset, End(s)} : s \in Z}) \cup {0, l} \cup probe
  BY <1>2, <1>5
<1> HIDE DEF Z
<1>8. UNION {{s.offset, End(s)} : s \in Z} = P \cup Q
  OBVIOUS
<1>9. \A s \in Z : begin[s] \in 0..l /\ end[s] \in 0..l
  BY <1>6 DEF IsSection, End
<1> HIDE DEF begin, end
<1>10. IsFiniteSet(P) /\ IsFiniteSet(Q)
  BY <1>6, ImageFinite
<1>11. P \in SUBSET (0..l) /\ Q \in SUBSET (0..l)
  BY <1>9
<1> HIDE DEF P, Q
<1>12. l \in Nat /\ l # 0
  OBVIOUS
<1> HIDE DEF l
<1>13. probe \in SUBSET (0..l) /\ IsFiniteSet(probe)
  <2>1. Probe \in Nat
    BY CutsAssumption
  <2>2. IsFiniteSet({Probe}) /\ IsFiniteSet({})
    BY FS_Singleton, FS_EmptySet
  <2>. QED
    BY <1>12, <2>1, <2>2
<1> HIDE DEF probe
<1>14. S = ((P \cup Q) \cup probe) \cup {0} \cup {l}
  <2> DEFINE V == UNION {{s.offset, End(s)} : s \in Z}
  <2>1. S = V \cup {0, l} \cup probe
    BY ONLY <1>7, Zenon
  <2>2. V = P \cup Q
    BY ONLY <1>8, Zenon
  <2> HIDE DEF V
  <2>. QED
    BY <2>1, <2>2
<1>15. IsFiniteSet((P \cup Q) \cup probe)
  BY <1>10, FS_Union, <1>13
<1>16. IsFiniteSet(S)
  BY <1>14, <1>15, FS_AddElement
<1>17. S \in SUBSET Nat /\ 0 \in S /\ l \in S /\ \A y \in S : y <= l
  BY <1>11, <1>12, <1>13, <1>14
<1>. QED
  BY <1>16, <1>17 DEF S, groups, l, PointsTo

\* The cut points of an archive cut it into ranges in order.
LEMMA ArchiveLines ==
  ASSUME NEW f, f.length \in Nat \ {0}, IsArchive(f), Parses(f), NEW budget
  PROVE  CutsLine(PmtilesCutPoints(f, GroupedTileRanges(TileRanges(f), budget)), f.length)
BY ArchivePoints, BetweenIsLine DEF PointsTo

\* A cut of one band.
LEMMA CutWhole ==
  ASSUME NEW s, NEW p, NEW size, LineTo(s, p, size), NEW cut, cut.leaves = s, cut.bands = <<s>>
  PROVE  IsCut(cut, size)
<1>1. IsSeq(s) /\ Len(s) # 0
  BY DEF LineTo, IsLine, Placed
<1>2. PICK c, g : CutInto(<<s>>, s, c, g)
  BY <1>1, OneBand
<1>. QED
  BY <1>2 DEF IsCut

\* Whatever the profile, the packer cuts every file that is not empty.
LEMMA CutIsLine ==
  ASSUME NEW j \in MemoryJobs \cup DiskJobs, j.file.length # 0, Cut(j) # <<>>
  PROVE  IsCut(Cut(j)[1], j.file.length)
<1> DEFINE f == j.file
           opts == j.opts
<1>1. /\ f.length \in Nat \ {0}
      /\ f.type = "pmtiles" => IsArchive(f)
      /\ f.type = "mp4" => IsBoxes(f.boxes)
      /\ opts.profile \in {"auto", "fixed", "pmtiles", "mp4"}
      /\ opts.chunk \in Nat \cup {Unset}
  BY JobsAssumption
<1>2. OptionsApply(f, opts)
  BY DEF Cut
<1>3. Profile(f, opts) \in {"pmtiles", "mp4", "fixed"}
  BY <1>1 DEF Profile
<1>4. CASE Profile(f, opts) = "pmtiles"
  <2>1. Cut(j) = CutPmtiles(f, opts)
    BY <1>2, <1>4 DEF Cut
  <2>2. Parses(f)
    BY <2>1 DEF CutPmtiles
  <2> DEFINE budget == IF opts.tileGroup = Unset THEN ChoosePmtilesTileGroup(f) ELSE opts.tileGroup
  <2>3. Cut(j) = CutAt(f, budget)
    BY <2>1 DEF CutPmtiles
  <2> HIDE DEF budget
  <2> DEFINE groups == GroupedTileRanges(TileRanges(f), budget)
             leaves == PmtilesLeaves(f, budget)
             p == Ascending(PmtilesCutPoints(f, groups))
             bands == PmtilesBands(f, leaves, groups)
             cut == Cut(j)[1]
  <2>4. cut.leaves = leaves /\ cut.bands = bands
    BY <2>3 DEF CutAt
  <2>5. IsArchive(f)
    BY <1>1, <2>2 DEF Parses
  <2>6. CutsLine(PmtilesCutPoints(f, groups), f.length)
    BY <1>1, <2>2, <2>5, ArchiveLines
  <2>7. LineTo(leaves, p, f.length)
    BY <2>6 DEF CutsLine, PmtilesLeaves
  <2> HIDE DEF leaves, p, groups, cut
  <2>8. IsSeq(leaves) /\ Len(leaves) # 0
    BY <2>7 DEF LineTo, IsLine, Placed
  <2>9. \E c, g : CutInto(bands, leaves, c, g)
    BY <2>8, PmtilesCut
  <2>10. IsCut(cut, f.length)
    <3> HIDE DEF bands
    <3>. QED
      BY <2>4, <2>7, <2>9 DEF IsCut
  <2>. QED
    BY <2>10 DEF cut
<1>5. CASE Profile(f, opts) = "mp4"
  <2>1. Cut(j) = CutMp4(f)
    BY <1>2, <1>5 DEF Cut
  <2> DEFINE S == Mp4CutPoints(f)
             s == LeavesBetween(S)
             cut == Cut(j)[1]
  <2>2. f.type = "mp4" /\ FirstMoof(Mp4Walk(f).boxes) # 0
    BY <2>1 DEF CutMp4
  <2>3. cut.leaves = s /\ cut.bands = <<s>>
    BY <2>1 DEF CutMp4
  <2>4. IsBoxes(f.boxes) /\ f.length \in Nat \ {0}
    BY <1>1, <2>2
  <2>5. CutsLine(S, f.length)
    <3> HIDE DEF f
    <3>. QED
      BY <2>2, <2>4, Mp4
  <2> HIDE DEF cut
  <2>6. IsCut(cut, f.length)
    BY <2>3, <2>5, CutWhole DEF CutsLine
  <2>. QED
    BY <2>6 DEF cut
<1>6. CASE Profile(f, opts) = "fixed"
  <2>1. Cut(j) = CutFixed(f, opts)
    BY <1>2, <1>6 DEF Cut
  <2> DEFINE s == FixedLeaves(f, opts)
             cut == Cut(j)[1]
  <2>2. cut.leaves = s /\ cut.bands = <<s>>
    BY <2>1 DEF CutFixed
  <2>3. PICK p : LineTo(s, p, f.length)
    <3>1. f.length \in Nat \ {0} /\ opts.chunk \in Nat \cup {Unset} /\ OptionsApply(f, opts)
      BY <1>1, <1>2
    <3> HIDE DEF f, opts
    <3>. QED
      BY <3>1, Fixed
  <2> HIDE DEF cut, s
  <2>4. IsCut(cut, f.length)
    BY <2>2, <2>3, CutWhole
  <2>. QED
    BY <2>4 DEF cut
<1>. QED
  BY <1>3, <1>4, <1>5, <1>6

-----------------------------------------------------------------------------
(***************************************************************************)
(* Every anchor is that of a pack of some job (PacksInv).                  *)
(***************************************************************************)
\* What a client is given of a pack, whatever the proof files are.
LEMMA GoodPackReads ==
  ASSUME NEW pack, GoodPack(pack), DecodesDescriptor(pack.anchor),
         NEW start \in 0..(pack.anchor[2] - 1), NEW end \in (start + 1)..pack.anchor[2], NEW store,
         LeavesFor(pack.anchor[3], pack.anchor[2], start, end, store).ok
  PROVE  LeavesFor(pack.anchor[3], pack.anchor[2], start, end, store).leaves = Wanted(pack, start, end)
<1>1. PICK j \in MemoryJobs \cup DiskJobs : pack = Pack(j)
  BY DEF GoodPack
<1> DEFINE f == j.file
           cut == Cut(j)[1]
           D == pack.leaves
<1>2. Cut(j) # <<>> /\ pack = PackWithChunker(f, cut) /\ pack.ok
  BY <1>1 DEF GoodPack, Pack, PackCut, Refused
<1>3. /\ pack.leaves = Digested(f, cut.leaves) /\ pack.anchor[2] = f.length
  <2> DEFINE tree == BuildProofTree([b \in DOMAIN cut.bands |-> Digested(f, cut.bands[b])])
  <2>1. pack = Finished(f, cut, tree)
    BY <1>2 DEF PackWithChunker
  <2> HIDE DEF cut, tree, f
  <2>2. pack.anchor = <<f.id, f.length, tree.entries>> /\ pack.leaves = Digested(f, cut.leaves)
    BY <1>2, <2>1 DEF Finished, EncodeDescriptor, Refused
  <2>. QED
    BY <2>2, SMTT(30)
<1>4. f.length # 0
  BY <1>3
<1>5. IsCut(cut, f.length)
  BY <1>2, <1>4, CutIsLine
<1> HIDE DEF cut, f
<1>6. PICK p, c, g : IsLine(cut.leaves, p) /\ p[1] = 0 /\ CutInto(cut.bands, cut.leaves, c, g)
  BY <1>5 DEF IsCut, LineTo
<1>7. IsLine(D, p) /\ Says(pack.anchor[3], D, p, p[Len(D) + 1])
  BY <1>2, <1>6, PackSays
<1>8. Formed(D)
  <2> DEFINE s == cut.leaves
  <2>1. DOMAIN s = 1..Len(s) /\ Len(s) \in Nat
    BY <1>6 DEF IsLine, Placed, IsSeq
  <2> HIDE DEF s
  <2>2. D = [i \in 1..Len(s) |-> [offset |-> s[i].offset, length |-> s[i].length,
                                   digest |-> <<f.id, s[i].offset, s[i].length>>]]
    BY <1>3, <2>1 DEF Digested, s
  <2>3. D = [i \in 1..Len(s) |-> D[i]]
    BY <2>2
  <2>4. Len(D) = Len(s)
    BY <2>1, <2>3, ValuesAreSeq
  <2>5. ASSUME NEW i \in 1..Len(s)
        PROVE  D[i] = [offset |-> D[i].offset, length |-> D[i].length, digest |-> D[i].digest]
    BY <2>2
  <2>. QED
    BY <2>4, <2>5 DEF Formed
<1>. QED
  BY <1>6, <1>7, <1>8, ReadWanted

(***************************************************************************)
(* What was packed, and what was printed.                                  *)
(***************************************************************************)

\* One more pack is printed.
LEMMA PrintedMore ==
  ASSUME IsSeq(printed), \A i \in DOMAIN printed : GoodPack(printed[i]), GoodPack(packed)
  PROVE  /\ IsSeq(Append(printed, packed))
         /\ \A i \in DOMAIN Append(printed, packed) : GoodPack(Append(printed, packed)[i])
<1> DEFINE n == Len(printed)
           q == Append(printed, packed)
           S == ToSet(printed) \cup {packed}
<1>1. n \in Nat /\ DOMAIN printed = 1..n /\ printed \in Seq(S) /\ packed \in S
  <2> DEFINE T == ToSet(printed)
  <2>1. printed \in Seq(T)
    BY DEF IsSeq
  <2> HIDE DEF T
  <2>2. printed \in Seq(T \cup {packed})
    BY <2>1
  <2>. QED
    BY <2>1, <2>2 DEF T
<1> HIDE DEF S
<1>2. /\ q \in Seq(S) /\ Len(q) = n + 1 /\ q[n + 1] = packed
      /\ \A i \in 1..n : q[i] = printed[i]
  BY <1>1
<1> HIDE DEF n, q
<1>3. q = [i \in 1..(n + 1) |-> q[i]]
  BY <1>1, <1>2
<1>4. IsSeq(q) /\ DOMAIN q = 1..(n + 1)
  <2> DEFINE m == n + 1
  <2>1. m \in Nat /\ q = [i \in 1..m |-> q[i]]
    BY <1>1, <1>3
  <2> HIDE DEF m
  <2>2. IsSeq(q) /\ DOMAIN q = 1..m
    BY <2>1, ValuesAreSeq
  <2>. QED
    BY <2>2 DEF m
<1>5. ASSUME NEW i \in 1..(n + 1) PROVE GoodPack(q[i])
  BY <1>2, <1>1
<1>. QED
  BY <1>4, <1>5 DEF q

\* PacksInv holds at first, and every step keeps it.
LEMMA InitPacks == Init => PacksInv
<1> SUFFICES ASSUME Init, phase # "published" PROVE PacksInv
  BY DEF PacksInv
<1>1. printed = <<>> /\ phase \in {"start", "idle"} /\ packed = Refused /\ job \in MemoryJobs \cup DiskJobs
  BY DEF Init
<1>2. ~packed.ok /\ phase \notin Begun
  BY <1>1 DEF Refused, Begun, Writing
<1>3. printed = [i \in 1..0 |-> printed[i]]
  BY <1>1
<1>4. IsSeq(printed) /\ DOMAIN printed = 1..0
  BY <1>3, ValuesAreSeq
<1>. QED
  BY <1>1, <1>2, <1>4 DEF PacksInv

LEMMA StepPacks ==
  ASSUME PacksInv, Step
  PROVE  PacksInv' /\ phase # "published" /\ phase' # "published"
<1>1. ASSUME NEW j \in DiskJobs, NEW input, Begin(j, input)
      PROVE  PacksInv' /\ phase # "published" /\ phase' # "published"
  BY <1>1 DEF Begin, Settled, PacksInv, Refused, Begun, Writing
<1>2. CASE PackInput
  BY <1>2 DEF PackInput, PacksInv, GoodPack, Pack, PackCut, Begun, Writing
<1>3. CASE MakeDirs \/ RefuseInputAliases \/ OpenCar \/ Truncate \/ Fill \/ WriteCar \/ Fail \/ Crash
  BY <1>3 DEF MakeDirs, RefuseInputAliases, OpenCar, Truncate, Fill, WriteCar, Fail, Crash, Begun, Writing,
     PacksInv
<1>4. CASE EndProofs \/ RenameCar
  BY <1>4, PrintedMore DEF EndProofs, RenameCar, Begun, Writing, PacksInv
<1>. QED
  BY <1>1, <1>2, <1>3, <1>4 DEF Step

\* Whoever has an anchor has that of a pack.
LEMMA AnchoredAreGood ==
  ASSUME PacksInv, phase # "published", NEW i \in DOMAIN Anchored
  PROVE  GoodPack(Anchored[i])
<1>1. IsSeq(printed) /\ \A k \in DOMAIN printed : GoodPack(printed[k])
  BY DEF PacksInv
<1>2. CASE packed.ok
  BY <1>2, <1>1, PrintedMore DEF PacksInv, Anchored
<1>3. CASE ~packed.ok
  BY <1>1, <1>3 DEF Anchored
<1>. QED
  BY <1>2, <1>3

\* A read by someone who has a pack's anchor.
LEMMA ReadIsTrue ==
  ASSUME PacksInv, NEW i \in DOMAIN Anchored, NEW start \in 0..(Anchored[i].anchor[2] - 1),
         NEW end \in (start + 1)..Anchored[i].anchor[2], Read(Anchored[i], start, end)
  PROVE  ReadsAreRight'
<1> DEFINE pack == Anchored[i]
           anchor == pack.anchor
           size == anchor[2]
           found == IF Supplies(ProofReader, <<Root>>, anchor) /\ DecodesDescriptor(anchor)
                    THEN LeavesFor(anchor[3], size, start, end, ProofReader)
                    ELSE [ok |-> FALSE, leaves |-> <<>>]
           r == [of |-> pack, start |-> start, end |-> end, ok |-> found.ok, leaves |-> found.leaves]
<1>1. got' = <<r>> /\ UNCHANGED <<job, packed, runs, phase, next, printed>>
  BY DEF Read
<1>2. r.of = pack /\ r.start = start /\ r.end = end /\ r.ok = found.ok /\ r.leaves = found.leaves
  OBVIOUS
<1>3. phase # "published" => GoodPack(pack)
  BY AnchoredAreGood
<1>4. start \in 0..(pack.anchor[2] - 1) /\ end \in (start + 1)..pack.anchor[2]
  OBVIOUS
<1> HIDE DEF r, pack
<1>5. ToSet(got') = {r}
  BY <1>1 DEF ToSet
<1>6. ASSUME found.ok, phase # "published" PROVE found.leaves = Wanted(pack, start, end)
  <2>1. /\ DecodesDescriptor(anchor) /\ LeavesFor(anchor[3], size, start, end, ProofReader).ok
        /\ found.leaves = LeavesFor(anchor[3], size, start, end, ProofReader).leaves
    BY <1>6
  <2> DEFINE store == ProofReader
  <2> HIDE DEF store, found
  <2>2. LeavesFor(pack.anchor[3], pack.anchor[2], start, end, store).ok
    BY <2>1 DEF store
  <2>3. LeavesFor(pack.anchor[3], pack.anchor[2], start, end, store).leaves = Wanted(pack, start, end)
    BY <1>3, <1>4, <1>6, <2>1, <2>2, GoodPackReads
  <2>. QED
    BY <2>1, <2>3 DEF store
<1> HIDE DEF found
<1>7. r.ok /\ phase' # "published" => r.leaves = Wanted(r.of, r.start, r.end)
  BY <1>1, <1>2, <1>6
<1>. QED
  BY <1>5, <1>7 DEF ReadsAreRight, Wanted

\* ReadsAreRight, for every job, cap, fault and state of the disk: an anchor of
\* ours brings a client that pack's own leaves over its range, or nothing.
THEOREM ReadsAreTrue == Spec => []ReadsAreRight
<1> DEFINE Inv == PacksInv /\ ReadsAreRight
<1>1. Init => Inv
  BY InitPacks DEF Init, ToSet, NoRead, ReadsAreRight
<1>2. Inv /\ [Next]_vars => Inv'
  <2> SUFFICES ASSUME Inv, [Next]_vars PROVE Inv'
    OBVIOUS
  <2>1. CASE Step /\ got' = NoRead
    BY <2>1, StepPacks DEF ToSet, NoRead, ReadsAreRight
  <2>2. ASSUME NEW i \in DOMAIN Anchored, NEW start \in 0..(Anchored[i].anchor[2] - 1),
               NEW end \in (start + 1)..Anchored[i].anchor[2], Read(Anchored[i], start, end)
        PROVE  Inv'
    BY <2>2, ReadIsTrue DEF Read, PacksInv
  <2>3. CASE UNCHANGED vars
    BY <2>3 DEF vars, PacksInv, ReadsAreRight, Wanted
  <2>. QED
    BY <2>1, <2>2, <2>3 DEF Next
<1>3. Inv => ReadsAreRight
  OBVIOUS
<1>. QED
  BY <1>1, <1>2, <1>3, PTL DEF Spec

-----------------------------------------------------------------------------
(***************************************************************************)
(* The files of a pack, as sets: none has the path of another.             *)
(***************************************************************************)
\* What two sequences hold, one after the other.
LEMMA JoinSet ==
  ASSUME NEW a, NEW b, IsSeq(a), IsSeq(b)
  PROVE  IsSeq(a \o b) /\ ToSet(a \o b) = ToSet(a) \cup ToSet(b)
<1> DEFINE c == a \o b
           m == Len(a)
           n == Len(b)
<1>1. /\ IsSeq(c) /\ m \in Nat /\ n \in Nat /\ Len(c) = m + n
      /\ (\A i \in 1..m : c[i] = a[i]) /\ \A i \in 1..n : c[m + i] = b[i]
  BY JoinIs
<1>2. DOMAIN a = 1..m /\ DOMAIN b = 1..n /\ DOMAIN c = 1..(m + n)
  BY <1>1 DEF IsSeq
<1> HIDE DEF c, m, n
<1>3. ASSUME NEW i \in 1..(m + n) PROVE c[i] \in ToSet(a) \cup ToSet(b)
  <2>1. CASE i \in 1..m
    BY <1>1, <1>2, <2>1 DEF ToSet
  <2>2. CASE i \notin 1..m
    <3> DEFINE j == i - m
    <3>1. j \in 1..n /\ m + j = i
      BY <1>1, <2>2
    <3> HIDE DEF j
    <3>2. c[i] = b[j]
      BY <1>1, <3>1
    <3>. QED
      BY <1>2, <3>1, <3>2 DEF ToSet
  <2>. QED
    BY <2>1, <2>2
<1>4. ToSet(c) \subseteq ToSet(a) \cup ToSet(b)
  BY <1>2, <1>3 DEF ToSet
<1>5. ASSUME NEW i \in 1..m PROVE a[i] \in ToSet(c)
  BY <1>1, <1>2 DEF ToSet
<1>6. ASSUME NEW i \in 1..n PROVE b[i] \in ToSet(c)
  BY <1>1, <1>2 DEF ToSet
<1>7. ToSet(a) \subseteq ToSet(c) /\ ToSet(b) \subseteq ToSet(c)
  BY <1>2, <1>5, <1>6 DEF ToSet
<1>. QED
  BY <1>1, <1>4, <1>7 DEF c

\* What sequences hold, one after the other.
LEMMA FlattenHolds ==
  ASSUME NEW n \in Nat, NEW gs, gs = [i \in 1..n |-> gs[i]], \A i \in 1..n : IsSeq(gs[i])
  PROVE  IsSeq(FlattenSeq(gs)) /\ ToSet(FlattenSeq(gs)) = UNION {ToSet(gs[i]) : i \in 1..n}
<1> DEFINE F == CHOOSE f : Joins(f, gs, n)
           All(m) == UNION {ToSet(gs[i]) : i \in 1..m}
<1>1. Joins(F, gs, n)
  BY JoinsExist
<1> HIDE DEF F
<1>2. Len(gs) = n
  BY ValuesAreSeq
<1>3. CASE n = 0
  <2> DEFINE q == <<>>
  <2>1. FlattenSeq(gs) = q
    BY <1>2, <1>3 DEF FlattenSeq
  <2>2. q = [i \in 1..0 |-> q[i]] /\ DOMAIN q = {}
    OBVIOUS
  <2> HIDE DEF q
  <2>3. IsSeq(q) /\ ToSet(q) = {}
    BY <2>2, ValuesAreSeq DEF ToSet
  <2>4. 1..n = {}
    BY <1>3
  <2>. QED
    BY <2>1, <2>3, <2>4
<1>4. CASE n # 0
  <2>1. FlattenSeq(gs) = F[n]
    BY <1>2, <1>4 DEF FlattenSeq, Joins, F
  <2>2. \A i \in 1..n : F[i] = IF i = 1 THEN gs[i] ELSE F[i - 1] \o gs[i]
    BY <1>1 DEF Joins
  <2> DEFINE Good(m) == IsSeq(F[m]) /\ ToSet(F[m]) = All(m)
             T == {m \in 0..(n - 1) : Good(m + 1)}
  <2>3. 0 \in T
    <3>1. 1 \in 1..n /\ 0 \in 0..(n - 1) /\ 0 + 1 = 1 /\ 1..1 = {1}
      BY <1>4
    <3>2. F[1] = gs[1] /\ IsSeq(gs[1])
      BY <2>2, <3>1
    <3>3. All(1) = ToSet(gs[1])
      BY <3>1
    <3>4. Good(1)
      BY <3>2, <3>3
    <3> HIDE DEF Good
    <3>. QED
      BY <3>1, <3>4
  <2>4. ASSUME NEW k \in 0..(n - 1), k \in T, k < n - 1 PROVE k + 1 \in T
    <3> DEFINE j == k + 1
               i == j + 1
    <3>1. Good(j) /\ j \in 0..(n - 1) /\ i \in 1..n /\ i # 1 /\ i - 1 = j
      BY <2>4
    <3>2. 1..i = 1..j \cup {i}
      BY <3>1
    <3> HIDE DEF i, j
    <3>3. F[i] = F[j] \o gs[i] /\ IsSeq(gs[i]) /\ IsSeq(F[j]) /\ ToSet(F[j]) = All(j)
      BY <2>2, <3>1
    <3>4. IsSeq(F[i]) /\ ToSet(F[i]) = All(j) \cup ToSet(gs[i])
      BY <3>3, JoinSet
    <3>5. All(i) = All(j) \cup ToSet(gs[i])
      BY <3>2
    <3>6. Good(i)
      BY <3>4, <3>5
    <3> HIDE DEF Good
    <3>7. j \in T
      BY <3>1, <3>6 DEF i
    <3>. QED
      BY <3>7 DEF j
  <2>5. n - 1 \in Nat /\ n - 1 \in 0..(n - 1) /\ n - 1 + 1 = n
    BY <1>4
  <2> HIDE DEF T
  <2>6. \A k \in 0..(n - 1) : k \in T
    BY <2>3, <2>4, <2>5, Ascent
  <2>7. Good(n)
    <3> HIDE DEF Good
    <3>. QED
      BY <2>5, <2>6 DEF T
  <2>. QED
    BY <2>1, <2>7
<1>. QED
  BY <1>3, <1>4

\* A subdirectory, as its parent files it.
LEMMA UnderIs ==
  ASSUME NEW q, NEW dir, IsSeq(dir.files)
  PROVE  /\ IsSeq(Under(q, dir))
         /\ ToSet(Under(q, dir)) = UnderSet(q[1].start, ToSet(dir.files), dir.meta)
<1> DEFINE name == q[1].start
           fs == dir.files
           n == Len(fs)
           g(u) == FileAt(<<name>> \o u.path, u.content)
           a == [i \in DOMAIN fs |-> [path |-> <<name>> \o fs[i].path, content |-> fs[i].content]]
           b == <<[path |-> <<name, Meta>>, content |-> dir.meta]>>
<1>1. n \in Nat /\ DOMAIN fs = 1..n
  BY DEF IsSeq
<1>2. a = [i \in 1..n |-> a[i]] /\ \A i \in 1..n : a[i] = g(fs[i])
  BY <1>1 DEF FileAt
<1>3. b = [i \in 1..1 |-> b[i]] /\ b[1] = FileAt(<<name, Meta>>, dir.meta)
  BY DEF FileAt
<1>4. Under(q, dir) = a \o b
  BY DEF Under
<1> HIDE DEF a, b, n, g, fs
<1>5. IsSeq(a) /\ IsSeq(b) /\ DOMAIN a = 1..n /\ DOMAIN b = 1..1
  BY <1>1, <1>2, ValuesAreSeq, <1>3
<1>6. ToSet(a) = {g(u) : u \in ToSet(fs)}
  BY <1>1, <1>2, <1>5 DEF ToSet
<1>7. ToSet(b) = {FileAt(<<name, Meta>>, dir.meta)}
  BY <1>3, <1>5 DEF ToSet
<1>8. IsSeq(a \o b) /\ ToSet(a \o b) = ToSet(a) \cup ToSet(b)
  BY <1>5, JoinSet
<1>. QED
  BY <1>4, <1>6, <1>7, <1>8 DEF UnderSet, g, fs

\* The files of the shards of a directory.
LEMMA ShardFilesIs ==
  ASSUME NEW s, IsSeq(s)
  PROVE  /\ IsSeq(ShardFiles(s))
         /\ ToSet(ShardFiles(s)) = {FileAt(<<s[k].start>>, s[k].content) : k \in 1..Len(s)}
<1> DEFINE n == Len(s)
           q == ShardFiles(s)
           g(k) == FileAt(<<s[k].start>>, s[k].content)
<1>1. n \in Nat /\ DOMAIN s = 1..n
  BY DEF IsSeq
<1>2. q = [k \in 1..n |-> q[k]] /\ \A k \in 1..n : q[k] = g(k)
  BY <1>1 DEF ShardFiles, FileAt
<1> HIDE DEF q, n, g
<1>3. IsSeq(q) /\ DOMAIN q = 1..n
  BY <1>1, <1>2, ValuesAreSeq
<1>4. ToSet(q) = {g(k) : k \in 1..n}
  BY <1>2, <1>3 DEF ToSet
<1>. QED
  BY <1>3, <1>4 DEF q, n, g

\* A name before a path.
LEMMA ConsIs ==
  ASSUME NEW n \in Int, NEW s \in Seq(Int), s # <<>>
  PROVE  /\ <<n>> \o s \in Seq(Int) /\ <<n>> \o s # <<>> /\ (<<n>> \o s)[1] = n
         /\ (<<n>> \o s)[2] = s[1] /\ Last(<<n>> \o s) = Last(s)
<1> DEFINE w == <<n>> \o s
           m == Len(s)
<1>1. m \in Nat \ {0} /\ DOMAIN s = 1..m
  OBVIOUS
<1>2. w \in Seq(Int) /\ Len(w) = m + 1 /\ w[1] = n /\ \A i \in 1..m : w[i + 1] = s[i]
  BY <1>1
<1> HIDE DEF w, m
<1>3. w # <<>> /\ Last(w) = w[m + 1] /\ Last(s) = s[m]
  BY <1>1, <1>2 DEF Last, m
<1>4. 1 \in 1..m /\ m \in 1..m
  BY <1>1
<1>5. w[1 + 1] = s[1] /\ w[m + 1] = s[m]
  BY <1>2, <1>4
<1>. QED
  BY <1>2, <1>3, <1>5 DEF w

\* One number more, in front.
LEMMA ConsParts ==
  ASSUME NEW n \in Int, NEW t \in Seq(Int)
  PROVE  Len(<<n>> \o t) = Len(t) + 1 /\ \A i \in 1..Len(t) : (<<n>> \o t)[i + 1] = t[i]
<1> DEFINE w == <<n>> \o t
           m == Len(t)
<1>1. m \in Nat /\ DOMAIN t = 1..m
  OBVIOUS
<1>2. w \in Seq(Int) /\ Len(w) = m + 1 /\ w[1] = n /\ \A i \in 1..m : w[i + 1] = t[i]
  BY <1>1
<1>. QED
  BY <1>2

\* Paths below one directory are told apart by what follows its name.
LEMMA ConsCancel ==
  ASSUME NEW n \in Int, NEW s \in Seq(Int), NEW t \in Seq(Int), <<n>> \o s = <<n>> \o t
  PROVE  s = t
<1> DEFINE v == <<n>> \o s
           w == <<n>> \o t
           k == Len(s)
           m == Len(t)
<1>1. k \in Nat /\ m \in Nat /\ s = [i \in 1..k |-> s[i]] /\ t = [i \in 1..m |-> t[i]]
  OBVIOUS
<1>2. Len(v) = k + 1 /\ \A i \in 1..k : v[i + 1] = s[i]
  BY ConsParts
<1>3. Len(w) = m + 1 /\ \A i \in 1..m : w[i + 1] = t[i]
  BY ConsParts
<1>4. v = w
  OBVIOUS
<1> HIDE DEF v, w, k, m
<1>5. k = m
  BY <1>1, <1>2, <1>3, <1>4
<1>6. \A i \in 1..k : s[i] = t[i]
  BY <1>2, <1>3, <1>4, <1>5
<1>. QED
  BY <1>1, <1>5, <1>6

\* A subdirectory's files lie under its name.
LEMMA UnderFiled ==
  ASSUME NEW F, NEW x, NEW y, Filed(F, x, y), NEW name \in Nat, NEW meta, Len(meta) \in 1..MetaMaxEntries
  PROVE  Filed(UnderSet(name, F, meta), name, name + 1)
<1> DEFINE G == UnderSet(name, F, meta)
           g(u) == FileAt(<<name>> \o u.path, u.content)
           o == FileAt(<<name, Meta>>, meta)
           In(u) == /\ u.path \in Seq(Int) /\ u.path # <<>>
                    /\ u.path[1] \in Nat /\ name <= u.path[1] /\ u.path[1] < name + 1
                    /\ Last(u.path) = Meta => Len(u.content) \in 1..MetaMaxEntries
<1>1. \A u \in G : u = o \/ \E v \in F : u = g(v)
  BY DEF UnderSet
<1>2. ASSUME NEW u \in F
      PROVE  /\ u.path \in Seq(Int) /\ u.path # <<>> /\ u.path[1] \in Nat
             /\ Last(u.path) = Meta => Len(u.content) \in 1..MetaMaxEntries
  BY DEF Filed
<1>3. ASSUME NEW u \in F
      PROVE  /\ g(u).path = <<name>> \o u.path /\ g(u).content = u.content
             /\ g(u).path \in Seq(Int) /\ g(u).path # <<>> /\ g(u).path[1] = name
             /\ g(u).path[2] = u.path[1] /\ Last(g(u).path) = Last(u.path)
  <2>1. g(u).path = <<name>> \o u.path /\ g(u).content = u.content
    BY DEF FileAt
  <2> HIDE DEF g
  <2>2. name \in Int
    OBVIOUS
  <2>. QED
    BY <1>2, <2>1, <2>2, ConsIs
<1>4. /\ o.path \in Seq(Int) /\ o.path # <<>> /\ o.path[1] = name /\ o.path[2] = Meta
      /\ o.path = <<name, Meta>> /\ o.content = meta
  BY DEF FileAt, Meta
<1> HIDE DEF g, o, G
<1>5. In(o)
  BY <1>4
<1>6. ASSUME NEW u \in F PROVE In(g(u))
  BY <1>2, <1>3
<1>7. ASSUME NEW u \in F, NEW v \in F, g(u).path = g(v).path PROVE g(u).content = g(v).content
  <2>1. <<name>> \o u.path = <<name>> \o v.path
    BY <1>3, <1>7
  <2>2. name \in Int /\ u.path \in Seq(Int) /\ v.path \in Seq(Int)
    BY <1>2
  <2>3. u.path = v.path
    BY ONLY <2>1, <2>2, ConsCancel
  <2>4. u.content = v.content
    BY <2>3 DEF Filed
  <2>. QED
    BY <1>3, <2>4
<1>8. ASSUME NEW u \in F PROVE g(u).path # o.path
  BY <1>2, <1>3, <1>4, SMTT(30) DEF Meta
<1>9. \A u \in G : In(u)
  <2> HIDE DEF In
  <2>. QED
    BY <1>1, <1>5, <1>6
<1>10. \A u, v \in G : u.path = v.path => u.content = v.content
  BY <1>1, <1>7, <1>8
<1>. QED
  BY <1>9, <1>10 DEF Filed, G

\* Files within a range are within a wider one.
LEMMA FiledWider ==
  ASSUME NEW F, NEW x \in Int, NEW y \in Int, Filed(F, x, y), NEW u \in Int, NEW v \in Int, u <= x, y <= v
  PROVE  Filed(F, u, v)
BY DEF Filed

\* Files of two adjacent ranges do not meet.
LEMMA FiledJoin ==
  ASSUME NEW F, NEW G, NEW x \in Int, NEW y \in Int, NEW z \in Int,
         Filed(F, x, y), Filed(G, y, z), x <= y, y <= z
  PROVE  Filed(F \cup G, x, z)
<1>1. Filed(F, x, z) /\ Filed(G, x, z)
  BY FiledWider
<1>2. ASSUME NEW u \in F, NEW v \in G PROVE u.path # v.path
  BY DEF Filed
<1>. QED
  BY <1>1, <1>2 DEF Filed

\* Files of consecutive names.
LEMMA FiledFamily ==
  ASSUME NEW c \in Nat, NEW G, NEW at, NEW x \in Nat, NEW y \in Nat,
         \A k \in 1..c : at[k] \in Nat /\ x <= at[k] /\ at[k] < y /\ Filed(G[k], at[k], at[k] + 1),
         \A k, l \in 1..c : k # l => at[k] # at[l]
  PROVE  Filed(UNION {G[k] : k \in 1..c}, x, y)
<1>1. ASSUME NEW k \in 1..c, NEW u \in G[k]
      PROVE  /\ u.path \in Seq(Int) /\ u.path # <<>> /\ u.path[1] = at[k]
             /\ u.path[1] \in Nat /\ x <= u.path[1] /\ u.path[1] < y
             /\ Last(u.path) = Meta => Len(u.content) \in 1..MetaMaxEntries
  BY DEF Filed
<1>2. ASSUME NEW k \in 1..c, NEW l \in 1..c, NEW u \in G[k], NEW v \in G[l], u.path = v.path
      PROVE  u.content = v.content
  BY <1>1, <1>2 DEF Filed
<1> DEFINE H == UNION {G[k] : k \in 1..c}
<1>3. \A u \in H : \E k \in 1..c : u \in G[k]
  OBVIOUS
<1> HIDE DEF H
<1>4. \A u \in H : /\ u.path \in Seq(Int) /\ u.path # <<>>
                   /\ u.path[1] \in Nat /\ x <= u.path[1] /\ u.path[1] < y
                   /\ Last(u.path) = Meta => Len(u.content) \in 1..MetaMaxEntries
  BY <1>1, <1>3
<1>5. \A u, v \in H : u.path = v.path => u.content = v.content
  BY <1>2, <1>3
<1>. QED
  BY <1>4, <1>5 DEF Filed, H

\* The file of one shard.
LEMMA ShardFiled ==
  ASSUME NEW n \in Nat, NEW content
  PROVE  Filed({FileAt(<<n>>, content)}, n, n + 1)
<1> DEFINE u == FileAt(<<n>>, content)
<1>1. u.path = <<n>> /\ u.content = content
  BY DEF FileAt
<1>2. <<n>> \in Seq(Int) /\ <<n>> # <<>> /\ <<n>>[1] = n /\ Last(<<n>>) = n
  BY DEF Last
<1> HIDE DEF u
<1>3. n # Meta
  BY DEF Meta
<1>4. /\ u.path \in Seq(Int) /\ u.path # <<>> /\ u.path[1] \in Nat /\ n <= u.path[1] /\ u.path[1] < n + 1
      /\ Last(u.path) # Meta
  BY <1>1, <1>2, <1>3
<1>5. Filed({u}, n, n + 1)
  BY <1>4 DEF Filed
<1>. QED
  BY <1>5 DEF u

\* Places of what has a length ascend.
LEMMA PlacedAscends ==
  ASSUME NEW s, NEW r, Placed(s, r)
  PROVE  Ascends(r, Len(s) + 1) /\ \A i \in 1..(Len(s) + 1) : r[i] \in Nat
<1> DEFINE n == Len(s)
<1>1. n \in Nat /\ r \in [1..(n + 1) -> Nat]
  BY DEF Placed, IsSeq
<1>2. ASSUME NEW i \in 1..(n + 1), NEW j \in 1..(n + 1), i < j PROVE r[i] < r[j]
  <2> DEFINE b == j - 1
  <2>1. i \in Nat \ {0} /\ b \in Nat /\ i <= b + 1 /\ i <= b /\ b <= Len(s) /\ b + 1 = j
    BY <1>1, <1>2
  <2> HIDE DEF b
  <2>2. r[b + 1] - r[i] \in Nat \ {0}
    BY <2>1, PartOfShards
  <2>3. r[i] \in Nat /\ r[j] \in Nat
    BY <1>1
  <2>. QED
    BY <2>1, <2>2, <2>3
<1> HIDE DEF n
<1>3. Ascends(r, n + 1)
  BY <1>2 DEF Ascends
<1>4. \A i \in 1..(n + 1) : r[i] \in Nat
  BY <1>1
<1>. QED
  BY <1>3, <1>4 DEF n

-----------------------------------------------------------------------------
(***************************************************************************)
(* The files of a pack hold all that its tree names.  A fact of a tree is  *)
(* <<kind, path, offset, length, digest>>.                                 *)
(***************************************************************************)
\* What is at a directory, of its members.
LEMMA AtIs ==
  ASSUME NEW H, NEW P, NEW h \in H, h[2] = Append(P, h[3])
  PROVE  <<h[1], h[3], h[4], h[5]>> \in At(H, P)
BY DEF At

\* What is at a directory is a fact of a file in it.
LEMMA AtFrom ==
  ASSUME NEW H, NEW P, NEW t \in At(H, P)
  PROVE  \E h \in H : h[2] = Append(P, h[3]) /\ t = <<h[1], h[3], h[4], h[5]>>
BY DEF At

\* More facts put no less at a directory.
LEMMA AtLarger ==
  ASSUME NEW H, NEW G, H \subseteq G, NEW P
  PROVE  At(H, P) \subseteq At(G, P)
BY DEF At

\* What is held stays so among more files and facts.
LEMMA FactHeldLarger ==
  ASSUME NEW h, NEW H, NEW F, FactHeld(h, H, F), NEW G, H \subseteq G, NEW E, F \subseteq E
  PROVE  FactHeld(h, G, E)
<1>1. h[2] \in Seq(Int) /\ h[3] \in Nat /\ h[4] \in Nat \ {0}
  BY DEF FactHeld
<1>2. CASE h[1] = Shard /\ FileAt(h[2], h[5]) \in F /\ Short(h[5], h[4])
  BY <1>1, <1>2 DEF FactHeld
<1>3. CASE h[1] = Dir /\ FileAt(Append(h[2], Meta), h[5]) \in F /\ Lined(h[5], At(H, h[2]), h[3], h[3] + h[4])
  BY AtLarger, <1>3, LinedLarger, <1>1 DEF FactHeld
<1>. QED
  BY <1>2, <1>3 DEF FactHeld

\* Facts held by two trees are held by both together.
LEMMA HeldJoin ==
  ASSUME NEW G, NEW E, Held(G, E), NEW H, NEW F, Held(H, F)
  PROVE  Held(G \cup H, E \cup F)
<1>1. ASSUME NEW h \in G \cup H PROVE FactHeld(h, G \cup H, E \cup F)
  BY FactHeldLarger DEF Held
<1>. QED
  BY <1>1 DEF Held

\* A name before a path, and a name after it.
LEMMA ConsAppend ==
  ASSUME NEW n \in Int, NEW s \in Seq(Int), NEW x \in Int
  PROVE  Append(<<n>> \o s, x) = <<n>> \o Append(s, x)
         /\ Append(s, x) \in Seq(Int) /\ <<n>> \o s \in Seq(Int)
<1> DEFINE m == Len(s)
           v == Append(<<n>> \o s, x)
           w == <<n>> \o Append(s, x)
<1>1. m \in Nat /\ s \in Seq(Int) /\ Append(s, x) \in Seq(Int) /\ <<n>> \in Seq(Int) /\ <<n>> \o s \in Seq(Int)
  OBVIOUS
<1>2. v \in Seq(Int) /\ w \in Seq(Int) /\ Len(v) = m + 2 /\ Len(w) = m + 2
  BY <1>1
<1>3. \A i \in 1..(m + 2) : v[i] = w[i]
  BY <1>1
<1>4. v = w
  <2> HIDE DEF v, w, m
  <2>1. v = [i \in 1..(m + 2) |-> v[i]] /\ w = [i \in 1..(m + 2) |-> w[i]]
    BY <1>1, <1>2
  <2>. QED
    BY <1>3, <2>1
<1>. QED
  BY <1>1, <1>4

\* A fact seen from the parent directory.
LEMMA ShiftedParts ==
  ASSUME NEW n, NEW h
  PROVE  /\ Shifted(n, h)[1] = h[1] /\ Shifted(n, h)[2] = <<n>> \o h[2]
         /\ Shifted(n, h)[3] = h[3] /\ Shifted(n, h)[4] = h[4] /\ Shifted(n, h)[5] = h[5]
BY DEF Shifted

\* A directory and what is in it, one level up.
LEMMA HeldUnder ==
  ASSUME NEW F, NEW H, Held(H, F), NEW n \in Nat, NEW y \in Nat, n < y, NEW meta,
         Lined(meta, At(H, <<>>), n, y)
  PROVE  \E G : Held(G, UnderSet(n, F, meta)) /\ <<Dir, n, y - n, meta>> \in At(G, <<>>)
<1> DEFINE d == <<Dir, <<n>>, n, y - n, meta>>
           L == {Shifted(n, h) : h \in H}
           G == L \cup {d}
           E == UnderSet(n, F, meta)
<1>1. d[1] = Dir /\ d[2] = <<n>> /\ d[3] = n /\ d[4] = y - n /\ d[5] = meta
  OBVIOUS
<1>2. n \in Int /\ <<n>> \in Seq(Int) /\ Append(<<>>, n) = <<n>> /\ y - n \in Nat \ {0} /\ n + (y - n) = y
  OBVIOUS
<1> HIDE DEF d
<1>3. ASSUME NEW h \in H PROVE h[2] \in Seq(Int) /\ h[3] \in Nat /\ h[4] \in Nat \ {0}
  BY DEF Held, FactHeld
<1>4. ASSUME NEW P \in Seq(Int) PROVE At(H, P) \subseteq At(G, <<n>> \o P)
  <2> SUFFICES ASSUME NEW t \in At(H, P) PROVE t \in At(G, <<n>> \o P)
    OBVIOUS
  <2>1. PICK h \in H : h[2] = Append(P, h[3]) /\ t = <<h[1], h[3], h[4], h[5]>>
    BY AtFrom
  <2> DEFINE u == Shifted(n, h)
  <2>2. u[1] = h[1] /\ u[2] = <<n>> \o h[2] /\ u[3] = h[3] /\ u[4] = h[4] /\ u[5] = h[5]
    BY ShiftedParts, SMTT(30)
  <2>3. u \in G
    OBVIOUS
  <2>4. h[3] \in Int
    BY <1>3
  <2>5. Append(<<n>> \o P, h[3]) = <<n>> \o h[2]
    BY <1>2, <2>1, <2>4, ConsAppend, SMTT(30)
  <2> HIDE DEF u, G
  <2>6. u[2] = Append(<<n>> \o P, u[3])
    BY <2>2, <2>5
  <2>7. <<u[1], u[3], u[4], u[5]>> \in At(G, <<n>> \o P)
    BY <2>3, <2>6, AtIs
  <2>. QED
    BY <2>1, <2>2, <2>7
<1>5. E = {FileAt(<<n>> \o u.path, u.content) : u \in F} \cup {FileAt(<<n, Meta>>, meta)}
  BY DEF UnderSet
<1>6. ASSUME NEW path, NEW content, FileAt(path, content) \in F
      PROVE  FileAt(<<n>> \o path, content) \in E
  <2> DEFINE u == FileAt(path, content)
  <2>1. u.path = path /\ u.content = content /\ u \in F
    BY <1>6 DEF FileAt
  <2> HIDE DEF u
  <2>. QED
    BY <1>5, <2>1
<1> HIDE DEF E
<1>7. ASSUME NEW h \in H PROVE FactHeld(Shifted(n, h), G, E)
  <2> DEFINE u == Shifted(n, h)
  <2>1. u[1] = h[1] /\ u[2] = <<n>> \o h[2] /\ u[3] = h[3] /\ u[4] = h[4] /\ u[5] = h[5]
    BY ShiftedParts, SMTT(30)
  <2> HIDE DEF u, G
  <2>2. u[2] \in Seq(Int) /\ u[3] \in Nat /\ u[4] \in Nat \ {0}
    BY <1>2, <1>3, <2>1, ConsAppend
  <2>3. CASE h[1] = Shard /\ FileAt(h[2], h[5]) \in F /\ Short(h[5], h[4])
    BY <1>6, <2>1, <2>3, <2>2 DEF FactHeld, u
  <2>4. CASE /\ h[1] = Dir /\ FileAt(Append(h[2], Meta), h[5]) \in F
             /\ Lined(h[5], At(H, h[2]), h[3], h[3] + h[4])
    <3>1. FileAt(<<n>> \o Append(h[2], Meta), h[5]) \in E
      BY <1>6, <2>4
    <3>2. Append(u[2], Meta) = <<n>> \o Append(h[2], Meta)
      <4>1. Meta \in Int
        BY DEF Meta
      <4>. QED
        BY <1>2, <1>3, <2>1, <4>1, ConsAppend, SMTT(30)
    <3>3. At(H, h[2]) \subseteq At(G, u[2])
      BY <1>3, <1>4, <2>1
    <3>4. Lined(h[5], At(G, u[2]), h[3], h[3] + h[4])
      BY <2>4, <3>3, LinedLarger
    <3>5. u[1] = Dir /\ FileAt(Append(u[2], Meta), u[5]) \in E /\ Lined(u[5], At(G, u[2]), u[3], u[3] + u[4])
      BY <2>1, <2>4, <3>1, <3>2, <3>4
    <3>. QED
      BY <2>2, <3>5 DEF FactHeld, u
  <2>. QED
    BY <2>3, <2>4 DEF Held, FactHeld
<1>8. FactHeld(d, G, E)
  <2>1. At(H, <<>>) \subseteq At(G, <<n>>)
    <3>1. <<>> \in Seq(Int) /\ <<n>> \o <<>> = <<n>>
      OBVIOUS
    <3> HIDE DEF G
    <3>2. At(H, <<>>) \subseteq At(G, <<n>> \o <<>>)
      BY <1>4, <3>1
    <3>. QED
      BY <3>1, <3>2
  <2> HIDE DEF G
  <2>2. Lined(meta, At(G, <<n>>), n, y)
    BY <2>1, LinedLarger
  <2>3. FileAt(<<n, Meta>>, meta) \in E
    BY <1>5
  <2>4. Append(<<n>>, Meta) = <<n, Meta>>
    <3>1. ASSUME NEW a \in Int, NEW b \in Int PROVE Append(<<a>>, b) = <<a, b>>
      <4> DEFINE v == Append(<<a>>, b)
                 w == <<a, b>>
      <4>1. v \in Seq(Int) /\ w \in Seq(Int) /\ Len(v) = 2 /\ Len(w) = 2
        OBVIOUS
      <4>2. v[1] = w[1] /\ v[2] = w[2]
        OBVIOUS
      <4> HIDE DEF v, w
      <4>3. v = [i \in 1..2 |-> v[i]] /\ w = [i \in 1..2 |-> w[i]]
        BY <4>1
      <4>4. \A i \in 1..2 : v[i] = w[i]
        BY <4>2
      <4>5. v = w
        BY <4>3, <4>4
      <4>. QED
        BY <4>5 DEF v, w
    <3>2. Meta \in Int
      BY DEF Meta
    <3>. QED
      BY <1>2, <3>1, <3>2
  <2>5. d[1] = Dir /\ FileAt(Append(d[2], Meta), d[5]) \in E /\ Lined(d[5], At(G, d[2]), d[3], d[3] + d[4])
    BY <1>1, <1>2, <2>2, <2>3, <2>4
  <2>6. d[2] \in Seq(Int) /\ d[3] \in Nat /\ d[4] \in Nat \ {0}
    BY <1>1, <1>2
  <2>. QED
    BY <2>5, <2>6 DEF FactHeld
<1>9. Held(G, E)
  <2> SUFFICES ASSUME NEW h \in G PROVE FactHeld(h, G, E)
    BY DEF Held
  <2>1. h = d \/ \E k \in H : h = Shifted(n, k)
    OBVIOUS
  <2> HIDE DEF G
  <2>. QED
    BY <1>7, <1>8, <2>1
<1>10. <<Dir, n, y - n, meta>> \in At(G, <<>>)
  <2>1. d \in G
    OBVIOUS
  <2> HIDE DEF G
  <2>2. d[2] = Append(<<>>, d[3])
    BY <1>1, <1>2
  <2>3. <<d[1], d[3], d[4], d[5]>> \in At(G, <<>>)
    BY <2>1, <2>2, AtIs
  <2>. QED
    BY <1>1, <2>3
<1> HIDE DEF G
<1>. QED
  BY <1>9, <1>10 DEF E

\* One directory, then the next.
LEMMA WholeJoin ==
  ASSUME NEW F, NEW s, NEW E, NEW t, NEW x \in Nat, NEW y \in Nat, NEW z \in Nat, x <= y, y <= z,
         Whole(F, s, x, y), Whole(E, t, y, z)
  PROVE  Whole(F \cup E, s \o t, x, z)
<1>1. PICK G : Held(G, F) /\ Lined(s, At(G, <<>>), x, y)
  BY DEF Whole
<1>2. PICK H : Held(H, E) /\ Lined(t, At(H, <<>>), y, z)
  BY DEF Whole
<1> DEFINE K == G \cup H
<1>3. Held(K, F \cup E)
  BY <1>1, <1>2, HeldJoin
<1>4. At(G, <<>>) \subseteq At(K, <<>>) /\ At(H, <<>>) \subseteq At(K, <<>>)
  BY AtLarger
<1> HIDE DEF K
<1>5. Lined(s, At(K, <<>>), x, y) /\ Lined(t, At(K, <<>>), y, z)
  BY <1>1, <1>2, <1>4, LinedLarger
<1>6. Lined(s \o t, At(K, <<>>), x, z)
  BY <1>5, LinedJoin
<1>7. Filed(F \cup E, x, z)
  BY FiledJoin DEF Whole
<1>. QED
  BY <1>3, <1>6, <1>7 DEF Whole

\* Consecutive shards of a shelf are a shelf.
LEMMA ShelfPart ==
  ASSUME NEW shards, NEW r, Shelf(shards, r), NEW a \in Nat \ {0}, NEW b \in Nat, a <= b, b <= Len(shards)
  PROVE  PartShelf(SubSeq(shards, a, b), r, a, b)
<1> DEFINE q == SubSeq(shards, a, b)
           m == b - a + 1
<1>1. PartOf(q, shards, r, a, b)
  BY PlacedPart DEF Shelf
<1>2. m \in Nat \ {0} /\ m + 1 = b - a + 2
  OBVIOUS
<1> HIDE DEF q
<1>3. Len(q) = m
  BY <1>1 DEF PartOf
<1>4. PICK o : /\ Placed(q, o) /\ o[1] = r[a] /\ o[m + 1] = r[b + 1]
               /\ \A i \in 1..m : o[i] = r[a + i - 1] /\ q[i] = shards[a + i - 1] /\ a + i - 1 \in 1..Len(shards)
  BY <1>1 DEF PartOf
<1>5. ASSUME NEW i \in 1..m PROVE q[i].start = o[i] /\ Short(q[i].content, q[i].length)
  <2> DEFINE k == a + i - 1
  <2>1. o[i] = r[k] /\ q[i] = shards[k] /\ k \in 1..Len(shards)
    BY <1>4
  <2> HIDE DEF k
  <2>. QED
    BY <2>1 DEF Shelf
<1>6. Shelf(q, o)
  BY <1>2, <1>3, <1>4, <1>5 DEF Shelf
<1> HIDE DEF m
<1>7. Len(q) = b - a + 1
  BY <1>3 DEF m
<1>8. o[b - a + 2] = r[b + 1]
  BY <1>2, <1>4
<1>. QED
  BY <1>4, <1>6, <1>7, <1>8 DEF PartShelf, q

\* The shards of a shelf.
LEMMA WholeShards ==
  ASSUME NEW s, NEW r, Shelf(s, r)
  PROVE  IsSeq(ShardFiles(s)) /\ Whole(ToSet(ShardFiles(s)), ShardRecords(s), r[1], r[Len(s) + 1])
         /\ Len(ShardRecords(s)) = Len(s)
<1> DEFINE n == Len(s)
           fact(k) == <<Shard, <<r[k]>>, r[k], s[k].length, s[k].content>>
           H == {fact(k) : k \in 1..n}
           G == [k \in 1..n |-> {FileAt(<<r[k]>>, s[k].content)}]
           F == ToSet(ShardFiles(s))
<1>1. /\ IsSeq(s) /\ r \in [1..(n + 1) -> Nat] /\ Placed(s, r) /\ n # 0
      /\ \A k \in 1..n : s[k].length \in Nat \ {0} /\ s[k].start = r[k] /\ Short(s[k].content, s[k].length)
  BY DEF Shelf, Placed
<1>2. n \in Nat \ {0} /\ n \in Nat /\ DOMAIN s = 1..n
  BY <1>1 DEF IsSeq
<1>3. \A k \in 1..(n + 1) : r[k] \in Nat
  BY <1>1
<1>4. Ascends(r, n + 1)
  BY <1>1, PlacedAscends
<1>5. IsSeq(ShardFiles(s)) /\ F = UNION {G[k] : k \in 1..n}
  <2>1. IsSeq(ShardFiles(s)) /\ F = {FileAt(<<s[k].start>>, s[k].content) : k \in 1..n}
    BY <1>1, ShardFilesIs
  <2>2. UNION {G[k] : k \in 1..n} = {FileAt(<<r[k]>>, s[k].content) : k \in 1..n}
    OBVIOUS
  <2>3. {FileAt(<<s[k].start>>, s[k].content) : k \in 1..n} = {FileAt(<<r[k]>>, s[k].content) : k \in 1..n}
    BY <1>1
  <2>. QED
    BY <2>1, <2>2, <2>3
<1>6. \A k \in 1..n : G[k] = {FileAt(<<r[k]>>, s[k].content)}
  OBVIOUS
<1>7. \A k \in 1..n : k \in 1..(n + 1) /\ k < n + 1
  BY <1>2
<1>8. 1 \in 1..(n + 1) /\ n + 1 \in 1..(n + 1)
  BY <1>2
<1> HIDE DEF n, G, F
<1>9. Filed(F, r[1], r[n + 1])
  <2>1. ASSUME NEW k \in 1..n
        PROVE  r[k] \in Nat /\ r[1] <= r[k] /\ r[k] < r[n + 1] /\ Filed(G[k], r[k], r[k] + 1)
    <3>1. k \in 1..(n + 1) /\ k < n + 1 /\ r[k] \in Nat /\ r[1] \in Nat /\ r[n + 1] \in Nat
      BY <1>3, <1>7, <1>8
    <3>2. r[k] < r[n + 1]
      BY <1>4, <1>8, <3>1 DEF Ascends
    <3>3. k = 1 \/ 1 < k
      OBVIOUS
    <3>4. r[1] <= r[k]
      BY <1>4, <1>8, <3>1, <3>3 DEF Ascends
    <3>5. Filed(G[k], r[k], r[k] + 1)
      BY <1>6, <3>1, ShardFiled
    <3>. QED
      BY <3>1, <3>2, <3>4, <3>5
  <2>2. ASSUME NEW k \in 1..n, NEW l \in 1..n, k # l PROVE r[k] # r[l]
    BY <1>3, <1>7, <2>2, <1>4 DEF Ascends
  <2>3. n \in Nat /\ r[1] \in Nat /\ r[n + 1] \in Nat
    BY <1>2, <1>3, <1>8
  <2>4. Filed(UNION {G[k] : k \in 1..n}, r[1], r[n + 1])
    BY <2>1, <2>2, <2>3, FiledFamily
  <2>. QED
    BY <1>5, <2>4
<1>10. ASSUME NEW k \in 1..n
       PROVE  /\ fact(k)[1] = Shard /\ fact(k)[2] = <<r[k]>> /\ fact(k)[3] = r[k] /\ fact(k)[4] = s[k].length
              /\ fact(k)[5] = s[k].content
  OBVIOUS
<1>11. \A k \in 1..n : fact(k) \in H
  OBVIOUS
<1>12. \A h \in H : \E k \in 1..n : h = fact(k)
  OBVIOUS
<1> HIDE DEF H, fact
<1>13. Held(H, F)
  <2> SUFFICES ASSUME NEW h \in H PROVE FactHeld(h, H, F)
    BY DEF Held
  <2>1. PICK k \in 1..n : h = fact(k)
    BY <1>12
  <2>2. h[1] = Shard /\ h[2] = <<r[k]>> /\ h[3] = r[k] /\ h[4] = s[k].length /\ h[5] = s[k].content
    BY <1>10, <2>1
  <2>3. r[k] \in Nat /\ <<r[k]>> \in Seq(Int)
    BY <1>3, <1>7
  <2>4. FileAt(<<r[k]>>, s[k].content) \in F
    BY <1>5, <1>6
  <2>5. s[k].length \in Nat \ {0} /\ Short(s[k].content, s[k].length)
    BY <1>1 DEF n
  <2>. QED
    BY <2>2, <2>3, <2>4, <2>5 DEF FactHeld
<1>14. \A k \in 1..n : <<Shard, r[k], s[k].length, s[k].content>> \in At(H, <<>>)
  <2> SUFFICES ASSUME NEW k \in 1..n PROVE <<Shard, r[k], s[k].length, s[k].content>> \in At(H, <<>>)
    OBVIOUS
  <2> DEFINE h == fact(k)
  <2>1. h \in H /\ h[1] = Shard /\ h[2] = <<r[k]>> /\ h[3] = r[k] /\ h[4] = s[k].length /\ h[5] = s[k].content
    BY <1>10, <1>11
  <2>2. Append(<<>>, r[k]) = <<r[k]>>
    OBVIOUS
  <2> HIDE DEF h
  <2>3. h[2] = Append(<<>>, h[3])
    BY <2>1, <2>2
  <2>4. <<h[1], h[3], h[4], h[5]>> \in At(H, <<>>)
    BY <2>1, <2>3, AtIs
  <2>. QED
    BY <2>1, <2>4
<1> DEFINE T == At(H, <<>>)
<1>15. \A k \in 1..Len(s) : <<Shard, r[k], s[k].length, s[k].content>> \in T
  BY <1>14 DEF n
<1> HIDE DEF T
<1>16. Lined(ShardRecords(SubSeq(s, 1, n)), T, r[1], r[n + 1])
  <2>1. 1 \in Nat \ {0} /\ n \in Nat /\ 1 <= n + 1 /\ n <= Len(s)
    BY <1>2 DEF n
  <2>. QED
    BY ONLY <1>1, <1>15, <2>1, ShardRecordsLined
<1>17. SubSeq(s, 1, n) = s
  BY <1>1, WholeSub DEF n
<1>18. Len(ShardRecords(s)) = n
  <2> DEFINE q == ShardRecords(s)
  <2>1. q = [k \in 1..n |-> q[k]]
    BY <1>2 DEF ShardRecords
  <2> HIDE DEF q
  <2>2. Len(q) = n
    BY <1>2, <2>1, ValuesAreSeq
  <2>. QED
    BY <2>2 DEF q
<1>19. Whole(F, ShardRecords(s), r[1], r[n + 1])
  BY <1>9, <1>13, <1>16, <1>17 DEF Whole, T
<1>. QED
  BY <1>5, <1>18, <1>19 DEF n, F

\* Directories of consecutive runs of a shelf.
LEMMA WholeDirs ==
  ASSUME NEW shards, NEW r, Shelf(shards, r), NEW a \in Nat \ {0}, NEW b \in Nat, a <= b, b <= Len(shards),
         NEW c \in Nat \ {0}, NEW g, Runs(g, c, a, b), NEW E,
         \A k \in 1..c : WholeDir(E[k], r, g[k][1], g[k][2]),
         NEW s, DirRecordsOf(s, shards, g, E, c), NEW fs, DirFilesOf(fs, shards, g, E, c)
  PROVE  IsSeq(fs) /\ Whole(ToSet(fs), s, r[a], r[b + 1]) /\ IsSeq(s) /\ Len(s) = c
<1> DEFINE n == Len(shards)
           x(k) == r[g[k][1]]
           y(k) == r[g[k][2] + 1]
           unders == [k \in 1..c |-> Under(SubSeq(shards, g[k][1], g[k][2]), E[k])]
           FF == [k \in 1..c |-> UnderSet(x(k), ToSet(E[k].files), E[k].meta)]
           F == UNION {FF[k] : k \in 1..c}
<1>0. /\ \A k \in 1..c : /\ IsSeq(E[k].files) /\ Len(E[k].meta) \in 1..MetaMaxEntries
                            /\ Whole(ToSet(E[k].files), E[k].meta, r[g[k][1]], r[g[k][2] + 1])
      /\ s = [k \in 1..c |-> DirRecord(SubSeq(shards, g[k][1], g[k][2]), E[k].meta)]
      /\ fs = FlattenSeq([k \in 1..c |-> Under(SubSeq(shards, g[k][1], g[k][2]), E[k])])
  BY DEF WholeDir, DirRecordsOf, DirFilesOf
<1>1. Placed(shards, r) /\ n \in Nat /\ \A k \in 1..n : shards[k].start = r[k]
  BY SMTT(30) DEF Shelf, Placed, IsSeq
<1>2. Ascends(r, n + 1) /\ \A i \in 1..(n + 1) : r[i] \in Nat
  BY <1>1, PlacedAscends
<1>3. /\ \A k \in 1..c : g[k][1] \in a..b /\ g[k][2] \in g[k][1]..b
      /\ \A k \in 1..c : k < c => g[k + 1][1] = g[k][2] + 1
  BY RunsParts
<1> HIDE DEF n
<1>4. ASSUME NEW k \in 1..c
      PROVE  /\ x(k) \in Nat /\ y(k) \in Nat /\ x(k) < y(k) /\ r[a] <= x(k) /\ x(k) < r[b + 1]
             /\ IsSeq(Under(SubSeq(shards, g[k][1], g[k][2]), E[k]))
             /\ ToSet(Under(SubSeq(shards, g[k][1], g[k][2]), E[k])) = FF[k]
  <2> DEFINE u == g[k][1]
             v == g[k][2]
             q == SubSeq(shards, u, v)
  <2>1. u \in a..b /\ v \in u..b
    BY <1>3
  <2>2. /\ x(k) = r[u] /\ y(k) = r[v + 1]
    OBVIOUS
  <2> HIDE DEF u, v
  <2>3. u \in 1..(n + 1) /\ v + 1 \in 1..(n + 1) /\ u < v + 1 /\ u < b + 1 /\ b + 1 \in 1..(n + 1)
        /\ a \in 1..(n + 1) /\ (a = u \/ a < u) /\ u \in 1..n
    BY <1>1, <2>1 DEF n
  <2>4. r[u] \in Nat /\ r[v + 1] \in Nat /\ r[u] < r[v + 1] /\ r[u] < r[b + 1]
    BY <1>2, <2>3 DEF Ascends
  <2>5. r[a] \in Nat /\ r[a] <= r[u]
    BY <1>2, <2>3 DEF Ascends
  <2>6. q[1] = shards[u]
    BY <1>1, <2>1, <2>3, SubSeqIs DEF Placed, n
  <2>7. q[1].start = r[u]
    BY <1>1, <2>3, <2>6
  <2> HIDE DEF q
  <2>8. IsSeq(E[k].files)
    BY <1>0
  <2>9. IsSeq(Under(q, E[k])) /\ ToSet(Under(q, E[k])) = UnderSet(q[1].start, ToSet(E[k].files), E[k].meta)
    BY ONLY <2>8, UnderIs
  <2>10. FF[k] = UnderSet(r[u], ToSet(E[k].files), E[k].meta)
    BY <2>2
  <2> HIDE DEF FF, x, y
  <2>11. IsSeq(Under(q, E[k])) /\ ToSet(Under(q, E[k])) = FF[k]
    BY ONLY <2>7, <2>9, <2>10
  <2>. QED
    BY <2>2, <2>4, <2>5, <2>11 DEF q, u, v
<1>5. \A k \in 1..c : FF[k] = UnderSet(x(k), ToSet(E[k].files), E[k].meta)
  OBVIOUS
<1>6. unders = [k \in 1..c |-> unders[k]]
      /\ \A k \in 1..c : unders[k] = Under(SubSeq(shards, g[k][1], g[k][2]), E[k])
  OBVIOUS
<1>7. fs = FlattenSeq(unders)
  BY <1>0
<1> HIDE DEF unders, FF
<1>8. \A k \in 1..c : IsSeq(unders[k]) /\ ToSet(unders[k]) = FF[k]
  BY <1>4, <1>6
<1>9. IsSeq(fs) /\ ToSet(fs) = F
  <2>1. c \in Nat /\ unders = [k \in 1..c |-> unders[k]] /\ \A k \in 1..c : IsSeq(unders[k])
    BY <1>6, <1>8
  <2>2. IsSeq(FlattenSeq(unders)) /\ ToSet(FlattenSeq(unders)) = UNION {ToSet(unders[k]) : k \in 1..c}
    BY ONLY <2>1, FlattenHolds
  <2>3. UNION {ToSet(unders[k]) : k \in 1..c} = UNION {FF[k] : k \in 1..c}
    BY <1>8
  <2>. QED
    BY <1>7, <2>2, <2>3
<1>10. ASSUME NEW k \in 1..c, NEW l \in 1..c, k # l PROVE x(k) # x(l)
  <2>1. ASSUME NEW i \in 1..c, NEW j \in 1..c, i < j PROVE g[i][1] < g[j][1]
    <3> DEFINE p == [e \in 1..c |-> g[e][1]]
    <3>1. \A e \in 1..c : p[e] = g[e][1]
      OBVIOUS
    <3>2. p \in [1..c -> Nat]
      BY <1>3
    <3> HIDE DEF p
    <3>3. \A e \in 2..c : p[e - 1] < p[e]
      <4> SUFFICES ASSUME NEW e \in 2..c PROVE p[e - 1] < p[e]
        OBVIOUS
      <4> DEFINE d == e - 1
      <4>1. d \in 1..c /\ e \in 1..c /\ d < c /\ d + 1 = e
        OBVIOUS
      <4> HIDE DEF d
      <4>2. g[d + 1][1] = g[d][2] + 1 /\ g[d][1] \in a..b /\ g[d][2] \in g[d][1]..b
        BY <1>3, <4>1
      <4>3. p[d] = g[d][1] /\ p[e] = g[d][2] + 1
        BY <3>1, <4>1, <4>2
      <4>4. p[d] < p[e]
        BY <4>2, <4>3
      <4>. QED
        BY <4>4 DEF d
    <3>4. Ascends(p, c)
      BY <3>2, <3>3, StepsAscend
    <3>. QED
      BY <2>1, <3>1, <3>4 DEF Ascends
  <2>2. g[k][1] < g[l][1] \/ g[l][1] < g[k][1]
    BY <1>10, <2>1
  <2>3. g[k][1] \in 1..(n + 1) /\ g[l][1] \in 1..(n + 1)
    <3>1. g[k][1] \in a..b /\ g[l][1] \in a..b
      BY <1>3
    <3>. QED
      BY <1>1, <3>1, SMTT(30) DEF n
  <2>4. x(k) < x(l) \/ x(l) < x(k)
    BY <1>2, <2>2, <2>3 DEF Ascends
  <2>. QED
    BY <1>4, <2>4
<1>11. r[a] \in Nat /\ r[b + 1] \in Nat
  BY <1>1, <1>2 DEF n
<1>12. Filed(F, r[a], r[b + 1])
  <2> DEFINE at == [k \in 1..c |-> x(k)]
  <2>1. \A k \in 1..c : at[k] = x(k)
    OBVIOUS
  <2> HIDE DEF at, x, y
  <2>2. ASSUME NEW k \in 1..c
        PROVE  at[k] \in Nat /\ r[a] <= at[k] /\ at[k] < r[b + 1] /\ Filed(FF[k], at[k], at[k] + 1)
    <3>1. x(k) \in Nat /\ r[a] <= x(k) /\ x(k) < r[b + 1] /\ at[k] = x(k)
      BY <1>4, <2>1
    <3>2. Filed(ToSet(E[k].files), x(k), y(k)) /\ Len(E[k].meta) \in 1..MetaMaxEntries
      BY <1>0 DEF Whole, x, y
    <3>3. Filed(UnderSet(x(k), ToSet(E[k].files), E[k].meta), x(k), x(k) + 1)
      BY ONLY <3>1, <3>2, UnderFiled
    <3>. QED
      BY <1>5, <3>1, <3>3
  <2>3. \A k, l \in 1..c : k # l => at[k] # at[l]
    BY <1>10, <2>1
  <2>4. c \in Nat
    OBVIOUS
  <2>. QED
    BY ONLY <1>11, <2>2, <2>3, <2>4, FiledFamily
<1> DEFINE dir(k) == <<Dir, x(k), y(k) - x(k), E[k].meta>>
           Good(k, G) == Held(G, FF[k]) /\ dir(k) \in At(G, <<>>)
           HH == [k \in 1..c |-> CHOOSE G : Good(k, G)]
           K == UNION {HH[k] : k \in 1..c}
<1>13. ASSUME NEW k \in 1..c PROVE Good(k, HH[k])
  <2>1. \E G : Good(k, G)
    <3>1. PICK H : Held(H, ToSet(E[k].files)) /\ Lined(E[k].meta, At(H, <<>>), x(k), y(k))
      BY <1>0 DEF Whole
    <3>2. x(k) \in Nat /\ y(k) \in Nat /\ x(k) < y(k)
      BY <1>4
    <3> HIDE DEF x, y
    <3>3. \E G : Held(G, UnderSet(x(k), ToSet(E[k].files), E[k].meta))
                 /\ <<Dir, x(k), y(k) - x(k), E[k].meta>> \in At(G, <<>>)
      BY ONLY <3>1, <3>2, HeldUnder
    <3>4. FF[k] = UnderSet(x(k), ToSet(E[k].files), E[k].meta)
      BY <1>5
    <3>. QED
      BY ONLY <3>3, <3>4
  <2> HIDE DEF Good
  <2>. QED
    BY <2>1
<1> HIDE DEF HH
<1>14. Held(K, F)
  <2> SUFFICES ASSUME NEW h \in K PROVE FactHeld(h, K, F)
    BY DEF Held
  <2>1. PICK k \in 1..c : h \in HH[k]
    OBVIOUS
  <2>2. HH[k] \subseteq K /\ FF[k] \subseteq F
    OBVIOUS
  <2>3. Held(HH[k], FF[k])
    BY <1>13
  <2> HIDE DEF K, F
  <2>4. FactHeld(h, HH[k], FF[k])
    BY <2>1, <2>3 DEF Held
  <2>. QED
    BY <2>2, <2>4, FactHeldLarger
<1>15. \A k \in 1..c : <<Dir, x(k), y(k) - x(k), E[k].meta>> \in At(K, <<>>)
  <2> SUFFICES ASSUME NEW k \in 1..c PROVE dir(k) \in At(K, <<>>)
    OBVIOUS
  <2>1. HH[k] \subseteq K
    OBVIOUS
  <2>2. dir(k) \in At(HH[k], <<>>)
    BY <1>13
  <2> HIDE DEF K, dir
  <2>3. At(HH[k], <<>>) \subseteq At(K, <<>>)
    BY <2>1, AtLarger
  <2>. QED
    BY <2>2, <2>3
<1> HIDE DEF K, F
<1>16. Lined(s, At(K, <<>>), r[a], r[b + 1])
  <2> DEFINE meta == [k \in 1..c |-> E[k].meta]
             T == At(K, <<>>)
  <2>1. s = [k \in 1..c |-> DirRecord(SubSeq(shards, g[k][1], g[k][2]), meta[k])]
    BY <1>0
  <2>2. \A k \in 1..c : <<Dir, r[g[k][1]], r[g[k][2] + 1] - r[g[k][1]], meta[k]>> \in T
    BY <1>15
  <2> HIDE DEF meta, T
  <2>3. /\ Placed(shards, r) /\ a \in Nat \ {0} /\ b \in Nat /\ a <= b /\ b <= Len(shards)
        /\ c \in Nat \ {0} /\ Runs(g, c, a, b)
    BY <1>1
  <2>4. Lined(s, T, r[a], r[b + 1])
    BY ONLY <2>1, <2>2, <2>3, DirsLined, ZenonT(60)
  <2>. QED
    BY <2>4 DEF T
<1>17. Whole(F, s, r[a], r[b + 1])
  BY <1>12, <1>14, <1>16 DEF Whole
<1>18. IsSeq(s) /\ Len(s) = c
  BY <1>0, c \in Nat, ValuesAreSeq
<1>. QED
  BY <1>9, <1>17, <1>18

\* The parts of a directory that emitDir emits.
LEMMA EmitParts ==
  ASSUME NEW f, NEW shards, Emits(f, shards), NEW a, NEW b, <<a, b>> \in (1..Len(shards)) \X (1..Len(shards)),
         NEW g, g = Nested(a, b), NEW c, DOMAIN g = 1..c,
         NEW head, head = SubSeq(shards, a, a + HeadCount(b - a + 1) - 1),
         NEW E, E = [k \in 1..c |-> f[g[k]]]
  PROVE  EmittedOf(f[<<a, b>>], shards, g, E, c, head)
<1> DEFINE x == <<a, b>>
           fs == FlattenSeq([k \in DOMAIN g |-> Under(SubSeq(shards, g[k][1], g[k][2]), f[g[k]])])
           s == [k \in DOMAIN g |-> DirRecord(SubSeq(shards, g[k][1], g[k][2]), f[g[k]].meta)]
<1>1. x[1] = a /\ x[2] = b /\ x \in (1..Len(shards)) \X (1..Len(shards))
  OBVIOUS
<1> HIDE DEF x
<1>2. f[x] = EmitBody(f, shards, x)
  BY ONLY <1>1, Emits(f, shards) DEF Emits
<1>3. g = Nested(x[1], x[2]) /\ head = SubSeq(shards, x[1], x[1] + HeadCount(x[2] - x[1] + 1) - 1)
  BY <1>1, SMTT(30)
<1>4. EmitBody(f, shards, x).files = fs \o ShardFiles(head)
      /\ EmitBody(f, shards, x).meta = ShardRecords(head) \o s
  BY ONLY <1>3 DEF EmitBody
<1>5. DirFilesOf(fs, shards, g, E, c)
  BY DEF DirFilesOf
<1>6. DirRecordsOf(s, shards, g, E, c)
  BY DEF DirRecordsOf
<1> HIDE DEF fs, s
<1>7. EmittedOf(f[x], shards, g, E, c, head)
  BY ONLY <1>2, <1>4, <1>5, <1>6 DEF EmittedOf
<1>. QED
  BY <1>7 DEF x

\* A directory is whole when its subdirectories are.
LEMMA BodyWhole ==
  ASSUME NEW shards, NEW r, Shelf(shards, r), NEW f, Emits(f, shards),
         NEW a \in Nat \ {0}, NEW b \in Nat, a <= b, b <= Len(shards),
         \A u \in 1..Len(shards) : \A v \in u..Len(shards) : v - u < b - a => WholeDir(f[<<u, v>>], r, u, v)
  PROVE  WholeDir(f[<<a, b>>], r, a, b)
<1> DEFINE N == Len(shards)
           h == HeadCount(b - a + 1)
           rest == a + h
           g == Nested(a, b)
           head == SubSeq(shards, a, a + h - 1)
           X == f[<<a, b>>]
<1>1. Placed(shards, r) /\ N \in Nat /\ IsSeq(shards)
  BY DEF Shelf, Placed, IsSeq
<1>2. b - a + 1 \in Nat \ {0} /\ a \in 1..N /\ b \in 1..N
  BY <1>1
<1>3. h \in 1..(b - a + 1)
  BY <1>2, HeadCountIs
<1>4. rest = a + h /\ rest \in Nat /\ rest - 1 = a + h - 1 /\ head = SubSeq(shards, a, a + h - 1)
  BY <1>3
<1>5. g = Nested(a, b) /\ h = HeadCount(b - a + 1)
  OBVIOUS
<1> HIDE DEF rest, X, h, head
<1>6. rest \in (a + 1)..(b + 1) /\ NestsFrom(a, b, rest)
  BY <1>4, <1>5, NestedRuns
<1>7. PICK c \in Nat : /\ Runs(g, c, rest, b) /\ (c = 0 <=> rest = b + 1)
                       /\ c + HeadCount(b - a + 1) <= MetaMaxEntries
                       /\ \A k \in 1..c : g[k] = <<g[k][1], g[k][2]>>
  BY ONLY <1>6 DEF g, NestsFrom
<1>8. DOMAIN g = 1..c /\ \A k \in 1..c : g[k][1] \in rest..b /\ g[k][2] \in g[k][1]..b
  BY <1>7, RunsParts
<1> HIDE DEF g
<1> DEFINE E == [k \in 1..c |-> f[g[k]]]
<1>9. E = [k \in 1..c |-> f[g[k]]] /\ \A k \in 1..c : E[k] = f[g[k]]
  OBVIOUS
<1> HIDE DEF E
<1>10. EmittedOf(X, shards, g, E, c, head)
  BY <1>2, <1>4, <1>5, <1>9, <1>8, EmitParts DEF N, X
<1>11. PICK fs, s : /\ DirFilesOf(fs, shards, g, E, c) /\ DirRecordsOf(s, shards, g, E, c)
                    /\ X.files = fs \o ShardFiles(head) /\ X.meta = ShardRecords(head) \o s
  BY ONLY <1>10 DEF EmittedOf
<1>12. /\ IsSeq(ShardFiles(head)) /\ Len(ShardRecords(head)) = h
       /\ Whole(ToSet(ShardFiles(head)), ShardRecords(head), r[a], r[rest])
  <2> DEFINE e == rest - 1
  <2>1. a \in Nat \ {0} /\ e \in Nat /\ a <= e /\ e <= Len(shards) /\ e + 1 = rest /\ e - a + 1 = h
        /\ e - a + 2 = h + 1
    <3>1. h \in Nat /\ 1 <= h /\ a + h <= b + 1 /\ N \in Nat /\ b <= N
      BY ONLY <1>1, <1>3, a \in Nat \ {0}, b \in Nat, b <= Len(shards) DEF N
    <3> HIDE DEF N
    <3>2. e = a + h - 1 /\ e + 1 = rest
      BY ONLY <1>4, <3>1, a \in Nat \ {0} DEF e
    <3>3. e \in Nat /\ a <= e /\ e <= N /\ e - a + 1 = h /\ e - a + 2 = h + 1
      BY ONLY <3>1, <3>2, a \in Nat \ {0}, b \in Nat
    <3>. QED
      BY <3>2, <3>3 DEF N
  <2>2. head = SubSeq(shards, a, e)
    BY <1>4
  <2> HIDE DEF e
  <2>3. PartShelf(head, r, a, e)
    BY <2>1, <2>2, ShelfPart
  <2>4. Len(head) = h
    BY <2>1, <2>3 DEF PartShelf
  <2>5. PICK o : Shelf(head, o) /\ o[1] = r[a] /\ o[h + 1] = r[rest]
    BY <2>1, <2>3 DEF PartShelf
  <2>. QED
    BY <2>4, <2>5, WholeShards
<1>13. ASSUME NEW k \in 1..c PROVE WholeDir(E[k], r, g[k][1], g[k][2])
  <2> DEFINE u == g[k][1]
             v == g[k][2]
  <2>1. u \in rest..b /\ v \in u..b /\ g[k] = <<u, v>> /\ E[k] = f[g[k]]
    BY <1>7, <1>8, <1>9
  <2> HIDE DEF u, v
  <2>2. u \in 1..Len(shards) /\ v \in u..Len(shards) /\ v - u < b - a
    BY <1>1, <1>6, <2>1 DEF N
  <2>3. WholeDir(f[<<u, v>>], r, u, v)
    BY <2>2
  <2>. QED
    BY <2>1, <2>3 DEF u, v
<1>14. IsSeq(ShardRecords(head))
  BY <1>12 DEF Whole, Lined
<1>15. CASE c = 0
  <2>1. s = <<>> /\ fs = <<>>
    BY <1>11, <1>15 DEF DirRecordsOf, FlattenSeq, DirFilesOf
  <2>2. rest = b + 1
    BY <1>7, <1>15
  <2>3. ShardRecords(head) \o <<>> = ShardRecords(head)
    BY <1>14 DEF IsSeq
  <2>4. <<>> \o ShardFiles(head) = ShardFiles(head)
    BY <1>12 DEF IsSeq
  <2>5. X.files = ShardFiles(head) /\ X.meta = ShardRecords(head)
    BY <1>11, <2>1, <2>3, <2>4
  <2>6. h \in 1..MetaMaxEntries
    BY <1>3, <1>5, <1>7, <1>15, TreeAssumption
  <2>7. IsSeq(X.files) /\ Len(X.meta) \in 1..MetaMaxEntries
    BY <1>12, <2>5, <2>6
  <2>8. Whole(ToSet(X.files), X.meta, r[a], r[b + 1])
    BY <1>12, <2>2, <2>5
  <2>. QED
    BY <2>7, <2>8 DEF WholeDir, X
<1>16. CASE c # 0
  <2>1. c \in Nat \ {0} /\ rest \in Nat \ {0} /\ b \in Nat /\ rest <= b /\ b <= Len(shards) /\ Runs(g, c, rest, b)
    BY <1>7, <1>16, <1>6
  <2>2. Shelf(shards, r) /\ DirFilesOf(fs, shards, g, E, c) /\ DirRecordsOf(s, shards, g, E, c)
    BY <1>11
  <2>3. IsSeq(fs) /\ Whole(ToSet(fs), s, r[rest], r[b + 1]) /\ IsSeq(s) /\ Len(s) = c
    BY ONLY <1>13, <2>1, <2>2, WholeDirs
  <2>4. r[a] \in Nat /\ r[rest] \in Nat /\ r[b + 1] \in Nat /\ r[a] <= r[rest] /\ r[rest] <= r[b + 1]
    BY <1>1, <1>2, <1>6, <2>1, PlacedAscends DEF Ascends
  <2>5. Whole(ToSet(ShardFiles(head)) \cup ToSet(fs), ShardRecords(head) \o s, r[a], r[b + 1])
    BY ONLY <1>12, <2>3, <2>4, WholeJoin
  <2>6. IsSeq(X.files) /\ ToSet(X.files) = ToSet(fs) \cup ToSet(ShardFiles(head))
    BY ONLY <1>11, <1>12, <2>3, JoinSet
  <2>7. ToSet(X.files) = ToSet(ShardFiles(head)) \cup ToSet(fs)
    BY <2>6
  <2>8. Whole(ToSet(X.files), X.meta, r[a], r[b + 1])
    BY <1>11, <2>5, <2>7
  <2>9. Len(X.meta) = h + c
    BY ONLY <1>11, <1>12, <1>14, <2>3, JoinIs
  <2>10. Len(X.meta) \in 1..MetaMaxEntries
    BY <1>3, <1>5, <1>7, <2>9, TreeAssumption, SMTT(30)
  <2>. QED
    BY <2>6, <2>8, <2>10 DEF WholeDir, X
<1>. QED
  BY <1>15, <1>16

\* What EmitDir emits is a whole directory of its shards.
LEMMA EmitWhole ==
  ASSUME NEW shards, NEW r, Shelf(shards, r)
  PROVE  WholeDir(EmitDir(shards), r, 1, Len(shards))
<1> DEFINE N == Len(shards)
           f == CHOOSE f : Emits(f, shards)
           Fine(m) == \A u \in 1..N : \A v \in u..N : v - u < m => WholeDir(f[<<u, v>>], r, u, v)
           T == {m \in 0..N : Fine(m)}
<1>1. N \in Nat \ {0} /\ N \in Nat
  BY DEF Shelf, Placed, IsSeq
<1>2. Emits(f, shards)
  BY <1>1, EmitsExist
<1>3. EmitDir(shards) = f[<<1, N>>]
  BY DEF EmitDir, Emits, EmitBody
<1> HIDE DEF f, N
<1>4. 0 \in T
  BY <1>1
<1>5. ASSUME NEW k \in 0..N, k \in T, k < N PROVE k + 1 \in T
  <2>1. k + 1 \in 0..N /\ Fine(k)
    BY <1>1, <1>5
  <2>2. ASSUME NEW u \in 1..N, NEW v \in u..N, v - u < k + 1 PROVE WholeDir(f[<<u, v>>], r, u, v)
    <3>1. CASE v - u < k
      BY <2>1, <3>1
    <3>2. CASE v - u = k
      BY <1>1, <2>1, <3>2, <1>2, BodyWhole DEF N
    <3>. QED
      BY <2>2, <3>1, <3>2
  <2>3. Fine(k + 1)
    BY <2>2
  <2>. QED
    BY <2>1, <2>3
<1> HIDE DEF T
<1>6. \A k \in 0..N : k \in T
  BY <1>1, <1>4, <1>5, Ascent
<1>7. Fine(N)
  BY <1>1, <1>6 DEF T
<1>8. 1 \in 1..N /\ N \in 1..N /\ N - 1 < N
  BY <1>1
<1>9. WholeDir(f[<<1, N>>], r, 1, N)
  BY <1>7, <1>8
<1>. QED
  BY <1>3, <1>9 DEF N

-----------------------------------------------------------------------------
(***************************************************************************)
(* All the files of a pack.                                                *)
(***************************************************************************)
\* The last leaf of a shard begins before the shard ends.
LEMMA ShardShort ==
  ASSUME NEW D, NEW p, IsLine(D, p), NEW x, NEW span, NEW content, ShardOf(D, p, <<Shard, x, span, content>>)
  PROVE  Short(content, span)
<1> DEFINE t == <<Shard, x, span, content>>
<1>1. t[2] = x /\ t[3] = span /\ t[4] = content
  OBVIOUS
<1> HIDE DEF t
<1>2. PICK a, b \in 1..Len(D) : /\ a <= b /\ t[3] = p[b + 1] - p[a]
                                /\ t[4] = EncodeShard(SubSeq(D, a, b))
  BY DEF ShardOf, t
<1> DEFINE q == SubSeq(D, a, b)
           m == b - a + 1
           n == Len(D)
<1>3. /\ IsSeq(D) /\ n \in Nat /\ p \in [1..(n + 1) -> Nat]
      /\ \A i \in 1..n : D[i].length \in Nat \ {0} /\ p[i + 1] = p[i] + D[i].length /\ D[i].offset = p[i]
  BY DEF IsLine, Placed, IsSeq
<1>4. a \in Nat \ {0} /\ b \in Nat /\ a <= b + 1 /\ b <= Len(D) /\ m \in Nat \ {0} /\ a + m - 1 = b /\ a + 1 - 1 = a
      /\ a \in 1..n /\ b \in 1..n
  BY <1>2, <1>3
<1>5. DOMAIN q = 1..m /\ \A i \in 1..m : q[i] = D[a + i - 1]
  BY <1>3, <1>4, SubSeqIs
<1> HIDE DEF q, m, n
<1>6. 1 \in 1..m /\ m \in 1..m
  BY <1>4
<1>7. q[1] = D[a] /\ q[m] = D[b]
  BY <1>4, <1>5, <1>6
<1>8. content = [i \in 1..m |-> [rel |-> q[i].offset - q[1].offset, digest |-> q[i].digest]]
  BY <1>1, <1>2, <1>5 DEF EncodeShard, q
<1>9. content = [i \in 1..m |-> content[i]] /\ content[m].rel = q[m].offset - q[1].offset
  BY <1>6, <1>8
<1>10. Len(content) = m
  BY <1>4, <1>9, ValuesAreSeq
<1>11. content[m].rel = p[b] - p[a] /\ span = p[b + 1] - p[a] /\ p[b + 1] = p[b] + D[b].length
  BY <1>1, <1>2, <1>3, <1>4, <1>7, <1>9
<1>12. p[a] \in Nat /\ p[b] \in Nat /\ D[b].length \in Nat \ {0}
  BY <1>3, <1>4
<1>. QED
  BY <1>10, <1>11, <1>12, SMTT(30) DEF Short

\* The shards of a band are a shelf.
LEMMA BandShelf ==
  ASSUME NEW D, NEW p, IsLine(D, p), NEW lo \in 1..Len(D), NEW hi \in lo..Len(D),
         NEW shards, shards = ShardGroups(SubSeq(D, lo, hi))
  PROVE  ShelfBetween(shards, p[lo], p[hi + 1])
<1>1. Len(shards) # 0 /\ \E r : GroupsAt(shards, r, D, p, lo, hi)
  BY GroupsAre
<1>2. PICK r : /\ Placed(shards, r) /\ r[1] = p[lo] /\ r[Len(shards) + 1] = p[hi + 1]
               /\ \A k \in 1..Len(shards) :
                     /\ shards[k].start = r[k]
                     /\ ShardOf(D, p, <<Shard, r[k], shards[k].length, shards[k].content>>)
  BY <1>1 DEF GroupsAt
<1>3. ASSUME NEW k \in 1..Len(shards) PROVE shards[k].start = r[k] /\ Short(shards[k].content, shards[k].length)
  BY <1>2, ShardShort
<1>4. Shelf(shards, r)
  BY <1>1, <1>2, <1>3 DEF Shelf
<1>. QED
  BY <1>2, <1>4 DEF ShelfBetween

\* No files at all.
LEMMA NothingWhole ==
  ASSUME NEW x \in Nat, NEW tree, tree.files = <<>>, tree.entries = <<>>
  PROVE  WholeTree(tree, x, x)
<1> DEFINE q == <<>>
           p == [i \in 1..1 |-> x]
           H == {}
<1>1. q = [i \in 1..0 |-> q[i]] /\ DOMAIN q = {}
  OBVIOUS
<1>2. p[1] = x /\ p \in [1..1 -> Nat]
  OBVIOUS
<1> HIDE DEF p, q
<1>3. IsSeq(q) /\ Len(q) = 0 /\ ToSet(q) = {}
  BY <1>1, ValuesAreSeq DEF ToSet
<1>4. LinedAt(q, At(H, <<>>), p, x, x)
  BY <1>2, <1>3 DEF LinedAt
<1>5. Lined(q, At(H, <<>>), x, x)
  BY <1>2, <1>3, <1>4 DEF Lined
<1>6. Held(H, ToSet(q)) /\ Filed(ToSet(q), x, x)
  BY <1>3 DEF Held, Filed
<1>7. Whole(ToSet(q), q, x, x)
  BY <1>5, <1>6 DEF Whole
<1>8. tree.files = q /\ tree.entries = q
  BY DEF q
<1>. QED
  BY <1>3, <1>7, <1>8 DEF WholeTree

\* Some files more.
LEMMA WholeMore ==
  ASSUME NEW tree, NEW x \in Nat, NEW y \in Nat, NEW z \in Nat, x <= y, y <= z, WholeTree(tree, x, y),
         NEW fs, IsSeq(fs), NEW s, Whole(ToSet(fs), s, y, z),
         NEW new, new.files = tree.files \o fs, new.entries = tree.entries \o s
  PROVE  WholeTree(new, x, z)
<1>1. IsSeq(tree.files) /\ Whole(ToSet(tree.files), tree.entries, x, y)
  BY DEF WholeTree
<1>2. IsSeq(tree.files \o fs) /\ ToSet(tree.files \o fs) = ToSet(tree.files) \cup ToSet(fs)
  BY <1>1, JoinSet
<1>3. Whole(ToSet(tree.files) \cup ToSet(fs), tree.entries \o s, x, z)
  BY <1>1, WholeJoin
<1>. QED
  BY <1>2, <1>3 DEF WholeTree

\* One more band.
LEMMA PlaceBandWhole ==
  ASSUME NEW D, NEW p, IsLine(D, p), NEW lo \in 1..Len(D), NEW hi \in lo..Len(D),
         NEW tree, WholeTree(tree, p[1], p[lo])
  PROVE  WholeTree(PlaceBand(tree, SubSeq(D, lo, hi)), p[1], p[hi + 1])
<1> DEFINE band == SubSeq(D, lo, hi)
           shards == ShardGroups(band)
           n == Len(shards)
           later == tree.later - 1
           Fits(m) == Len(tree.entries) + m + later <= TopMaxEntries
           y == IF SubMetaMaxEntries < MetaMaxEntries THEN SubMetaMaxEntries ELSE MetaMaxEntries
           subs == CeilDiv(n, y)
           count == IF Fits(subs) THEN subs ELSE 1
           chunks == SplitEvenly(shards, count)
           drecs == [k \in DOMAIN chunks |-> DirRecord(chunks[k], EmitDir(chunks[k]).meta)]
           dfiles == FlattenSeq([k \in DOMAIN chunks |-> Under(chunks[k], EmitDir(chunks[k]))])
           new == PlaceBand(tree, band)
<1>1. PICK r : Shelf(shards, r) /\ r[1] = p[lo] /\ r[n + 1] = p[hi + 1]
  <2>1. shards = ShardGroups(SubSeq(D, lo, hi))
    BY SMTT(30)
  <2> HIDE DEF shards
  <2>2. ShelfBetween(shards, p[lo], p[hi + 1])
    BY ONLY <2>1, IsLine(D, p), BandShelf, Zenon
  <2>. QED
    BY <2>2 DEF ShelfBetween
<1>2. \/ new.files = tree.files \o ShardFiles(shards) /\ new.entries = tree.entries \o ShardRecords(shards)
      \/ new.files = tree.files \o dfiles /\ new.entries = tree.entries \o drecs
  BY DEF PlaceBand
<1> HIDE DEF shards, band, new
<1>3. Placed(shards, r) /\ IsSeq(shards) /\ n \in Nat \ {0} /\ n \in Nat
  BY <1>1 DEF Shelf, Placed, IsSeq
<1>4. IsSeq(ShardFiles(shards)) /\ Whole(ToSet(ShardFiles(shards)), ShardRecords(shards), r[1], r[n + 1])
  BY <1>1, WholeShards
<1>5. IsSeq(dfiles) /\ Whole(ToSet(dfiles), drecs, r[1], r[n + 1])
  <2>1. y \in Nat \ {0}
    BY TreeAssumption
  <2> HIDE DEF y
  <2>2. subs \in 1..n
    BY <1>3, <2>1, DirsWithin
  <2> HIDE DEF n, subs, Fits
  <2>3. count \in Nat \ {0} /\ count <= n
    BY <1>3, <2>2
  <2> HIDE DEF count
  <2> DEFINE firsts == [i \in 1..count |-> 1 + (i - 1) * (n \div count)
                                             + (IF i - 1 < n % count THEN i - 1 ELSE n % count)]
  <2>4. chunks = SplitAt(shards, firsts)
    BY DEF SplitEvenly, n
  <2>5. firsts = [i \in 1..count |-> 1 + (i - 1) * (n \div count)
                                       + (IF i - 1 < n % count THEN i - 1 ELSE n % count)]
    OBVIOUS
  <2> HIDE DEF firsts, chunks
  <2>6. Begins(firsts, count, n)
    BY ONLY <1>3, <2>3, <2>5, EvenBegins
  <2>7. PICK g : CutInto(chunks, shards, count, g)
    BY <1>3, <2>4, <2>6, SplitIs DEF n
  <2>8. /\ Runs(g, count, 1, n) /\ IsSeq(chunks) /\ Len(chunks) = count
        /\ \A k \in 1..count : chunks[k] = SubSeq(shards, g[k][1], g[k][2])
    BY <2>7 DEF CutInto, n
  <2>9. DOMAIN chunks = 1..count
    BY <2>8 DEF IsSeq
  <2> DEFINE E == [k \in 1..count |-> EmitDir(chunks[k])]
  <2>10. E = [k \in 1..count |-> E[k]] /\ \A k \in 1..count : E[k] = EmitDir(chunks[k])
    OBVIOUS
  <2>11. DirRecordsOf(drecs, shards, g, E, count)
    <3>1. drecs = [k \in 1..count |-> DirRecord(SubSeq(shards, g[k][1], g[k][2]), E[k].meta)]
      BY <2>8, <2>9
    <3> HIDE DEF drecs, E
    <3>. QED
      BY ONLY <3>1 DEF DirRecordsOf
  <2>12. DirFilesOf(dfiles, shards, g, E, count)
    <3>1. [k \in DOMAIN chunks |-> Under(chunks[k], EmitDir(chunks[k]))]
            = [k \in 1..count |-> Under(SubSeq(shards, g[k][1], g[k][2]), E[k])]
      BY <2>8, <2>9
    <3>2. dfiles = FlattenSeq([k \in DOMAIN chunks |-> Under(chunks[k], EmitDir(chunks[k]))])
      OBVIOUS
    <3> HIDE DEF dfiles, E
    <3>. QED
      BY ONLY <3>1, <3>2 DEF DirFilesOf
  <2> HIDE DEF E, drecs, dfiles
  <2>13. ASSUME NEW k \in 1..count PROVE WholeDir(E[k], r, g[k][1], g[k][2])
    <3> DEFINE a == g[k][1]
               b == g[k][2]
               q == SubSeq(shards, a, b)
    <3>1. a \in 1..n /\ b \in a..n
      BY ONLY <2>8, k \in 1..count, RunsParts
    <3>2. E[k] = EmitDir(q)
      BY <2>8, <2>10
    <3> HIDE DEF a, b
    <3>3. a \in Nat \ {0} /\ b \in Nat /\ a <= b /\ b <= Len(shards)
      BY <1>3, <3>1 DEF n
    <3>4. PartShelf(q, r, a, b)
      BY <1>1, <3>3, ShelfPart
    <3> HIDE DEF q
    <3>5. Len(q) = b - a + 1
      BY <3>4 DEF PartShelf
    <3>6. PICK o : Shelf(q, o) /\ o[1] = r[a] /\ o[b - a + 2] = r[b + 1]
      BY <3>4 DEF PartShelf
    <3>7. Len(q) + 1 = b - a + 2
      BY <3>3, <3>5
    <3>8. WholeDir(EmitDir(q), o, 1, Len(q))
      BY <3>6, EmitWhole
    <3>9. WholeDir(EmitDir(q), r, a, b)
      BY <3>6, <3>7, <3>8 DEF WholeDir
    <3>. QED
      BY <3>2, <3>9 DEF a, b
  <2>14. 1 \in Nat \ {0} /\ n \in Nat /\ 1 <= n /\ n <= Len(shards) /\ count \in Nat \ {0}
    BY <1>3, <2>3 DEF n
  <2>15. Shelf(shards, r)
    BY <1>1
  <2>16. Runs(g, count, 1, n)
    BY <2>8
  <2>. QED
    BY ONLY <2>11, <2>12, <2>13, <2>14, <2>15, <2>16, WholeDirs
<1> HIDE DEF dfiles, drecs, n
<1>6. p[1] \in Nat /\ p[lo] \in Nat /\ p[hi + 1] \in Nat /\ p[1] <= p[lo] /\ p[lo] <= p[hi + 1]
  <2> DEFINE N == Len(D)
  <2>1. N \in Nat /\ Placed(D, p)
    BY DEF IsLine, Placed, IsSeq
  <2>2. Ascends(p, N + 1) /\ \A i \in 1..(N + 1) : p[i] \in Nat
    BY <2>1, PlacedAscends
  <2> HIDE DEF N
  <2>3. 1 \in 1..(N + 1) /\ lo \in 1..(N + 1) /\ hi + 1 \in 1..(N + 1) /\ lo < hi + 1 /\ (lo = 1 \/ 1 < lo)
    BY <2>1 DEF N
  <2>. QED
    BY <2>2, <2>3 DEF Ascends
<1>7. CASE new.files = tree.files \o ShardFiles(shards) /\ new.entries = tree.entries \o ShardRecords(shards)
  BY <1>1, <1>4, <1>6, <1>7, WholeMore DEF new, band
<1>8. CASE new.files = tree.files \o dfiles /\ new.entries = tree.entries \o drecs
  BY <1>1, <1>5, <1>6, <1>8, WholeMore DEF new, band
<1>. QED
  BY <1>2, <1>7, <1>8

-----------------------------------------------------------------------------
(***************************************************************************)
(* A client that has all the files of a pack misses none.                  *)
(***************************************************************************)
\* The path of an entry.
LEMMA AppendIs ==
  ASSUME NEW P \in Seq(Int), NEW x \in Int
  PROVE  Append(P, x) \in Seq(Int) /\ Len(Append(P, x)) = Len(P) + 1 /\ Last(Append(P, x)) = x
<1> DEFINE q == Append(P, x)
           m == Len(P)
<1>1. m \in Nat /\ q \in Seq(Int) /\ Len(q) = m + 1 /\ q[m + 1] = x
  OBVIOUS
<1> HIDE DEF q, m
<1>2. Last(q) = x
  BY <1>1 DEF Last
<1>. QED
  BY <1>1, <1>2 DEF q, m

\* The entries of a directory of H.
LEMMA EntriesNamed ==
  ASSUME NEW F, NEW H, Held(H, F), NEW dir, dir.path \in Seq(Int), dir.offset \in Nat, dir.length \in Nat \ {0},
         Lined(dir.digest, At(H, dir.path), dir.offset, dir.offset + dir.length), MetaEncodes(dir.digest),
         NEW d, d = Len(dir.path) + 1, NEW start, NEW end
  PROVE  AllNamed(Entries(dir, start, end), H, d)
<1> DEFINE m == dir.digest
           n == Len(m)
           x == dir.offset
           P == dir.path
           g == [i \in DOMAIN m |->
                  LET offset == dir.offset + Offsets(m)[i]
                  IN  [kind |-> m[i].kind, path |-> Append(dir.path, offset), offset |-> offset,
                       length |-> m[i].length, digest |-> m[i].digest]]
           W == {i \in DOMAIN m : Overlaps(g[i], start, end)}
           T == At(H, P)
<1>1. IsSeq(m) /\ DOMAIN m = 1..n /\ n \in Nat
  BY DEF Lined, IsSeq
<1>2. x \in Nat /\ Lined(m, T, x, x + dir.length) /\ P \in Seq(Int)
  OBVIOUS
<1>3. m # <<>>
  <2>1. SUFFICES ASSUME m = <<>> PROVE FALSE
    OBVIOUS
  <2>2. n = 0
    BY <2>1
  <2> HIDE DEF m, n, T, x
  <2>3. PICK q \in [1..(n + 1) -> Nat] : LinedAt(m, T, q, x, x + dir.length)
    BY <1>2 DEF Lined, n
  <2>4. q[1] = x /\ q[n + 1] = x + dir.length
    BY <2>3 DEF LinedAt, n
  <2>5. x = x + dir.length
    BY <2>2, <2>4
  <2>. QED
    BY <1>2, <2>5
<1>4. Entries(dir, start, end) = Selected(g, W)
  <2>1. SpanOf(m) = dir.length
    <3> HIDE DEF m, T, x
    <3>1. SpanOf(m) = (x + dir.length) - x
      BY <1>2, LinedOffsets
    <3>. QED
      BY <1>2, <3>1
  <2>2. MetaDecodes(m, dir.length)
    BY <1>3, <2>1 DEF MetaDecodes
  <2>. QED
    BY <2>2 DEF Entries
<1>5. \A i \in 1..n : /\ g[i].kind = m[i].kind /\ g[i].offset = x + Offsets(m)[i]
                      /\ g[i].length = m[i].length /\ g[i].digest = m[i].digest
                      /\ g[i].path = Append(P, x + Offsets(m)[i])
  BY <1>1
<1>6. W \in SUBSET (1..n)
  BY <1>1
<1> HIDE DEF g, n, W, m, T, x
<1>7. \A i \in DOMAIN m : <<m[i].kind, x + Offsets(m)[i], m[i].length, m[i].digest>> \in T
  BY <1>2, LinedOffsets
<1>8. ASSUME NEW i \in 1..n PROVE Named(g[i], H, d)
  <2> DEFINE o == x + Offsets(m)[i]
  <2>1. <<m[i].kind, o, m[i].length, m[i].digest>> \in At(H, P)
    BY <1>1, <1>7 DEF T
  <2>2. PICK h \in H : h[2] = Append(P, h[3]) /\ <<m[i].kind, o, m[i].length, m[i].digest>> = <<h[1], h[3], h[4], h[5]>>
    <3> DEFINE t == <<m[i].kind, o, m[i].length, m[i].digest>>
    <3>1. t \in At(H, P)
      BY <2>1
    <3> HIDE DEF t
    <3>2. \E h \in H : h[2] = Append(P, h[3]) /\ t = <<h[1], h[3], h[4], h[5]>>
      BY ONLY <3>1, AtFrom
    <3>. QED
      BY ONLY <3>2 DEF t
  <2>3. m[i].kind = h[1] /\ o = h[3] /\ m[i].length = h[4] /\ m[i].digest = h[5]
    BY <2>2
  <2>4. h[3] \in Nat /\ h[3] \in Int
    BY DEF Held, FactHeld
  <2>5. g[i].kind = h[1] /\ g[i].path = Append(P, h[3]) /\ g[i].offset = h[3] /\ g[i].length = h[4] /\ g[i].digest = h[5]
    BY <1>5, <2>3
  <2>6. Len(Append(P, h[3])) = Len(P) + 1 /\ Last(Append(P, h[3])) = h[3]
    BY <1>2, <2>4, AppendIs
  <2>. QED
    BY <2>2, <2>5, <2>6 DEF Named
<1>9. IsFiniteSet(W) /\ W \in SUBSET Nat
  <2>1. IsFiniteSet(1..n) /\ 1..n \subseteq Nat
    BY <1>1, FS_Interval
  <2>. QED
    BY <1>6, <2>1, FS_Subset
<1> DEFINE q == Selected(g, W)
<1>10. IsSeq(q) /\ \A i \in DOMAIN q : \E j \in W : q[i] = g[j]
  BY ONLY <1>9, SelectedIn
<1> HIDE DEF q
<1>11. AllNamed(q, H, d)
  BY <1>6, <1>8, <1>10 DEF AllNamed
<1>. QED
  BY <1>4, <1>11 DEF q

\* One level down.
LEMMA DescendNamed ==
  ASSUME NEW F, NEW H, Held(H, F), NEW store, Served(F, store), NEW d \in Nat, NEW es, AllNamed(es, H, d),
         NEW start, NEW end
  PROVE  AllNamed(Descend(es, start, end, store), H, d + 1)
<1> DEFINE gs == [i \in DOMAIN es |-> Below(es[i], start, end, store)]
           n == Len(es)
<1>1. n \in Nat /\ DOMAIN es = 1..n /\ \A i \in 1..n : Named(es[i], H, d)
  BY DEF AllNamed, IsSeq
<1>2. ASSUME NEW i \in 1..n PROVE AllNamed(gs[i], H, d + 1)
  <2> DEFINE e == es[i]
  <2>1. Named(e, H, d) /\ gs[i] = Below(e, start, end, store)
    BY <1>1
  <2> HIDE DEF e, gs
  <2>2. PICK h \in H : e.kind = h[1] /\ e.path = h[2] /\ e.offset = h[3] /\ e.length = h[4] /\ e.digest = h[5]
    BY <2>1 DEF Named
  <2>3. CASE e.kind # Dir
    <3> DEFINE q == <<e>>
    <3>1. gs[i] = q
      BY <2>1, <2>3 DEF Below
    <3>2. q = [k \in 1..1 |-> q[k]] /\ q[1] = e
      OBVIOUS
    <3> HIDE DEF q
    <3>3. IsSeq(q) /\ DOMAIN q = 1..1
      BY <3>2, ValuesAreSeq
    <3>4. Named(e, H, d + 1)
      BY <2>1, <2>3 DEF Named
    <3>5. \A k \in 1..1 : q[k] = e
      BY <3>2
    <3>. QED
      BY <3>1, <3>3, <3>4, <3>5 DEF AllNamed
  <2>4. CASE e.kind = Dir
    <3>1. /\ h[2] \in Seq(Int) /\ h[3] \in Nat /\ h[4] \in Nat \ {0}
          /\ FileAt(Append(h[2], Meta), h[5]) \in F /\ Lined(h[5], At(H, h[2]), h[3], h[3] + h[4])
      BY <2>2, <2>4 DEF Held, FactHeld, Shard, Dir
    <3> DEFINE u == FileAt(Append(h[2], Meta), h[5])
    <3>2. u \in F /\ u.path = Append(h[2], Meta) /\ u.content = h[5]
      BY <3>1 DEF FileAt
    <3> HIDE DEF u
    <3>3. Last(u.path) = Meta
      BY <3>1, <3>2, AppendIs DEF Meta
    <3>4. Supplies(store, Append(e.path, Meta), e.digest) /\ MetaEncodes(e.digest)
      BY <2>2, <3>2, <3>3 DEF Served
    <3>5. gs[i] = Entries(e, start, end)
      BY <2>1, <2>4, <3>4 DEF Below
    <3>6. d + 1 = Len(e.path) + 1
      BY <2>1, <2>4 DEF Named
    <3>7. /\ e.path \in Seq(Int) /\ e.offset \in Nat /\ e.length \in Nat \ {0}
          /\ Lined(e.digest, At(H, e.path), e.offset, e.offset + e.length)
      BY <2>2, <3>1
    <3>8. AllNamed(Entries(e, start, end), H, d + 1)
      BY <3>4, <3>6, <3>7, EntriesNamed
    <3>. QED
      BY <3>5, <3>8
  <2>. QED
    BY <2>3, <2>4
<1>3. gs = [i \in 1..n |-> gs[i]]
  BY <1>1
<1>4. Descend(es, start, end, store) = FlattenSeq(gs)
  BY DEF Descend
<1> HIDE DEF gs, n
<1>5. \A i \in 1..n : IsSeq(gs[i])
  BY <1>2 DEF AllNamed
<1> DEFINE q == FlattenSeq(gs)
<1>6. IsSeq(q) /\ ToSet(q) = UNION {ToSet(gs[i]) : i \in 1..n}
  BY <1>1, <1>3, <1>5, FlattenHolds
<1> HIDE DEF q
<1>7. ASSUME NEW k \in DOMAIN q PROVE Named(q[k], H, d + 1)
  <2>1. q[k] \in ToSet(q)
    BY DEF ToSet
  <2>2. PICK i \in 1..n : q[k] \in ToSet(gs[i])
    BY <1>6, <2>1
  <2>3. PICK l \in DOMAIN gs[i] : q[k] = gs[i][l]
    BY <2>2 DEF ToSet
  <2>. QED
    BY <1>2, <2>3 DEF AllNamed
<1>. QED
  BY <1>4, <1>6, <1>7 DEF AllNamed, q

\* The shards a client descends to.
LEMMA CoveringNamed ==
  ASSUME NEW F, NEW H, Held(H, F), NEW store, Served(F, store), NEW size \in Nat \ {0},
         NEW top, Lined(top, At(H, <<>>), 0, size), MetaEncodes(top), NEW start, NEW end
  PROVE  AllNamed(CoveringShards(top, size, start, end, store), H, MaxDepth + 1)
<1> DEFINE C == CHOOSE f : Covering(f, top, size, start, end, store, MaxDepth)
           W == {d \in 0..MaxDepth : AllNamed(C[d], H, d + 1)}
<1>1. MaxDepth \in Nat
  BY TreeAssumption
<1>2. Covering(C, top, size, start, end, store, MaxDepth)
  BY <1>1, CoveringExists
<1>3. CoveringShards(top, size, start, end, store) = C[MaxDepth]
  BY DEF CoveringShards, Covering
<1> HIDE DEF C
<1>4. \A d \in 0..MaxDepth : C[d] = IF d = 0 THEN Entries(TopDir(top, size), start, end)
                                    ELSE Descend(C[d - 1], start, end, store)
  BY <1>2 DEF Covering
<1>5. 0 \in W
  <2> DEFINE dir == TopDir(top, size)
  <2>1. dir.offset = 0 /\ dir.digest = top /\ dir.path = <<>> /\ dir.length = size
    BY DEF TopDir
  <2> HIDE DEF dir
  <2>2. /\ dir.path \in Seq(Int) /\ dir.offset \in Nat /\ dir.length \in Nat \ {0}
        /\ Lined(dir.digest, At(H, dir.path), dir.offset, dir.offset + dir.length) /\ MetaEncodes(dir.digest)
    BY <2>1
  <2>3. 1 = Len(dir.path) + 1
    BY <2>1
  <2>4. AllNamed(Entries(dir, start, end), H, 1)
    BY <2>2, <2>3, EntriesNamed
  <2>5. 0 \in 0..MaxDepth /\ C[0] = Entries(dir, start, end) /\ 0 + 1 = 1
    BY <1>1, <1>4 DEF dir
  <2>. QED
    BY <2>4, <2>5
<1>6. ASSUME NEW k \in 0..MaxDepth, k \in W, k < MaxDepth PROVE k + 1 \in W
  <2> DEFINE j == k + 1
  <2>1. j \in 0..MaxDepth /\ j # 0 /\ j - 1 = k /\ AllNamed(C[k], H, j) /\ j \in Nat
    BY <1>1, <1>6
  <2> HIDE DEF j
  <2>2. C[j] = Descend(C[k], start, end, store)
    BY <1>4, <2>1
  <2>3. AllNamed(C[j], H, j + 1)
    BY <2>1, <2>2, DescendNamed
  <2>4. j \in W
    BY <2>1, <2>3
  <2>. QED
    BY <2>4 DEF j
<1> HIDE DEF W
<1>7. \A k \in 0..MaxDepth : k \in W
  BY <1>1, <1>5, <1>6, Ascent
<1>8. MaxDepth \in W
  BY <1>1, <1>7
<1>. QED
  BY <1>3, <1>8 DEF W

\* Every one of them is a shard whose file is good.
LEMMA NamedIsGood ==
  ASSUME NEW F, NEW H, Held(H, F), NEW store, Served(F, store), NEW e, Named(e, H, MaxDepth + 1)
  PROVE  GoodShard(e, store)
<1>1. PICK h \in H : e.kind = h[1] /\ e.path = h[2] /\ e.offset = h[3] /\ e.length = h[4] /\ e.digest = h[5]
  BY DEF Named
<1>2. h[2] \in Seq(Int) /\ h[3] \in Nat /\ MaxDepth \in Nat
  BY TreeAssumption DEF Held, FactHeld
<1>3. h[1] # Dir
  <2> SUFFICES ASSUME h[1] = Dir PROVE FALSE
    OBVIOUS
  <2>1. FileAt(Append(h[2], Meta), h[5]) \in F
    BY DEF Held, FactHeld, Shard, Dir
  <2> DEFINE u == FileAt(Append(h[2], Meta), h[5])
  <2>2. u \in F /\ u.path = Append(h[2], Meta)
    BY <2>1 DEF FileAt
  <2> HIDE DEF u
  <2>3. Len(u.path) <= MaxDepth + 1
    BY <2>2 DEF Served
  <2>4. Len(h[2]) = MaxDepth + 1
    BY <1>1 DEF Named
  <2>5. Len(u.path) = Len(h[2]) + 1
    BY <1>2, <2>2, AppendIs DEF Meta
  <2>. QED
    BY <1>2, <2>3, <2>4, <2>5
<1>4. h[1] = Shard /\ FileAt(h[2], h[5]) \in F /\ Short(h[5], h[4])
  BY <1>3 DEF Held, FactHeld
<1> DEFINE u == FileAt(h[2], h[5])
<1>5. u \in F /\ u.path = h[2] /\ u.content = h[5]
  BY <1>4 DEF FileAt
<1> HIDE DEF u
<1>6. Last(u.path) # Meta
  BY <1>1, <1>2, <1>5 DEF Named, Meta
<1>7. Supplies(store, u.path, u.content) /\ ShardEncodes(u.content)
  BY <1>5, <1>6 DEF Served
<1>. QED
  BY <1>1, <1>4, <1>5, <1>7 DEF GoodShard, ValidShard, Short

\* No read of such a tree fails.
LEMMA ServedReads ==
  ASSUME NEW F, NEW H, Held(H, F), NEW store, Served(F, store), NEW size \in Nat \ {0},
         NEW top, Lined(top, At(H, <<>>), 0, size), MetaEncodes(top), NEW start, NEW end
  PROVE  LeavesFor(top, size, start, end, store).ok
<1> DEFINE shards == CoveringShards(top, size, start, end, store)
<1>1. AllNamed(shards, H, MaxDepth + 1)
  BY CoveringNamed
<1>2. \A i \in DOMAIN shards : GoodShard(shards[i], store)
  <2> HIDE DEF shards
  <2>. QED
    BY <1>1, NamedIsGood DEF AllNamed
<1>. QED
  BY <1>2 DEF LeavesFor

-----------------------------------------------------------------------------
(***************************************************************************)
(* The tree of a pack is whole.                                            *)
(***************************************************************************)
\* The tree of a file that is cut into bands is whole.
LEMMA TreeWhole ==
  ASSUME NEW D, NEW p, IsLine(D, p), NEW bands, NEW c, NEW g, CutInto(bands, D, c, g)
  PROVE  WholeTree(BuildProofTree(bands), p[1], p[Len(D) + 1])
<1> DEFINE N == Len(D)
           F == CHOOSE f : Placing(f, bands)
           at(k) == IF k = 0 THEN p[1] ELSE p[g[k][2] + 1]
           T == {k \in 0..c : WholeTree(F[k], p[1], at(k))}
<1>1. /\ c \in Nat \ {0} /\ c \in Nat /\ Runs(g, c, 1, N) /\ Len(bands) = c
      /\ \A k \in 1..c : bands[k] = SubSeq(D, g[k][1], g[k][2])
  BY DEF CutInto
<1>2. /\ \A k \in 1..c : g[k][1] \in 1..N /\ g[k][2] \in g[k][1]..N
      /\ \A k \in 1..c : k < c => g[k + 1][1] = g[k][2] + 1
      /\ g[1][1] = 1 /\ g[c][2] = N
  <2>1. Runs(g, c, 1, N) /\ c # 0
    BY <1>1
  <2> HIDE DEF N
  <2>. QED
    BY ONLY <2>1, RunsParts
<1>3. p[1] \in Nat
  <2>1. p \in [1..(N + 1) -> Nat] /\ N \in Nat /\ 1 \in 1..(N + 1)
    BY DEF IsLine, Placed, IsSeq
  <2> HIDE DEF N
  <2>. QED
    BY <2>1
<1>4. Placing(F, bands)
  BY <1>1, PlacingExists
<1>5. BuildProofTree(bands) = F[c]
  BY <1>1 DEF BuildProofTree, Placing
<1> HIDE DEF F
<1>6. F[0].files = <<>> /\ F[0].entries = <<>> /\ \A k \in 1..c : F[k] = PlaceBand(F[k - 1], bands[k])
  BY <1>1, <1>4 DEF Placing
<1>7. 0 \in T
  BY <1>3, <1>6, NothingWhole, <1>1
<1>8. ASSUME NEW k \in 0..c, k \in T, k < c PROVE k + 1 \in T
  <2> DEFINE j == k + 1
             lo == g[j][1]
             hi == g[j][2]
  <2>1. j \in 1..c /\ j \in 0..c /\ j # 0 /\ j - 1 = k /\ (k = 0 => j = 1)
    BY <1>1, <1>8
  <2>2. lo \in 1..N /\ hi \in lo..N /\ bands[j] = SubSeq(D, lo, hi)
    BY <1>1, <1>2, <2>1
  <2>3. at(k) = p[lo]
    BY <1>2, <2>1, <1>1, <1>8
  <2>4. F[j] = PlaceBand(F[k], bands[j])
    BY <1>6, <2>1
  <2>5. WholeTree(F[k], p[1], at(k))
    BY <1>8
  <2>6. at(j) = p[hi + 1]
    BY <2>1
  <2> HIDE DEF lo, hi, at, j
  <2>7. WholeTree(F[k], p[1], p[lo])
    BY <2>3, <2>5
  <2>8. WholeTree(PlaceBand(F[k], SubSeq(D, lo, hi)), p[1], p[hi + 1])
    BY <2>2, <2>7, PlaceBandWhole
  <2>9. WholeTree(F[j], p[1], at(j))
    BY <2>2, <2>4, <2>6, <2>8
  <2>10. j \in T
    BY <2>1, <2>9
  <2>. QED
    BY <2>10 DEF j
<1> HIDE DEF T
<1>9. \A k \in 0..c : k \in T
  BY <1>1, <1>7, <1>8, Ascent
<1>10. WholeTree(F[c], p[1], at(c))
  BY <1>1, <1>9 DEF T
<1>11. at(c) = p[N + 1]
  BY <1>1, <1>2
<1>. QED
  BY <1>5, <1>10, <1>11

\* What pack makes of a cut is whole.
LEMMA PackWhole ==
  ASSUME NEW f, NEW cut, NEW p, IsLine(cut.leaves, p), NEW c, NEW g, CutInto(cut.bands, cut.leaves, c, g),
         NEW pack, pack = PackWithChunker(f, cut), pack.ok
  PROVE  PackedTree(pack, f, p[1], p[Len(cut.leaves) + 1])
<1> DEFINE s == cut.leaves
           n == Len(s)
           D == Digested(f, s)
           bands == [b \in DOMAIN cut.bands |-> Digested(f, cut.bands[b])]
           tree == BuildProofTree(bands)
<1>1. /\ IsSeq(s) /\ n \in Nat \ {0} /\ p \in [1..(n + 1) -> Nat] /\ DOMAIN s = 1..n
      /\ \A i \in 1..n : s[i].length \in Nat \ {0} /\ p[i + 1] = p[i] + s[i].length /\ s[i].offset = p[i]
  BY DEF IsLine, Placed, IsSeq
<1>2. /\ c \in Nat \ {0} /\ Runs(g, c, 1, n) /\ IsSeq(cut.bands) /\ Len(cut.bands) = c
      /\ \A k \in 1..c : cut.bands[k] = SubSeq(s, g[k][1], g[k][2])
  BY DEF CutInto
<1>3. D = [i \in 1..n |-> D[i]] /\ \A i \in 1..n : D[i].length = s[i].length /\ D[i].offset = s[i].offset
  BY <1>1 DEF Digested
<1>4. /\ TreeEncodes(tree) /\ pack.anchor = <<f.id, f.length, tree.entries>>
      /\ pack.files = Append(tree.files, RootFile(pack.anchor))
  <2> HIDE DEF tree
  <2>1. pack = Finished(f, cut, tree)
    BY DEF PackWithChunker, tree
  <2>. QED
    BY <2>1 DEF Finished, EncodeDescriptor, Refused, FilesThenRoot
<1> HIDE DEF n
<1>5. IsSeq(D) /\ Len(D) = n
  <2> HIDE DEF D
  <2>. QED
    BY <1>1, <1>3, ValuesAreSeq
<1>6. IsLine(D, p)
  <2> HIDE DEF D
  <2>. QED
    BY <1>1, <1>3, <1>5 DEF IsLine, Placed
<1>7. ASSUME NEW k \in 1..c PROVE bands[k] = SubSeq(D, g[k][1], g[k][2])
  <2> DEFINE x == g[k][1]
             y == g[k][2]
  <2>1. x \in 1..n /\ y \in x..n
    BY <1>2, k \in 1..c, RunsParts
  <2>2. k \in DOMAIN cut.bands
    BY <1>2 DEF IsSeq
  <2>3. cut.bands[k] = SubSeq(s, x, y)
    BY <1>2
  <2>4. bands[k] = Digested(f, cut.bands[k])
    BY <2>2
  <2> HIDE DEF x, y
  <2>5. x \in Nat \ {0} /\ y \in Nat /\ x <= y /\ y <= Len(s) /\ IsSeq(s)
    BY <1>1, <2>1 DEF n
  <2> HIDE DEF s, bands
  <2>6. PartDigested(f, s, x, y)
    BY ONLY <2>5, DigestedPart
  <2>7. bands[k] = SubSeq(Digested(f, s), x, y)
    BY ONLY <2>3, <2>4, <2>6 DEF PartDigested
  <2>. QED
    BY <2>7 DEF x, y
<1>8. bands = [k \in 1..c |-> bands[k]]
  BY <1>2 DEF IsSeq
<1> HIDE DEF bands, tree, D, s
<1>9. IsSeq(bands) /\ Len(bands) = c
  BY <1>2, <1>8, ValuesAreSeq
<1>10. CutInto(bands, D, c, g)
  BY <1>2, <1>5, <1>7, <1>9 DEF CutInto
<1>11. WholeTree(tree, p[1], p[Len(D) + 1])
  BY <1>6, <1>10, TreeWhole DEF tree
<1>12. WholeTree(tree, p[1], p[Len(cut.leaves) + 1])
  BY <1>5, <1>11 DEF n, s
<1>13. /\ TreeEncodes(tree) /\ pack.anchor = <<f.id, f.length, tree.entries>>
       /\ pack.files = Append(tree.files, RootFile(pack.anchor))
  BY <1>4
<1>. QED
  BY ONLY <1>12, <1>13 DEF PackedTree

-----------------------------------------------------------------------------
(***************************************************************************)
(* Every pack is whole: the packer takes no empty file.                    *)
(***************************************************************************)
\* The span of one range.
LEMMA OneSpan ==
  ASSUME NEW s, Len(s) = 1, s[1].length = 0
  PROVE  SpanOf(s) = 0
<1> DEFINE at == CHOOSE f : Sums(f, s, 2)
<1>1. Sums(at, s, 2)
  BY SumsExist
<1>2. Offsets(s) = at
  BY DEF Offsets, Sums
<1> HIDE DEF at
<1>3. at[1] = 0 /\ at[2] = at[1] + s[1].length
  BY <1>1 DEF Sums
<1>. QED
  BY <1>2, <1>3 DEF SpanOf

\* The shards of a band of one empty leaf.
LEMMA EmptyShard ==
  ASSUME NEW band, IsSeq(band), Len(band) = 1, band[1].length = 0,
         NEW shards, shards = ShardGroups(band)
  PROVE  Len(shards) = 1 /\ DOMAIN shards = 1..1 /\ shards[1].length = 0
<1> DEFINE firsts == ShardFirsts(band)
           groups == ShardRanges(band)
<1>1. PICK c : Begins(firsts, c, 1)
  <2>1. Len(band) \in Nat \ {0} /\ Len(band) = 1
    OBVIOUS
  <2>2. \E c : Begins(firsts, c, Len(band))
    BY <2>1, ShardFirstsBegin
  <2>. QED
    BY <2>1, <2>2
<1>2. c = 1
  BY <1>1 DEF Begins
<1>3. PICK g : CutInto(groups, band, c, g)
  BY <1>1, SplitIs DEF ShardRanges
<1> HIDE DEF groups, firsts
<1>4. IsSeq(groups) /\ Len(groups) = 1 /\ groups[1] = SubSeq(band, g[1][1], g[1][2]) /\ Runs(g, 1, 1, 1)
  BY <1>2, <1>3 DEF CutInto
<1>5. g[1][1] = 1 /\ g[1][2] = 1
  BY <1>4, RunsParts
<1>6. groups[1] = band /\ DOMAIN groups = 1..1
  BY <1>4, <1>5, WholeSub DEF IsSeq
<1>7. SpanOf(groups[1]) = 0
  BY <1>6, OneSpan
<1>8. shards = [k \in 1..1 |-> [start |-> groups[k][1].offset, length |-> SpanOf(groups[k]),
                                content |-> EncodeShard(groups[k])]]
  BY <1>6 DEF ShardGroups, groups
<1>9. shards = [k \in 1..1 |-> shards[k]] /\ shards[1].length = 0
  BY <1>7, <1>8
<1>. QED
  BY <1>9, ValuesAreSeq

\* The tree of one empty leaf does not encode.
LEMMA EmptyEncodesNot ==
  ASSUME NEW band, IsSeq(band), Len(band) = 1, band[1].length = 0,
         NEW bands, Len(bands) = 1, bands[1] = band
  PROVE  ~TreeEncodes(BuildProofTree(bands))
<1> DEFINE F == CHOOSE f : Placing(f, bands)
           base == [files |-> <<>>, entries |-> <<>>, later |-> 1]
           shards == ShardGroups(band)
           new == PlaceBand(base, band)
<1>1. Placing(F, bands)
  BY PlacingExists
<1>2. BuildProofTree(bands) = F[1]
  BY DEF BuildProofTree, Placing
<1> HIDE DEF F
<1>3. F[1] = new
  <2>1. \A k \in 0..1 : F[k] = IF k = 0 THEN base ELSE PlaceBand(F[k - 1], bands[k])
    BY <1>1 DEF Placing
  <2>2. F[0] = base
    BY <2>1
  <2>3. F[1] = PlaceBand(F[0], bands[1])
    <3> HIDE DEF base
    <3>. QED
      BY <2>1
  <2>. QED
    BY <2>2, <2>3
<1>4. Len(shards) = 1 /\ DOMAIN shards = 1..1 /\ shards[1].length = 0
  <2>1. shards = ShardGroups(band)
    OBVIOUS
  <2> HIDE DEF shards
  <2>. QED
    BY <2>1, EmptyShard
<1>5. TopMaxEntries \in Nat \ {0} /\ MetaMaxEntries \in Nat \ {0}
  BY TreeAssumption
<1>6. new.entries = <<>> \o ShardRecords(shards)
  <2>1. base.files = <<>> /\ base.entries = <<>> /\ base.later = 1
    OBVIOUS
  <2>2. Len(shards) <= MetaMaxEntries /\ Len(base.entries) + Len(shards) + (base.later - 1) <= TopMaxEntries
    BY <1>4, <1>5, <2>1
  <2> HIDE DEF base
  <2>3. new = [files |-> base.files \o ShardFiles(shards), entries |-> base.entries \o ShardRecords(shards),
               later |-> base.later - 1]
    BY <2>2 DEF PlaceBand
  <2>. QED
    BY <2>1, <2>3
<1> HIDE DEF new, shards
<1> DEFINE rec == ShardRecords(shards)
<1>7. rec = [k \in 1..1 |-> rec[k]] /\ rec[1].length = 0
  BY <1>4 DEF ShardRecords
<1> HIDE DEF rec
<1>8. IsSeq(rec) /\ Len(rec) = 1 /\ DOMAIN rec = 1..1
  BY <1>7, ValuesAreSeq
<1>9. <<>> \o rec = rec
  BY <1>8 DEF IsSeq
<1>10. ~MetaEncodes(rec)
  BY <1>7, <1>8 DEF MetaEncodes
<1>. QED
  BY <1>2, <1>3, <1>6, <1>9, <1>10 DEF TreeEncodes, rec

\* The packer takes no empty file.
LEMMA EmptyRefused ==
  ASSUME NEW j \in MemoryJobs \cup DiskJobs, Pack(j).ok
  PROVE  j.file.length \in Nat \ {0}
<1> DEFINE f == j.file
           opts == j.opts
           cut == Cut(j)[1]
<1>1. /\ f.length \in Nat
      /\ f.type = "pmtiles" => IsArchive(f)
      /\ f.type = "mp4" => IsBoxes(f.boxes)
      /\ opts.profile \in {"auto", "fixed", "pmtiles", "mp4"}
  BY JobsAssumption
<1>2. Cut(j) # <<>> /\ PackWithChunker(f, cut).ok
  BY DEF Pack, PackCut, Refused
<1>3. OptionsApply(f, opts)
  BY <1>2 DEF Cut
<1>4. Profile(f, opts) \in {"pmtiles", "mp4", "fixed"}
  BY <1>1 DEF Profile
<1> SUFFICES ASSUME f.length = 0 PROVE FALSE
  BY <1>1
<1>5. CASE Profile(f, opts) = "pmtiles"
  <2>1. Cut(j) = CutPmtiles(f, opts)
    BY <1>3, <1>5 DEF Cut
  <2>2. Parses(f)
    BY <1>2, <2>1 DEF CutPmtiles
  <2> DEFINE header == [offset |-> 0, length |-> HeaderSize]
  <2>3. header \in Sections(f)
    BY DEF Sections
  <2>4. End(header) <= 0
    BY <2>2, <2>3 DEF Parses
  <2>5. HeaderSize \in Nat \ {0} /\ End(header) = HeaderSize
    BY CutsAssumption DEF End
  <2>. QED
    BY <2>4, <2>5
<1>6. CASE Profile(f, opts) = "mp4"
  <2>1. Cut(j) = CutMp4(f)
    BY <1>3, <1>6 DEF Cut
  <2> DEFINE boxes == Mp4Walk(f).boxes
  <2>2. f.type = "mp4" /\ FirstMoof(boxes) # 0
    BY <1>2, <2>1 DEF CutMp4
  <2>3. PICK B : boxes \in Seq([offset : 0..(f.length - 1), length : Nat, type : B])
    <3>1. f.length \in Nat /\ IsBoxes(f.boxes)
      BY <1>1, <2>2
    <3> HIDE DEF f
    <3>. QED
      BY <3>1, WalkIs
  <2> DEFINE R == [offset : 0..(f.length - 1), length : Nat, type : B]
  <2>4. R = {}
    OBVIOUS
  <2>5. boxes \in Seq(R)
    BY <2>3
  <2> HIDE DEF R, boxes
  <2>6. DOMAIN boxes = {}
    BY <2>4, <2>5
  <2>7. FirstMoof(boxes) = 0
    BY <2>6 DEF FirstMoof
  <2>. QED
    BY <2>2, <2>7
<1>7. CASE Profile(f, opts) = "fixed"
  <2> DEFINE leaf == [offset |-> 0, length |-> 0]
             s == <<leaf>>
             bands == [b \in DOMAIN cut.bands |-> Digested(f, cut.bands[b])]
             band == Digested(f, s)
             tree == BuildProofTree(bands)
  <2>1. Cut(j) = CutFixed(f, opts)
    BY <1>3, <1>7 DEF Cut
  <2>2. cut.bands = <<s>>
    BY <2>1 DEF CutFixed, FixedLeaves
  <2>3. bands = [b \in 1..1 |-> band]
    <3>1. cut.bands = [b \in 1..1 |-> s]
      BY <2>2
    <3> HIDE DEF cut, s
    <3>. QED
      BY <3>1
  <2>4. Len(bands) = 1 /\ bands[1] = band
    <3> HIDE DEF band
    <3>1. bands = [b \in 1..1 |-> bands[b]] /\ bands[1] = band
      BY <2>3
    <3> HIDE DEF bands
    <3>. QED
      BY <3>1, ValuesAreSeq
  <2>5. band = [i \in 1..1 |-> band[i]] /\ band[1].length = 0
    <3>1. DOMAIN s = 1..1 /\ s[1] = leaf
      OBVIOUS
    <3> HIDE DEF s
    <3>. QED
      BY <3>1 DEF Digested
  <2>6. IsSeq(band) /\ Len(band) = 1
    <3> HIDE DEF band
    <3>. QED
      BY <2>5, ValuesAreSeq
  <2>7. TreeEncodes(tree)
    <3>1. Finished(f, cut, tree).ok
      BY <1>2 DEF PackWithChunker
    <3> HIDE DEF tree, cut, f
    <3>. QED
      BY <3>1 DEF Finished, Refused
  <2> HIDE DEF band, bands
  <2>. QED
    BY <2>4, <2>5, <2>6, <2>7, EmptyEncodesNot
<1>. QED
  BY <1>4, <1>5, <1>6, <1>7

\* Every pack's files are those of a whole tree over the file.
LEMMA PackIsWhole ==
  ASSUME NEW j \in MemoryJobs \cup DiskJobs, NEW pack, pack = Pack(j), pack.ok
  PROVE  j.file.length \in Nat \ {0} /\ PackedTree(pack, j.file, 0, j.file.length)
<1> DEFINE f == j.file
           cut == Cut(j)[1]
           size == f.length
<1>1. size \in Nat \ {0}
  BY EmptyRefused
<1>2. Cut(j) # <<>> /\ pack = PackWithChunker(f, cut)
  BY DEF Pack, PackCut, Refused
<1>3. IsCut(cut, size)
  BY <1>1, <1>2, CutIsLine
<1> HIDE DEF cut
<1>4. PICK p, c, g : LineTo(cut.leaves, p, size) /\ CutInto(cut.bands, cut.leaves, c, g)
  BY <1>3 DEF IsCut
<1>5. IsLine(cut.leaves, p) /\ p[1] = 0 /\ p[Len(cut.leaves) + 1] = size
  BY <1>4 DEF LineTo
<1> HIDE DEF f, size
<1>6. PackedTree(pack, f, p[1], p[Len(cut.leaves) + 1])
  BY <1>2, <1>4, <1>5, PackWhole
<1>. QED
  BY <1>1, <1>5, <1>6 DEF f, size

-----------------------------------------------------------------------------
(***************************************************************************)
(* The files of a pack: the root is the last of them, and a client that    *)
(* has them all reads every range.                                         *)
(***************************************************************************)
\* One element more.
LEMMA OneMore ==
  ASSUME NEW s, IsSeq(s), NEW e, NEW q, q = Append(s, e)
  PROVE  /\ Len(s) \in Nat /\ Len(q) = Len(s) + 1 /\ IsSeq(q) /\ DOMAIN q = 1..(Len(s) + 1)
         /\ q[Len(s) + 1] = e /\ \A i \in 1..Len(s) : q[i] = s[i] /\ s[i] \in ToSet(s)
<1> DEFINE n == Len(s)
           m == n + 1
           S == ToSet(s) \cup {e}
           T == ToSet(s)
<1>1. s \in Seq(T) /\ s \in Seq(S) /\ e \in S
  <2>1. s \in Seq(T)
    BY DEF IsSeq
  <2> HIDE DEF T
  <2>2. s \in Seq(T \cup {e})
    BY <2>1
  <2>. QED
    BY <2>1, <2>2 DEF T
<1> HIDE DEF S
<1>5. n \in Nat /\ q \in Seq(S) /\ DOMAIN q = 1..(n + 1) /\ Len(q) = n + 1 /\ q[n + 1] = e /\ \A i \in 1..n : q[i] = s[i]
  BY <1>1
<1>2. n \in Nat /\ m \in Nat /\ q = [i \in 1..m |-> q[i]] /\ Len(q) = m /\ q[m] = e /\ \A i \in 1..n : q[i] = s[i]
  <2> HIDE DEF n
  <2>1. m \in Nat
    BY <1>5
  <2>2. q = [i \in 1..m |-> q[i]]
    BY ONLY <1>5
  <2>. QED
    BY <1>5, <2>1, <2>2
<1>3. \A i \in 1..n : s[i] \in T
  <2> HIDE DEF T
  <2>. QED
    BY <1>1
<1> HIDE DEF n, m
<1>4. IsSeq(q) /\ DOMAIN q = 1..m
  BY <1>2, ValuesAreSeq
<1>. QED
  BY <1>2, <1>3, <1>4 DEF n, m

\* The files of a whole tree, and its root.
LEMMA PackedFiles ==
  ASSUME NEW pack, NEW f, NEW size \in Nat, PackedTree(pack, f, 0, size)
  PROVE  GoodFiles(pack)
<1>1. PICK tree : /\ WholeTree(tree, 0, size)
                  /\ pack.files = Append(tree.files, RootFile(pack.anchor))
  BY DEF PackedTree
<1> DEFINE s == tree.files
           e == RootFile(pack.anchor)
           q == pack.files
           l == Len(s)
           n == l + 1
           F == ToSet(s)
<1>2. IsSeq(s) /\ Filed(F, 0, size)
  BY <1>1 DEF WholeTree, Whole
<1>3. e.path = <<Root>> /\ e.content = pack.anchor
  BY DEF RootFile
<1> HIDE DEF e
<1>4. /\ l \in Nat /\ Len(q) = n /\ IsSeq(q) /\ DOMAIN q = 1..n
      /\ q[n] = e /\ \A i \in 1..l : q[i] = s[i] /\ s[i] \in F
  <2>1. q = Append(s, e)
    BY <1>1 DEF e
  <2> HIDE DEF q, s, F, l, n
  <2>2. IsSeq(s)
    BY <1>2
  <2>3. Len(s) \in Nat /\ Len(q) = Len(s) + 1
    BY ONLY <2>1, <2>2, OneMore
  <2>4. IsSeq(q) /\ DOMAIN q = 1..(Len(s) + 1)
    BY ONLY <2>1, <2>2, OneMore
  <2>5. q[Len(s) + 1] = e
    BY ONLY <2>1, <2>2, OneMore
  <2>6. \A i \in 1..Len(s) : q[i] = s[i] /\ s[i] \in ToSet(s)
    BY ONLY <2>1, <2>2, OneMore
  <2>. QED
    BY <2>3, <2>4, <2>5, <2>6 DEF n, l, F
<1> HIDE DEF q, F, s, l
<1>5. ASSUME NEW u \in F PROVE u.path # <<Root>>
  BY <1>2 DEF Filed, Root
<1>6. ASSUME NEW i \in 1..n PROVE \/ i = n /\ q[i] = e
                                  \/ i # n /\ q[i] \in F
  BY <1>4
<1>7. \A i \in 1..n : q[i].path = <<Root>> <=> i = n
  BY <1>3, <1>5, <1>6
<1>8. ASSUME NEW i \in 1..n, NEW k \in 1..n, q[i].path = q[k].path PROVE q[i].content = q[k].content
  BY <1>2, <1>8, <1>3, <1>7, <1>6 DEF Filed
<1>9. ASSUME NEW i \in 1..n, Last(q[i].path) = Meta PROVE Len(q[i].content) \in 1..MetaMaxEntries
  BY <1>3, <1>6, <1>9, <1>2 DEF Last, Root, Meta, Filed
<1>10. q[n].content = pack.anchor /\ n \in Nat \ {0}
  BY <1>3, <1>4
<1> HIDE DEF n
<1>. QED
  BY <1>4, <1>7, <1>8, <1>9, <1>10 DEF GoodFiles, q

\* The top meta of a whole tree decodes.
LEMMA TopDecodes ==
  ASSUME NEW top, NEW T, NEW size \in Nat \ {0}, Lined(top, T, 0, size), MetaEncodes(top)
  PROVE  MetaDecodes(top, size)
<1>1. SpanOf(top) = size
  <2>1. 0 \in Nat
    OBVIOUS
  <2>2. SpanOf(top) = size - 0
    BY <2>1, LinedOffsets
  <2>. QED
    BY <2>2
<1>2. top # <<>>
  <2>1. SUFFICES ASSUME top = <<>> PROVE FALSE
    OBVIOUS
  <2>2. PICK q \in [1..(Len(top) + 1) -> Nat] : LinedAt(top, T, q, 0, size)
    BY DEF Lined
  <2>3. q[1] = 0 /\ q[Len(top) + 1] = size
    BY <2>2 DEF LinedAt
  <2>4. Len(top) = 0
    BY <2>1
  <2>. QED
    BY <2>3, <2>4
<1>. QED
  BY <1>1, <1>2 DEF MetaDecodes

\* A client that has all the files of a pack reads every range.
LEMMA StockedReads ==
  ASSUME NEW pack, NEW f, f.length \in Nat \ {0}, PackedTree(pack, f, 0, f.length),
         NEW store, Stocked(pack, store), NEW start, NEW end
  PROVE  /\ Supplies(store, <<Root>>, pack.anchor) /\ DecodesDescriptor(pack.anchor)
         /\ LeavesFor(pack.anchor[3], pack.anchor[2], start, end, store).ok
<1> DEFINE size == f.length
           anchor == pack.anchor
<1>1. PICK tree : /\ WholeTree(tree, 0, size) /\ TreeEncodes(tree)
                  /\ anchor = <<f.id, size, tree.entries>>
                  /\ pack.files = Append(tree.files, RootFile(anchor))
  BY DEF PackedTree
<1> DEFINE s == tree.files
           e == RootFile(anchor)
           q == pack.files
           l == Len(s)
           F == ToSet(s)
           top == tree.entries
<1>2. anchor[2] = size /\ anchor[3] = top
  BY <1>1, SMTT(30)
<1>3. size \in Nat \ {0}
  OBVIOUS
<1>4. IsSeq(s) /\ Filed(F, 0, size)
  BY <1>1 DEF WholeTree, Whole
<1>5. PICK H : Held(H, F) /\ Lined(top, At(H, <<>>), 0, size)
  BY <1>1 DEF WholeTree, Whole
<1>6. e.path = <<Root>> /\ e.content = anchor
  BY DEF RootFile
<1> HIDE DEF e
<1>7. /\ l \in Nat /\ DOMAIN q = 1..(l + 1)
      /\ q[l + 1] = e /\ \A i \in 1..l : q[i] = s[i]
  <2>1. q = Append(s, e)
    BY <1>1 DEF e
  <2> HIDE DEF q, s
  <2>. QED
    BY <1>4, <2>1, OneMore
<1>8. Supplies(store, <<Root>>, anchor)
  BY <1>7, <1>6 DEF Stocked
<1>9. ASSUME NEW u \in F
      PROVE  /\ Supplies(store, u.path, u.content) /\ Len(u.path) <= MaxDepth + 1
             /\ IF Last(u.path) = Meta THEN MetaEncodes(u.content) ELSE ShardEncodes(u.content)
  <2>1. PICK i \in DOMAIN s : u = s[i]
    BY DEF ToSet
  <2>2. i \in 1..l
    BY <1>4, <2>1 DEF IsSeq
  <2>3. i \in DOMAIN q /\ q[i] = u
    BY <1>7, <2>1, <2>2
  <2>4. Supplies(store, u.path, u.content) /\ Len(u.path) <= MaxDepth + 1
    BY <2>3 DEF Stocked
  <2>5. IF Last(u.path) = Meta THEN MetaEncodes(u.content) ELSE ShardEncodes(u.content)
    BY <1>1, <2>1 DEF TreeEncodes
  <2>. QED
    BY <2>4, <2>5
<1>10. Served(F, store)
  BY <1>9 DEF Served
<1>11. MetaEncodes(top)
  BY <1>1 DEF TreeEncodes
<1> HIDE DEF top, size, anchor, F
<1>12. MetaDecodes(top, size)
  BY <1>3, <1>5, <1>11, TopDecodes
<1>13. DecodesDescriptor(anchor)
  BY <1>2, <1>12 DEF DecodesDescriptor
<1>14. LeavesFor(top, size, start, end, store).ok
  BY ONLY <1>3, <1>5, <1>10, <1>11, ServedReads
<1>. QED
  BY <1>2, <1>8, <1>13, <1>14 DEF anchor

-----------------------------------------------------------------------------
(***************************************************************************)
(* The proof files on disk: the root is written once all others are.       *)
(***************************************************************************)
\* What is known of the files of a pack.
LEMMA GoodPackFiles ==
  ASSUME NEW pack, GoodPack(pack)
  PROVE  GoodFiles(pack)
<1>1. PICK j \in MemoryJobs \cup DiskJobs : pack = Pack(j) /\ pack.ok
  BY DEF GoodPack
<1>2. j.file.length \in Nat \ {0} /\ PackedTree(pack, j.file, 0, j.file.length)
  BY <1>1, PackIsWhole
<1>. QED
  BY <1>2, PackedFiles

\* Nothing is packed.
LEMMA RefusedIs == ~Refused.ok /\ Refused.files = <<>> /\ Len(Refused.files) = 0
BY DEF Refused

\* FilesInv holds at first, and every step keeps it.
LEMMA InitFiles == Init => FilesInv
<1> SUFFICES ASSUME Init PROVE FilesInv
  OBVIOUS
<1>1. runs = 0 /\ next = 1 /\ opened = FALSE /\ sealed = FALSE /\ runs \in 0..MaxRuns
  BY BoundAssumption DEF Init
<1>2. CASE phase \in {"start", "idle"} /\ packed = Refused
  <2>1. packed.ok = FALSE /\ Len(packed.files) = 0 /\ phase \in Phases
    BY <1>2, RefusedIs DEF Phases, Refused
  <2>2. next \in 1..(Len(packed.files) + 1)
    BY ONLY <1>1, <2>1
  <2>3. TypesInv
    BY ONLY <1>1, <2>1, <2>2 DEF TypesInv
  <2>. QED
    BY ONLY <1>1, <1>2, <2>3 DEF FilesInv
<1>3. CASE /\ job \in PublishedTrees /\ phase = "published"
           /\ packed = [Refused EXCEPT !.ok = TRUE, !.files = job.files, !.anchor = job.anchor]
  <2>1. packed.ok = TRUE /\ packed.files = job.files
    BY <1>3 DEF Refused
  <2>2. Len(job.files) \in Nat
    <3> DEFINE s == job.files
               T == ToSet(s)
    <3>1. s \in Seq(T)
      BY <1>3, PublishedAssumption
    <3> HIDE DEF s, T
    <3>2. Len(s) \in Nat
      BY <3>1
    <3>. QED
      BY <3>2 DEF s
  <2>3. next \in 1..(Len(packed.files) + 1)
    BY <1>1, <2>1, <2>2
  <2>4. phase = "published" /\ phase \in Phases
    BY <1>3 DEF Phases
  <2>5. TypesInv
    BY ONLY <1>1, <2>1, <2>3, <2>4 DEF TypesInv
  <2>. QED
    BY ONLY <1>1, <2>4, <2>5 DEF FilesInv
<1>. QED
  BY <1>2, <1>3 DEF Init

\* A run begins.
LEMMA BeginFiles ==
  ASSUME FilesInv, NEW j \in DiskJobs, NEW input, Begin(j, input)
  PROVE  FilesInv'
<1>1. /\ phase' = "start" /\ packed' = Refused /\ next' = 1 /\ opened' = FALSE /\ sealed' = FALSE
      /\ runs' = runs + 1 /\ runs < MaxRuns
  BY DEF Begin
<1>2. runs' \in 0..MaxRuns
  BY <1>1, BoundAssumption DEF FilesInv, TypesInv
<1>3. packed'.ok = FALSE /\ Len(packed'.files) = 0 /\ phase' \in Phases
  BY <1>1, RefusedIs DEF Phases, Refused
<1>4. next' \in 1..(Len(packed'.files) + 1)
  BY ONLY <1>1, <1>3
<1>5. TypesInv'
  BY ONLY <1>1, <1>2, <1>3, <1>4 DEF TypesInv
<1>. QED
  BY ONLY <1>1, <1>5 DEF FilesInv

\* pack: its files are given to verifyBytes, or about to be written.
LEMMA PackInputFiles ==
  ASSUME PacksInv, FilesInv, PackInput
  PROVE  FilesInv'
<1>1. /\ phase = "start" /\ packed' = Pack(job) /\ UNCHANGED <<job, runs, opened>>
      /\ phase' = IF ~packed'.ok THEN "refused" ELSE IF job \in DiskJobs THEN "mkdir" ELSE "verify"
      /\ job \in DiskJobs => UNCHANGED <<next, disk, sealed>>
      /\ job \notin DiskJobs => /\ next' = Len(packed'.files) + 1
                                /\ disk' = FileMap(packed'.files)
                                /\ sealed' = packed'.ok
  BY DEF PackInput
<1>2. job \in MemoryJobs \cup DiskJobs /\ next = 1 /\ ~sealed /\ runs \in 0..MaxRuns /\ opened \in BOOLEAN
      /\ sealed \in BOOLEAN
  BY <1>1 DEF PacksInv, FilesInv, TypesInv
<1> DEFINE pack == Pack(job)
           n == Len(pack.files)
<1>3. pack.ok \in BOOLEAN /\ (~pack.ok => pack = Refused)
  BY DEF Pack, PackCut, PackWithChunker, Finished, Refused
<1>4. pack.ok => GoodFiles(pack)
  BY <1>2, GoodPackFiles DEF GoodPack
<1>5. n \in Nat
  BY <1>3, <1>4, RefusedIs DEF GoodFiles
<1>6. packed' = pack
  BY <1>1
<1>7. ASSUME pack.ok, job \notin DiskJobs, NEW i \in 1..n PROVE OnDisk(i)'
  <2> DEFINE file == pack.files
             P == {file[k].path : k \in DOMAIN file}
             c == CHOOSE k \in DOMAIN file : file[k].path = file[i].path
  <2>1. DOMAIN file = 1..n /\ \A k, l \in 1..n : file[k].path = file[l].path => file[k].content = file[l].content
    BY <1>4, <1>7 DEF GoodFiles
  <2>2. i \in DOMAIN file
    BY <1>7, <2>1
  <2>3. c \in DOMAIN file /\ file[c].path = file[i].path
    BY <2>2
  <2>4. disk' = [p \in P |-> <<file[CHOOSE k \in DOMAIN file : file[k].path = p].content>>]
    <3>1. disk' = FileMap(file)
      BY <1>1, <1>6, <1>7
    <3> HIDE DEF file, P
    <3>2. FileMap(file) = [p \in {file[k].path : k \in DOMAIN file} |-> <<file[CHOOSE k \in DOMAIN file : file[k].path = p].content>>]
      BY ONLY DEF FileMap
    <3>. QED
      BY ONLY <3>1, <3>2 DEF P
  <2>5. file[i].path \in P
    BY <2>2
  <2>6. disk'[file[i].path] = <<file[c].content>> /\ file[i].path \in DOMAIN disk'
    <3> HIDE DEF P, file
    <3>. QED
      BY <2>4, <2>5
  <2>7. file[c].content = file[i].content
    BY <2>1, <2>2, <2>3
  <2>. QED
    BY <1>6, <2>6, <2>7 DEF OnDisk
<1> HIDE DEF pack
<1>8. CASE ~pack.ok
  BY <1>1, <1>2, <1>3, <1>6, <1>8, RefusedIs DEF Phases, Refused, TypesInv, FilesInv
<1>9. CASE pack.ok /\ job \in DiskJobs
  BY <1>1, <1>2, <1>5, <1>6, <1>9, <1>3 DEF FilesInv, TypesInv, Phases
<1>10. CASE pack.ok /\ job \notin DiskJobs
  BY <1>1, <1>3, <1>5, <1>6, <1>10, <1>7, <1>2 DEF FilesInv, TypesInv, Phases, OnDisk
<1>. QED
  BY <1>8, <1>9, <1>10

\* A proof file is truncated, then filled.
LEMMA WriteFiles ==
  ASSUME PacksInv, FilesInv, Truncate \/ Fill
  PROVE  FilesInv'
<1> DEFINE n == Len(packed.files)
           file == packed.files
           path == Current.path
<1>1. /\ phase = "proofs" /\ next <= n /\ UNCHANGED <<packed, phase, runs, opened>>
  BY DEF Truncate, Fill
<1>2. /\ next \in 1..(n + 1) /\ runs \in 0..MaxRuns /\ opened \in BOOLEAN /\ sealed \in BOOLEAN
      /\ packed.ok \in BOOLEAN /\ packed.ok /\ \A i \in 1..(next - 1) : StillThere(i)
      /\ ~sealed \/ next = n + 1
  BY <1>1 DEF FilesInv, TypesInv
<1>3. GoodFiles(packed)
  BY <1>1, <1>2, GoodPackFiles DEF PacksInv
<1>4. /\ n \in Nat \ {0}
      /\ \A i \in 1..n : file[i].path = <<Root>> <=> i = n
      /\ \A i, k \in 1..n : file[i].path = file[k].path => file[i].content = file[k].content
  BY <1>3 DEF GoodFiles
<1>5. next \in 1..n /\ ~sealed /\ Current = file[next]
  BY <1>1, <1>2, <1>4 DEF Current
<1>6. CASE Truncate
  <2>1. /\ disk' = [p \in DOMAIN disk \cup {path} |-> IF p = path THEN <<>> ELSE disk[p]]
        /\ UNCHANGED <<next, sealed>>
    BY <1>6 DEF Truncate
  <2>2. path' = path
    BY <1>1, <2>1 DEF Current
  <2>3. ASSUME NEW i \in 1..(next - 1) PROVE StillThere(i)'
    <3> DEFINE own == file[i].path
    <3>1. own' = own /\ StillThere(i)
      BY <1>1, <1>2
    <3>2. CASE own = path
      BY <2>1, <1>1, <2>2, <3>1, <3>2 DEF StillThere
    <3>3. CASE own # path
      <4>1. OnDisk(i)
        BY <3>1, <3>3 DEF StillThere
      <4>2. own \in DOMAIN disk /\ disk[own] = <<file[i].content>>
        BY <4>1 DEF OnDisk
      <4>3. own \in DOMAIN disk' /\ disk'[own] = disk[own]
        <5> HIDE DEF own, path
        <5>. QED
          BY <2>1, <3>3, <4>2
      <4>4. OnDisk(i)'
        BY <1>1, <4>2, <4>3 DEF OnDisk
      <4>. QED
        BY <4>4 DEF StillThere
    <3>. QED
      BY <3>2, <3>3
  <2>. QED
    BY <1>1, <1>2, <1>5, <2>1, <2>3 DEF FilesInv, TypesInv, Phases
<1>7. CASE Fill
  <2>1. /\ path \in DOMAIN disk /\ disk' = [disk EXCEPT ![path] = <<Current.content>>]
        /\ next' = next + 1 /\ sealed' = (sealed \/ path = <<Root>>)
    BY <1>7 DEF Fill
  <2>2. ASSUME NEW i \in 1..next PROVE OnDisk(i)'
    <3> DEFINE own == file[i].path
    <3>1. i \in 1..n
      BY <1>4, <1>5
    <3>2. CASE own = path
      <4>1. file[i].content = Current.content
        BY <1>4, <1>5, <3>1, <3>2
      <4>2. own \in DOMAIN disk' /\ disk'[own] = <<Current.content>>
        <5> HIDE DEF own, path
        <5>. QED
          BY <2>1, <3>2
      <4>. QED
        BY <1>1, <4>1, <4>2 DEF OnDisk
    <3>3. CASE own # path
      <4>1. i \in 1..(next - 1)
        BY <1>2, <1>5, <3>3
      <4>2. OnDisk(i)
        BY <1>2, <3>3, <4>1 DEF StillThere
      <4>3. own \in DOMAIN disk /\ disk[own] = <<file[i].content>>
        BY <4>2 DEF OnDisk
      <4>4. own \in DOMAIN disk' /\ disk'[own] = disk[own]
        <5> HIDE DEF own, path
        <5>. QED
          BY <2>1, <3>3, <4>3
      <4>. QED
        BY <1>1, <4>3, <4>4 DEF OnDisk
    <3>. QED
      BY <3>2, <3>3
  <2>3. \A i \in 1..(next' - 1) : StillThere(i)'
    BY <1>2, <2>1, <2>2 DEF StillThere
  <2>4. next' \in 1..(n + 1) /\ sealed' \in BOOLEAN
    BY <1>2, <1>4, <1>5, <2>1
  <2>5. sealed' => next = n
    BY <1>4, <1>5, <2>1
  <2>6. sealed' => next' = n + 1 /\ \A i \in 1..n : OnDisk(i)'
    BY <2>1, <2>2, <2>5
  <2>. QED
    BY <1>1, <1>2, <2>3, <2>4, <2>6 DEF FilesInv, TypesInv, Phases
<1>. QED
  BY <1>6, <1>7

\* The other steps leave the proof files.
LEMMA OtherFiles ==
  ASSUME PacksInv, FilesInv,
         MakeDirs \/ RefuseInputAliases \/ OpenCar \/ EndProofs \/ WriteCar \/ RenameCar \/ Fail \/ Crash
  PROVE  FilesInv'
<1>1. /\ UNCHANGED <<packed, runs, next, disk, sealed>>
      /\ phase \in Begun /\ phase' \in Phases \ {"start", "mkdir", "published"}
      /\ phase' \in {"alias", "open"} => phase \in {"mkdir", "alias"}
      /\ phase' = "proofs" => phase \in {"alias", "open"}
      /\ opened' = opened \/ opened' = TRUE
  BY DEF MakeDirs, RefuseInputAliases, OpenCar, EndProofs, WriteCar, RenameCar, Fail, Crash, output, Begun, Writing, Phases
<1>2. phase # "published" /\ packed.ok
  BY <1>1 DEF PacksInv, Begun, Writing
<1>3. \A i : OnDisk(i)' <=> OnDisk(i)
  BY <1>1 DEF OnDisk
<1>4. phase' = "proofs" => \A i \in 1..(next' - 1) : StillThere(i)'
  BY <1>1, <1>2 DEF FilesInv
<1>5. TypesInv'
  BY <1>1 DEF FilesInv, TypesInv
<1>6. ~(phase' \in {"start", "mkdir"}) /\ phase' # "published"
  BY <1>1
<1>7. phase' \in {"alias", "open"} => next' = 1 /\ ~sealed'
  BY <1>1, <1>2 DEF FilesInv
<1>8. sealed' => next' = Len(packed'.files) + 1 /\ \A i \in 1..Len(packed'.files) : OnDisk(i)'
  BY <1>1, <1>2, <1>3 DEF FilesInv
<1>. QED
  BY <1>1, <1>2, <1>4, <1>5, <1>6, <1>7, <1>8 DEF FilesInv

\* Every step keeps FilesInv.
LEMMA StepFiles ==
  ASSUME PacksInv, FilesInv, Step
  PROVE  FilesInv'
<1>1. ASSUME NEW j \in DiskJobs, NEW input, Begin(j, input) PROVE FilesInv'
  BY <1>1, BeginFiles
<1>2. CASE PackInput
  BY <1>2, PackInputFiles
<1>3. CASE Truncate \/ Fill
  BY <1>3, WriteFiles
<1>4. CASE MakeDirs \/ RefuseInputAliases \/ OpenCar \/ EndProofs \/ WriteCar \/ RenameCar \/ Fail \/ Crash
  BY <1>4, OtherFiles
<1>. QED
  BY <1>1, <1>2, <1>3, <1>4 DEF Step

-----------------------------------------------------------------------------
\* Every read after the root was written finds all the files of the pack.
LEMMA SealedReads ==
  ASSUME PacksInv, FilesInv, sealed, NEW start, NEW end
  PROVE  /\ Supplies(ProofReader, <<Root>>, packed.anchor) /\ DecodesDescriptor(packed.anchor)
         /\ LeavesFor(packed.anchor[3], packed.anchor[2], start, end, ProofReader).ok
<1> DEFINE n == Len(packed.files)
           store == ProofReader
<1>1. phase # "published" /\ packed.ok /\ \A i \in 1..n : OnDisk(i)
  BY DEF FilesInv
<1>2. GoodPack(packed)
  BY <1>1 DEF PacksInv
<1>3. PICK j \in MemoryJobs \cup DiskJobs : packed = Pack(j) /\ Pack(j).ok
  BY <1>1, <1>2 DEF GoodPack
<1>4. j.file.length \in Nat \ {0} /\ PackedTree(packed, j.file, 0, j.file.length)
  BY <1>3, PackIsWhole
<1>5. DOMAIN packed.files = 1..n
  BY <1>2, GoodPackFiles DEF GoodFiles
<1>6. ASSUME NEW i \in 1..n
      PROVE  Supplies(store, packed.files[i].path, packed.files[i].content)
  <2> DEFINE path == packed.files[i].path
             content == packed.files[i].content
  <2>1. path \in DOMAIN disk /\ disk[path] = <<content>>
    BY <1>1, <1>6 DEF OnDisk
  <2>2. store = [q \in {p \in DOMAIN disk : disk[p] # <<>>} |-> disk[q][1]]
    BY DEF ProofReader
  <2> HIDE DEF path, content, store
  <2>3. path \in DOMAIN store /\ store[path] = content
    BY <2>1, <2>2
  <2>. QED
    BY <2>3 DEF Supplies, path, content
<1>7. \A i \in 1..n : Len(packed.files[i].path) <= MaxDepth + 1
  BY <1>3, DepthAssumption, <1>5 DEF ToSet
<1>8. Stocked(packed, store)
  BY <1>5, <1>6, <1>7 DEF Stocked
<1> HIDE DEF store
<1>9. /\ Supplies(store, <<Root>>, packed.anchor) /\ DecodesDescriptor(packed.anchor)
      /\ LeavesFor(packed.anchor[3], packed.anchor[2], start, end, store).ok
  BY ONLY <1>4, <1>8, StockedReads
<1>. QED
  BY <1>9 DEF store

\* RootComesLast, for every job, cap, fault and state of the disk: once a run
\* has written its root, no read of the anchor of its pack fails.
THEOREM RootIsLast == Spec => []RootComesLast
<1> DEFINE Inv == PacksInv /\ FilesInv /\ RootComesLast
<1>1. Init => Inv
  BY InitPacks, InitFiles DEF Init, ToSet, NoRead, RootComesLast
<1>2. Inv /\ [Next]_vars => Inv'
  <2> SUFFICES ASSUME Inv, [Next]_vars PROVE Inv'
    OBVIOUS
  <2>1. CASE Step /\ got' = NoRead
    BY <2>1, StepPacks, StepFiles DEF ToSet, NoRead, RootComesLast
  <2>2. ASSUME NEW i \in DOMAIN Anchored, NEW start \in 0..(Anchored[i].anchor[2] - 1),
               NEW end \in (start + 1)..Anchored[i].anchor[2], Read(Anchored[i], start, end)
        PROVE  Inv'
    <3> DEFINE anchor == Anchored[i].anchor
               found == IF Supplies(ProofReader, <<Root>>, anchor) /\ DecodesDescriptor(anchor)
                        THEN LeavesFor(anchor[3], anchor[2], start, end, ProofReader)
                        ELSE [ok |-> FALSE, leaves |-> <<>>]
               r == [of |-> Anchored[i], start |-> start, end |-> end, ok |-> found.ok, leaves |-> found.leaves]
    <3>1. /\ UNCHANGED <<job, packed, runs, phase, next, disk, alias, opened, sealed, printed>>
          /\ got' = <<r>>
      BY <2>2 DEF Read, output
    <3>2. PacksInv' /\ FilesInv'
      BY <3>1 DEF PacksInv, FilesInv, TypesInv, OnDisk, StillThere, Current
    <3>3. ASSUME anchor = packed.anchor, sealed PROVE found.ok
      BY <3>3, SealedReads
    <3>4. r.of.anchor = anchor /\ r.ok = found.ok
      OBVIOUS
    <3> HIDE DEF anchor, found, r
    <3>5. ToSet(got') = {r}
      BY <3>1 DEF ToSet
    <3>6. RootComesLast'
      BY <3>1, <3>3, <3>4, <3>5 DEF RootComesLast
    <3>. QED
      BY <3>2, <3>6
  <2>3. CASE UNCHANGED vars
    BY <2>3 DEF vars, output, PacksInv, RootComesLast, FilesInv, TypesInv, OnDisk, StillThere, Current
  <2>. QED
    BY <2>1, <2>2, <2>3 DEF Next
<1>3. Inv => RootComesLast
  OBVIOUS
<1>. QED
  BY <1>1, <1>2, <1>3, PTL DEF Spec

\* TypeOK, for every job: no meta of a pack exceeds the cap that readers put on it.
THEOREM TypesHold == Spec => []TypeOK
<1> DEFINE Inv == PacksInv /\ FilesInv
<1>1. Init => Inv
  BY InitPacks, InitFiles
<1>2. Inv /\ [Next]_vars => Inv'
  <2> SUFFICES ASSUME Inv, [Next]_vars PROVE Inv'
    OBVIOUS
  <2>1. CASE Step
    BY <2>1, StepPacks, StepFiles
  <2>2. ASSUME NEW i \in DOMAIN Anchored, NEW start \in 0..(Anchored[i].anchor[2] - 1),
               NEW end \in (start + 1)..Anchored[i].anchor[2], Read(Anchored[i], start, end)
        PROVE  UNCHANGED <<job, packed, runs, phase, next, disk, opened, sealed, printed>>
    BY <2>2 DEF Read, output
  <2>3. CASE UNCHANGED <<job, packed, runs, phase, next, disk, opened, sealed, printed>>
    BY <2>3 DEF PacksInv, FilesInv, TypesInv, OnDisk, StillThere, Current
  <2>4. CASE UNCHANGED vars
    BY <2>3, <2>4 DEF vars, output
  <2>. QED
    BY <2>1, <2>2, <2>3, <2>4 DEF Next
<1>3. Inv => TypeOK
  <2> SUFFICES ASSUME Inv PROVE TypeOK
    OBVIOUS
  <2>1. ASSUME phase # "published", NEW i \in DOMAIN packed.files, Last(packed.files[i].path) = Meta
        PROVE  Len(packed.files[i].content) \in 1..MetaMaxEntries
    <3>1. CASE packed.ok
      BY <2>1, <3>1, GoodPackFiles DEF PacksInv, GoodFiles
    <3>2. CASE ~packed.ok
      BY <2>1, <3>2, RefusedIs DEF FilesInv
    <3>. QED
      BY <3>1, <3>2
  <2>2. phase \in Phases /\ runs \in 0..MaxRuns /\ next \in 1..(Len(packed.files) + 1)
    BY DEF FilesInv, TypesInv
  <2>3. {packed.ok, opened, sealed} \subseteq BOOLEAN
    BY DEF FilesInv, TypesInv
  <2>. QED
    BY <2>1, <2>2, <2>3 DEF TypeOK, Phases
<1>. QED
  BY <1>1, <1>2, <1>3, PTL DEF Spec

-----------------------------------------------------------------------------
(***************************************************************************)
(* A fragment of an MP4 is one leaf.                                       *)
(***************************************************************************)
\* The first moof is one, and none is before it.
LEMMA FirstMoofIs ==
  ASSUME NEW boxes, NEW n \in Nat, DOMAIN boxes = 1..n, FirstMoof(boxes) # 0
  PROVE  /\ FirstMoof(boxes) \in 1..n /\ boxes[FirstMoof(boxes)].type = "moof"
         /\ \A i \in 1..n : boxes[i].type = "moof" => FirstMoof(boxes) <= i
<1> DEFINE moofs == {i \in 1..n : boxes[i].type = "moof"}
           first == FirstMoof(boxes)
<1>1. moofs # {} /\ first = CHOOSE i \in moofs : \A j \in moofs : i <= j
  BY DEF FirstMoof
<1>2. moofs \in SUBSET Nat
  OBVIOUS
<1>3. \E i \in moofs : \A j \in moofs : i <= j
  <2> HIDE DEF moofs
  <2>. QED
    BY ONLY <1>1, <1>2, LeastNat
<1>. QED
  BY <1>1, <1>3

\* A fragment begins where the segment boxes of the first moof do, or after an mdat.
LEMMA FragmentBegins ==
  ASSUME NEW boxes, NEW n \in Nat, DOMAIN boxes = 1..n, n = Len(boxes), FirstMoof(boxes) # 0,
         NEW s \in 1..n, NEW e \in 1..n, s < e, FragmentAt(boxes, s, e)
  PROVE  LET first == FirstMoof(boxes)
         IN  /\ s = SegmentStart(boxes, first) \/ s \in AfterMdat(boxes)
             /\ SegmentStart(boxes, first) \in 1..s
             /\ \A i \in AfterMdat(boxes) : i <= s \/ i > e
             /\ e = n \/ e + 1 \in AfterMdat(boxes)
<1> DEFINE first == FirstMoof(boxes)
           k == SegmentStart(boxes, first)
<1>1. /\ first \in 1..n /\ boxes[first].type = "moof"
      /\ \A i \in 1..n : boxes[i].type = "moof" => first <= i
  BY ONLY n \in Nat, DOMAIN boxes = 1..n, FirstMoof(boxes) # 0, FirstMoofIs DEF first
<1>2. PICK m \in s..(e - 1) : /\ boxes[m].type = "moof"
                              /\ \A i \in s..(m - 1) : boxes[i].type \in SegmentBoxes
                              /\ \A i \in (m + 1)..e : boxes[i].type = "mdat"
  BY ONLY FragmentAt(boxes, s, e), ZenonT(30) DEF FragmentAt
<1>3. /\ s = 1 \/ boxes[s - 1].type \notin SegmentBoxes \cup {"moof"}
      /\ s > first => boxes[s - 1].type = "mdat"
      /\ e = n \/ boxes[e + 1].type # "mdat"
  BY DEF FragmentAt
<1>4. "moof" \notin SegmentBoxes /\ "mdat" \notin SegmentBoxes
  BY DEF SegmentBoxes
<1>5. /\ k \in 1..first /\ \A j \in k..(first - 1) : boxes[j].type \in SegmentBoxes
      /\ k = 1 \/ boxes[k - 1].type \notin SegmentBoxes
  <2>1. first \in Nat \ {0}
    BY <1>1
  <2>. QED
    BY ONLY <2>1, StartWithin DEF k
<1> HIDE DEF first, k
<1>6. m \in 1..n /\ first <= m /\ first \in 1..n /\ m \in s..(e - 1)
  BY <1>1, <1>2
<1>7. ASSUME first = m PROVE k = s
  <2>1. ASSUME k < s PROVE FALSE
    <3>1. s - 1 \in k..(m - 1) /\ s # 1
      BY <1>2, <1>5, <1>6, <2>1
    <3>. QED
      BY ONLY <1>3, <1>5, <1>7, <3>1
  <2>2. ASSUME s < k PROVE FALSE
    BY <1>2, <1>5, <1>7, <2>2
  <2>. QED
    BY ONLY s \in 1..n, <1>1, <1>5, <2>1, <2>2
<1>8. ASSUME first # m PROVE first < s /\ s \in AfterMdat(boxes)
  <2>1. ASSUME s <= first, first <= m - 1 PROVE FALSE
    <3>1. first \in s..(m - 1)
      BY <1>6, <2>1
    <3>. QED
      BY <1>1, <1>2, <1>4, <3>1
  <2>2. first < s
    BY ONLY s \in 1..n, n \in Nat, <1>6, <1>8, <2>1
  <2>3. boxes[s - 1].type = "mdat" /\ boxes[s].type # "mdat"
    <3>1. s = m \/ s \in s..(m - 1)
      BY <1>2
    <3>. QED
      BY <1>1, <1>2, <1>3, <1>4, <2>2, <3>1
  <2>4. s \in (first + 1)..n
    BY <1>1, <2>2
  <2>. QED
    BY <2>2, <2>3, <2>4 DEF AfterMdat, first
<1>9. s = k \/ s \in AfterMdat(boxes)
  BY <1>7, <1>8
<1>10. k \in 1..s
  BY <1>1, <1>5, <1>7, <1>8
<1>11. ASSUME NEW i \in AfterMdat(boxes) PROVE i <= s \/ i > e
  <2>1. i \in Int /\ boxes[i - 1].type = "mdat" /\ boxes[i].type # "mdat"
    BY DEF AfterMdat
  <2>2. ASSUME s < i, i <= e PROVE i \in (m + 1)..e \/ i - 1 \in s..(m - 1)
    BY ONLY <1>6, <2>1, <2>2, s \in 1..n, e \in 1..n, n \in Nat
  <2>3. ASSUME s < i, i <= e PROVE FALSE
    BY ONLY <1>2, <1>4, <2>1, <2>2, <2>3
  <2>. QED
    BY ONLY <2>1, <2>3, s \in 1..n, e \in 1..n, n \in Nat
<1>12. e = n \/ e + 1 \in AfterMdat(boxes)
  <2>1. ASSUME e # n PROVE e + 1 \in AfterMdat(boxes)
    <3>1. e \in (m + 1)..e /\ (e + 1) - 1 = e
      BY ONLY <1>6, s \in 1..n, e \in 1..n, n \in Nat
    <3>2. boxes[(e + 1) - 1].type = "mdat" /\ boxes[e + 1].type # "mdat"
      BY <1>2, <1>3, <2>1, <3>1
    <3>3. e + 1 \in (first + 1)..n
      <4>1. first \in Nat /\ n \in Nat /\ e \in 1..n /\ m \in Nat /\ first <= m /\ m <= e - 1
        BY <1>1, <1>2, <1>6
      <4>. QED
        BY ONLY <2>1, <4>1
    <3>. QED
      BY <3>2, <3>3 DEF AfterMdat, first
  <2>. QED
    BY <2>1
<1>. QED
  BY <1>9, <1>10, <1>11, <1>12 DEF first, k

\* No cut inside a fragment, and one at both its ends.
LEMMA FragmentCut ==
  ASSUME NEW f, f.length \in Nat \ {0}, IsBoxes(f.boxes),
         NEW boxes, boxes = Mp4Walk(f).boxes, ~Mp4Walk(f).bad, FirstMoof(boxes) # 0,
         NEW s \in DOMAIN boxes, NEW e \in DOMAIN boxes, s < e, FragmentAt(boxes, s, e),
         NEW x, x = boxes[s].offset, NEW y, y = End(boxes[e])
  PROVE  /\ x \in Mp4CutPoints(f) /\ y \in Mp4CutPoints(f) /\ x < y
         /\ \A z \in Mp4CutPoints(f) : z <= x \/ y <= z
<1> DEFINE n == Len(boxes)
           l == f.length
           k == SegmentStart(boxes, FirstMoof(boxes))
           S == Mp4CutPoints(f)
<1>1. n \in Nat /\ DOMAIN boxes = 1..n /\ Chained(boxes, l)
  BY WalkIs
<1>2. PICK p \in [1..(n + 1) -> Nat] :
         /\ p[1] = 0 /\ p[n + 1] = l
         /\ \A i \in 1..n : /\ boxes[i].offset = p[i] /\ boxes[i].length \in Nat \ {0}
                          /\ p[i + 1] = p[i] + boxes[i].length
  BY <1>1 DEF Chained
<1>2a. \A i \in 1..n : p[i] < p[i + 1]
  <2> SUFFICES ASSUME NEW i \in 1..n PROVE p[i] < p[i + 1]
    OBVIOUS
  <2>1. i \in 1..(n + 1) /\ boxes[i].length \in Nat \ {0} /\ p[i + 1] = p[i] + boxes[i].length
    BY <1>1, <1>2
  <2>2. p[i] \in Nat
    BY ONLY <1>2, <2>1
  <2>. QED
    BY ONLY <2>1, <2>2
<1>3. S = {0, l, boxes[k].offset} \cup {boxes[i].offset : i \in AfterMdat(boxes)}
  BY DEF Mp4CutPoints, AfterMdat
<1>4. s \in 1..n /\ e \in 1..n
  BY <1>1
<1>5. /\ s = k \/ s \in AfterMdat(boxes)
      /\ k \in 1..s /\ \A i \in AfterMdat(boxes) : i <= s \/ i > e
      /\ e = n \/ e + 1 \in AfterMdat(boxes)
  BY <1>1, <1>4, FragmentBegins
<1>6. AfterMdat(boxes) \in SUBSET (1..n)
  BY <1>1, FirstMoofIs DEF AfterMdat
<1>7. \A i, j \in 1..(n + 1) : i <= j => p[i] <= p[j]
  <2>1. ASSUME NEW i \in 2..(n + 1) PROVE p[i - 1] < p[i]
    <3> DEFINE j == i - 1
    <3>1. j \in 1..n /\ j \in 1..(n + 1) /\ j + 1 = i
      BY <1>1
    <3> HIDE DEF j
    <3>2. p[j] < p[i]
      BY ONLY <1>2a, <3>1
    <3>. QED
      BY <3>2 DEF j
  <2>2. Ascends(p, n + 1)
    <3>1. n + 1 \in Nat
      BY <1>1
    <3>. QED
      BY <1>2, <2>1, <3>1, StepsAscend
  <2>. QED
    BY <2>2 DEF Ascends
<1> HIDE DEF n, k, S, l
<1>8. x = p[s] /\ y = p[e + 1]
  BY <1>2, <1>4 DEF End
<1>9. x \in S
  BY <1>3, <1>5
<1>10. y \in S
  BY <1>2, <1>3, <1>8, <1>6, <1>5
<1>11. x < y
  <2>1. s + 1 \in 1..(n + 1) /\ e + 1 \in 1..(n + 1) /\ s \in 1..(n + 1) /\ s + 1 <= e + 1
    <3>1. n \in Nat /\ s < e
      BY <1>1
    <3>. QED
      BY ONLY <1>4, <3>1
  <2>2. p[s] < p[s + 1] /\ p[s + 1] <= p[e + 1]
    BY ONLY <1>2a, <1>4, <1>7, <2>1
  <2>3. p[s] \in Nat /\ p[s + 1] \in Nat /\ p[e + 1] \in Nat
    BY <1>2, <2>1
  <2>. QED
    BY <1>8, <2>2, <2>3
<1>12. ASSUME NEW z \in S PROVE z <= x \/ y <= z
  <2>1. s \in 1..(n + 1) /\ e + 1 \in 1..(n + 1) /\ n + 1 \in 1..(n + 1) /\ p[s] \in Nat
    <3>1. s \in 1..(n + 1) /\ e + 1 \in 1..(n + 1) /\ n + 1 \in 1..(n + 1)
      BY ONLY <1>1, <1>4
    <3>. QED
      BY <1>2, <3>1
  <2>2. CASE z = 0
    BY <1>8, <2>1, <2>2
  <2>3. CASE z = l
    BY <1>1, <1>4, <1>7, <2>1, <1>2, <1>8, <2>3
  <2>4. ASSUME NEW i \in 1..n, i <= s \/ i > e, z = boxes[i].offset PROVE z <= x \/ y <= z
    <3>1. z = p[i] /\ i \in 1..(n + 1)
      BY <1>1, <1>2, <2>4
    <3>2. i <= s \/ e + 1 <= i
      BY <1>4, <2>4
    <3>. QED
      BY <1>7, <1>8, <2>1, <3>1, <3>2
  <2>5. CASE z = boxes[k].offset
    BY <1>1, <1>4, <1>5, <2>4, <2>5
  <2>6. CASE z \in {boxes[i].offset : i \in AfterMdat(boxes)}
    <3>1. PICK i \in AfterMdat(boxes) : z = boxes[i].offset
      BY <2>6
    <3>2. i \in 1..n /\ (i <= s \/ i > e)
      BY <1>5, <1>6
    <3>. QED
      BY <2>4, <3>1, <3>2
  <2>. QED
    BY <1>3, <2>2, <2>3, <2>5, <2>6
<1>. QED
  BY <1>9, <1>10, <1>11, <1>12 DEF S

\* Two cut points with none between them enclose a leaf.
LEMMA LeafBetween ==
  ASSUME NEW S, NEW l \in Nat, PointsTo(S, l), NEW x \in S, NEW y \in S, x < y,
         \A z \in S : z <= x \/ y <= z
  PROVE  \E i \in DOMAIN LeavesBetween(S) :
            LeavesBetween(S)[i].offset = x /\ LeavesBetween(S)[i].length = y - x
<1> DEFINE n == Cardinality(S)
           p == Ascending(S)
           s == LeavesBetween(S)
<1>1. S \in SUBSET Nat /\ IsFiniteSet(S)
  BY DEF PointsTo
<1>2. n \in Nat /\ p \in [1..n -> Nat] /\ Len(p) = n
  BY <1>1, AscendingIs
<1>3. Ascends(p, n)
  BY <1>1, AscendingIs
<1>4. (\A k \in 1..n : p[k] \in S) /\ \A z \in S : \E k \in 1..n : p[k] = z
  BY <1>1, AscendingIs
<1>5. s = [i \in 1..(Len(p) - 1) |-> [offset |-> p[i], length |-> p[i + 1] - p[i]]]
  BY DEF LeavesBetween
<1> HIDE DEF n, p, s
<1>6. PICK i \in 1..n : p[i] = x
  BY <1>4
<1>7. PICK k \in 1..n : p[k] = y
  BY <1>4
<1>8. x \in Nat /\ y \in Nat
  BY <1>1
<1>9. i < k
  BY <1>2, <1>3, <1>6, <1>7, <1>8 DEF Ascends
<1> DEFINE j == i + 1
<1>10. j \in 1..n /\ i < j /\ j <= k /\ i \in 1..(n - 1)
  BY <1>2, <1>9
<1> HIDE DEF j
<1>11. p[j] = y
  <2>1. p[i] < p[j] /\ p[j] \in S /\ p[j] \in Nat
    BY <1>2, <1>3, <1>4, <1>10 DEF Ascends
  <2>2. p[j] <= p[k]
    <3>1. j = k \/ p[j] < p[k]
      BY <1>2, <1>3, <1>10 DEF Ascends
    <3>. QED
      BY <1>7, <1>8, <2>1, <3>1
  <2>. QED
    BY <1>6, <1>7, <1>8, <2>1, <2>2
<1>12. i \in DOMAIN s /\ s[i] = [offset |-> p[i], length |-> p[j] - p[i]]
  BY <1>2, <1>5, <1>10 DEF j
<1>. QED
  BY <1>6, <1>11, <1>12 DEF s

\* Every fragment of a packed MP4 is a leaf of the pack.
LEMMA PackedFragments ==
  ASSUME NEW j \in MemoryJobs \cup DiskJobs, Pack(j).ok, Profile(j.file, j.opts) = "mp4",
         NEW boxes, boxes = Mp4Walk(j.file).boxes,
         NEW s \in DOMAIN boxes, NEW e \in DOMAIN boxes, s < e, FragmentAt(boxes, s, e)
  PROVE  \E i \in DOMAIN Pack(j).leaves : /\ Pack(j).leaves[i].offset = boxes[s].offset
                                          /\ End(Pack(j).leaves[i]) = End(boxes[e])
<1> DEFINE f == j.file
           cut == Cut(j)[1]
           S == Mp4CutPoints(f)
           x == boxes[s].offset
           y == End(boxes[e])
<1>1. f.length \in Nat \ {0}
  BY PackIsWhole
<1>2. Cut(j) # <<>> /\ Pack(j) = PackWithChunker(f, cut)
  BY DEF Pack, PackCut, Refused
<1>3. Cut(j) = CutMp4(f)
  BY <1>2 DEF Cut
<1>4. /\ f.type = "mp4" /\ ~Mp4Walk(f).bad /\ FirstMoof(boxes) # 0
      /\ cut.leaves = LeavesBetween(S)
  BY <1>2, <1>3 DEF CutMp4
<1>5. IsBoxes(f.boxes)
  BY <1>4, JobsAssumption
<1>6. Pack(j).leaves = Digested(f, cut.leaves)
  <2> DEFINE tree == BuildProofTree([b \in DOMAIN cut.bands |-> Digested(f, cut.bands[b])])
  <2>1. Pack(j) = Finished(f, cut, tree)
    BY <1>2 DEF PackWithChunker
  <2> HIDE DEF cut, tree, f
  <2>. QED
    BY <2>1 DEF Finished, Refused
<1> HIDE DEF cut, f
<1>7. PointsTo(S, f.length)
  BY <1>1, <1>4, <1>5, Mp4Points DEF f
<1>8. /\ x \in S /\ y \in S /\ x < y
      /\ \A z \in S : z <= x \/ y <= z
  BY <1>1, <1>4, <1>5, FragmentCut DEF f
<1> HIDE DEF S, x, y
<1>9. PICK i \in DOMAIN LeavesBetween(S) :
         LeavesBetween(S)[i].offset = x /\ LeavesBetween(S)[i].length = y - x
  BY <1>1, <1>7, <1>8, LeafBetween
<1>10. x \in Nat /\ y \in Nat
  BY <1>7, <1>8 DEF PointsTo
<1> DEFINE D == Pack(j).leaves
<1>11. i \in DOMAIN D /\ D[i].offset = x /\ D[i].length = y - x
  <2> DEFINE t == LeavesBetween(S)
  <2>1. D = [k \in DOMAIN t |-> [offset |-> t[k].offset, length |-> t[k].length,
                                  digest |-> <<f.id, t[k].offset, t[k].length>>]]
    BY <1>4, <1>6 DEF Digested
  <2>2. i \in DOMAIN t /\ t[i].offset = x /\ t[i].length = y - x
    BY <1>9
  <2> HIDE DEF D, t
  <2>. QED
    BY <2>1, <2>2
<1>12. End(D[i]) = y
  BY <1>10, <1>11 DEF End
<1>. QED
  BY <1>11, <1>12 DEF x, y

\* A step keeps VerifyInv.
LEMMA StepVerify ==
  ASSUME PacksInv, VerifyInv, Step
  PROVE  VerifyInv'
<1>1. CASE PackInput
  BY <1>1 DEF PackInput, PacksInv, Pack, PackCut, VerifyInv
<1>2. ASSUME NEW j \in DiskJobs, NEW input, Begin(j, input) PROVE phase' # "verify"
  BY <1>2 DEF Begin
<1>3. CASE MakeDirs \/ RefuseInputAliases \/ OpenCar \/ Truncate \/ Fill \/ EndProofs \/ WriteCar \/ RenameCar
           \/ Fail \/ Crash
  BY <1>3 DEF MakeDirs, RefuseInputAliases, OpenCar, Truncate, Fill, EndProofs, WriteCar, RenameCar, Fail,
     Crash, VerifyInv
<1>. QED
  BY <1>1, <1>2, <1>3 DEF Step, VerifyInv

\* VerifyInv holds.
LEMMA VerifyHolds == Spec => [](PacksInv /\ VerifyInv)
<1> DEFINE Inv == PacksInv /\ VerifyInv
<1>1. Init => Inv
  BY InitPacks DEF Init, VerifyInv
<1>2. Inv /\ [Next]_vars => Inv'
  BY StepPacks, StepVerify DEF Read, PacksInv, VerifyInv, vars, Next
<1>. QED
  BY <1>1, <1>2, PTL DEF Spec

\* FragmentIsOneLeaf, for every MP4: a player that reads a fragment reads one leaf.
THEOREM FragmentsAreLeaves == Spec => []FragmentIsOneLeaf
<1>1. VerifyInv => FragmentIsOneLeaf
  <2> SUFFICES ASSUME VerifyInv, phase = "verify", Profile(job.file, job.opts) = "mp4",
                      NEW boxes, boxes = Mp4Walk(job.file).boxes,
                      NEW s \in DOMAIN boxes, NEW e \in DOMAIN boxes, s < e, FragmentAt(boxes, s, e)
               PROVE  \E i \in DOMAIN packed.leaves : /\ packed.leaves[i].offset = boxes[s].offset
                                                       /\ End(packed.leaves[i]) = End(boxes[e])
    BY ZenonT(40) DEF FragmentIsOneLeaf, FragmentAt
  <2>1. job \in MemoryJobs \cup DiskJobs /\ packed = Pack(job) /\ Pack(job).ok
    BY DEF VerifyInv
  <2>2. \E i \in DOMAIN Pack(job).leaves : /\ Pack(job).leaves[i].offset = boxes[s].offset
                                            /\ End(Pack(job).leaves[i]) = End(boxes[e])
    BY <2>1, PackedFragments
  <2>. QED
    BY <2>1, <2>2
<1>. QED
  BY <1>1, VerifyHolds, PTL
-----------------------------------------------------------------------------
(***************************************************************************)
(* Counting shards without building the tree (shardTotal).                 *)
(***************************************************************************)
\* Digests do not move the shards.
LEMMA SameFirsts ==
  ASSUME NEW f, NEW s, IsSeq(s), Len(s) # 0
  PROVE  ShardFirsts(Digested(f, s)) = ShardFirsts(s)
<1> DEFINE n == Len(s)
           D == Digested(f, s)
<1>1. n \in Nat \ {0} /\ DOMAIN s = 1..n
  BY DEF IsSeq
<1>2. D = [i \in 1..n |-> D[i]] /\ \A i \in 1..n : D[i].offset = s[i].offset
  BY <1>1 DEF Digested
<1> HIDE DEF D
<1>3. Len(D) = n
  BY <1>1, <1>2, ValuesAreSeq
<1>4. PICK F : ShardFirsts(s) = F[n] /\ FirstsOf(F, s)
  BY <1>1, FirstsAre
<1>5. PICK G : ShardFirsts(D) = G[n] /\ FirstsOf(G, D)
  <2> HIDE DEF n
  <2>1. Len(D) \in Nat \ {0}
    BY <1>1, <1>3
  <2>. QED
    BY <1>3, <2>1, FirstsAre
<1>6. ASSUME NEW i \in 0..n
      PROVE  /\ F[i] = IF i <= 1 THEN <<1>>
                       ELSE IF FitsShard(s, Last(F[i - 1]), i) THEN F[i - 1] ELSE Append(F[i - 1], i)
             /\ G[i] = IF i <= 1 THEN <<1>>
                       ELSE IF FitsShard(D, Last(G[i - 1]), i) THEN G[i - 1] ELSE Append(G[i - 1], i)
  BY <1>3, <1>4, <1>5 DEF FirstsOf
<1>7. ASSUME NEW i \in 1..n PROVE F[i] \in Seq(Nat) /\ \E c : Begins(F[i], c, i)
  BY <1>4 DEF FirstsOf
<1> HIDE DEF n
<1> DEFINE T == {i \in 0..n : G[i] = F[i]}
<1>8. 0 \in T
  BY <1>1, <1>6
<1>9. ASSUME NEW k \in 0..n, k \in T, k < n PROVE k + 1 \in T
  <2> DEFINE i == k + 1
             q == F[k]
             a == Last(q)
  <2>1. i \in 1..n /\ i \in 0..n /\ i - 1 = k /\ G[k] = q
    BY <1>1, <1>9
  <2> HIDE DEF i
  <2>2. F[i] = IF i <= 1 THEN <<1>> ELSE IF FitsShard(s, a, i) THEN q ELSE Append(q, i)
    BY <1>6, <2>1
  <2>3. G[i] = IF i <= 1 THEN <<1>> ELSE IF FitsShard(D, a, i) THEN q ELSE Append(q, i)
    BY <1>6, <2>1
  <2>4. ASSUME ~(i <= 1) PROVE FitsShard(D, a, i) <=> FitsShard(s, a, i)
    <3>1. k \in 1..n
      BY <1>1, <2>1, <2>4
    <3>2. PICK c : Begins(q, c, k)
      BY <1>7, <3>1
    <3>3. a \in 1..k
      BY <3>2 DEF Begins, Last
    <3> HIDE DEF a
    <3>4. a \in 1..n
      BY <1>1, <3>1, <3>3
    <3>. QED
      BY <1>2, <2>1, <3>4 DEF FitsShard
  <2> HIDE DEF q, a
  <2>5. G[i] = F[i]
    BY <2>2, <2>3, <2>4
  <2>. QED
    BY <2>1, <2>5 DEF i
<1> HIDE DEF T
<1>10. \A k \in 0..n : k \in T
  BY <1>1, <1>8, <1>9, Ascent
<1>11. n \in T
  BY <1>1, <1>10
<1>. QED
  BY <1>4, <1>5, <1>11 DEF T, D

\* A sequence has as many shards whether its leaves are digested or not.
LEMMA ShardsCounted ==
  ASSUME NEW f, NEW s, IsSeq(s), Len(s) # 0
  PROVE  /\ Len(ShardRanges(s)) \in Nat \ {0}
         /\ IsSeq(ShardGroups(Digested(f, s)))
         /\ Len(ShardGroups(Digested(f, s))) = Len(ShardRanges(s))
<1> DEFINE D == Digested(f, s)
           firsts == ShardFirsts(s)
           parts == ShardRanges(s)
           runs1 == ShardRanges(D)
           shards == ShardGroups(D)
<1>1. Len(s) \in Nat \ {0}
  BY DEF IsSeq
<1>2. PICK c : Begins(firsts, c, Len(s))
  BY <1>1, ShardFirstsBegin
<1>3. c \in Nat \ {0} /\ DOMAIN firsts = 1..c
  BY <1>2 DEF Begins
<1>4. ShardFirsts(D) = firsts
  BY SameFirsts
<1> HIDE DEF firsts, D
<1>5. parts = [k \in 1..c |-> parts[k]] /\ runs1 = [k \in 1..c |-> runs1[k]]
  BY <1>3, <1>4 DEF ShardRanges, SplitAt, firsts
<1>6. DOMAIN runs1 = 1..c
  <2> HIDE DEF runs1
  <2>. QED
    BY <1>5
<1>7. shards = [k \in 1..c |-> shards[k]]
  BY <1>6 DEF ShardGroups
<1> HIDE DEF parts, shards
<1>8. Len(parts) = c
  BY <1>3, <1>5, ValuesAreSeq
<1>9. IsSeq(shards) /\ Len(shards) = c
  BY <1>3, <1>7, ValuesAreSeq
<1>. QED
  BY <1>3, <1>8, <1>9 DEF parts, shards, D

\* What is joined is flat if both are.
LEMMA FlatJoin ==
  ASSUME NEW a, NEW b, IsSeq(a), IsSeq(b)
  PROVE  Flat(a \o b) <=> Flat(a) /\ Flat(b)
<1> DEFINE c == a \o b
           m == Len(a)
           n == Len(b)
<1>1. /\ m \in Nat /\ n \in Nat /\ Len(c) = m + n
      /\ (\A i \in 1..m : c[i] = a[i]) /\ \A i \in 1..n : c[m + i] = b[i]
  BY JoinIs
<1> HIDE DEF c
<1>2. ASSUME Flat(c) PROVE Flat(a)
  BY <1>1, <1>2 DEF Flat
<1>3. ASSUME Flat(c) PROVE Flat(b)
  BY <1>1, <1>3 DEF Flat
<1>4. ASSUME Flat(a), Flat(b) PROVE Flat(c)
  <2> SUFFICES ASSUME NEW i \in 1..Len(c) PROVE c[i].kind = Shard
    BY DEF Flat
  <2>1. CASE i \in 1..m
    BY <1>1, <1>4, <2>1 DEF Flat
  <2>2. CASE i \notin 1..m
    <3> DEFINE k == i - m
    <3>1. k \in 1..n /\ i = m + k
      BY <1>1, <2>2
    <3> HIDE DEF k
    <3>2. c[i] = b[k]
      BY <1>1, <3>1
    <3>. QED
      BY <1>4, <3>1, <3>2 DEF Flat
  <2>. QED
    BY <2>1, <2>2
<1>. QED
  BY <1>2, <1>3, <1>4 DEF c

\* A band of m shards is placed flat when they fit, with a slot for each later band.
LEMMA PlacedFlat ==
  ASSUME NEW tree, IsSeq(tree.entries), tree.later \in Int,
         NEW band, IsSeq(ShardGroups(band)), NEW m \in Nat \ {0}, Len(ShardGroups(band)) = m,
         NEW new, new = PlaceBand(tree, band)
  PROVE  /\ IsSeq(new.entries) /\ new.later = tree.later - 1
         /\ IF m <= MetaMaxEntries /\ Len(tree.entries) + m + (tree.later - 1) <= TopMaxEntries
            THEN Len(new.entries) = Len(tree.entries) + m /\ (Flat(new.entries) <=> Flat(tree.entries))
            ELSE ~Flat(new.entries)
<1> DEFINE shards == ShardGroups(band)
           later == tree.later - 1
           Fits(x) == Len(tree.entries) + x + later <= TopMaxEntries
           y == IF SubMetaMaxEntries < MetaMaxEntries THEN SubMetaMaxEntries ELSE MetaMaxEntries
           subs == CeilDiv(m, y)
           count == IF Fits(subs) THEN subs ELSE 1
           chunks == SplitEvenly(shards, count)
           drecs == [k \in DOMAIN chunks |-> DirRecord(chunks[k], EmitDir(chunks[k]).meta)]
           recs == ShardRecords(shards)
           es == tree.entries
<1>1. /\ new.later = later
      /\ IF m <= MetaMaxEntries /\ Fits(m) THEN new.entries = es \o recs ELSE new.entries = es \o drecs
  BY DEF PlaceBand
<1>2. IsSeq(recs) /\ Len(recs) = m /\ Flat(recs)
  <2>1. DOMAIN shards = 1..m
    BY DEF IsSeq
  <2>2. recs = [k \in 1..m |-> recs[k]] /\ \A k \in 1..m : recs[k].kind = Shard
    BY <2>1 DEF ShardRecords
  <2> HIDE DEF recs
  <2>3. IsSeq(recs) /\ Len(recs) = m
    BY <2>2, ValuesAreSeq
  <2>. QED
    BY <2>2, <2>3 DEF Flat
<1>3. IsSeq(drecs) /\ ~Flat(drecs)
  <2>1. y \in Nat \ {0}
    BY TreeAssumption
  <2> HIDE DEF y
  <2>2. subs \in Nat \ {0}
    BY <2>1, CeilDivIs
  <2> HIDE DEF subs, Fits
  <2>3. count \in Nat \ {0}
    BY <2>2
  <2> HIDE DEF count
  <2>4. DOMAIN chunks = 1..count
    BY <2>3 DEF SplitEvenly, SplitAt
  <2> HIDE DEF chunks
  <2>5. drecs = [k \in 1..count |-> drecs[k]] /\ \A k \in 1..count : drecs[k].kind = Dir
    BY <2>4 DEF DirRecord
  <2> HIDE DEF drecs
  <2>6. IsSeq(drecs) /\ Len(drecs) = count
    BY <2>3, <2>5, ValuesAreSeq
  <2>7. 1 \in 1..count /\ Dir # Shard
    BY <2>3 DEF Dir, Shard
  <2>8. drecs[1].kind = Dir /\ 1 \in 1..Len(drecs)
    BY <2>5, <2>6, <2>7
  <2>9. ~Flat(drecs)
    BY <2>7, <2>8 DEF Flat
  <2>. QED
    BY <2>6, <2>9
<1> HIDE DEF recs, drecs, es, Fits, later
<1>4. IsSeq(es)
  BY DEF es
<1>5. IsSeq(es \o recs) /\ Len(es \o recs) = Len(es) + m /\ (Flat(es \o recs) <=> Flat(es))
  BY <1>2, <1>4, JoinIs, FlatJoin
<1>6. IsSeq(es \o drecs) /\ ~Flat(es \o drecs)
  BY <1>3, <1>4, JoinIs, FlatJoin
<1>7. CASE m <= MetaMaxEntries /\ Fits(m)
  BY <1>1, <1>5, <1>7 DEF Fits, later, es
<1>8. CASE ~(m <= MetaMaxEntries /\ Fits(m))
  BY <1>1, <1>6, <1>8 DEF Fits, later, es
<1>. QED
  BY <1>7, <1>8

\* Every later band has a shard at least.
LEMMA CountsGrow ==
  ASSUME NEW bands, NEW N \in Nat, NEW t, Counts(t, bands, N)
  PROVE  \A i \in 0..N : t[i] + (N - i) <= t[N]
<1> DEFINE T == {k \in 0..N : t[N - k] + k <= t[N]}
<1>1. /\ t \in [0..N -> Nat]
      /\ \A i \in 1..N : Len(ShardGroups(bands[i])) \in Nat \ {0} /\ t[i] = t[i - 1] + Len(ShardGroups(bands[i]))
  BY DEF Counts
<1>2. 0 \in T
  BY <1>1
<1>3. ASSUME NEW k \in 0..N, k \in T, k < N PROVE k + 1 \in T
  <2> DEFINE i == N - k
             m == Len(ShardGroups(bands[i]))
  <2>1. i \in 1..N /\ i \in 0..N /\ i - 1 \in 0..N /\ N - (k + 1) = i - 1 /\ k + 1 \in 0..N /\ N \in 0..N
    BY <1>3
  <2>2. t[i] + k <= t[N]
    BY <1>3
  <2> HIDE DEF i
  <2>3. m \in Nat \ {0} /\ t[i] = t[i - 1] + m
    BY <1>1, <2>1
  <2>4. t[i - 1] \in Nat /\ t[N] \in Nat
    BY <1>1, <2>1
  <2> HIDE DEF m
  <2>5. t[i - 1] + (k + 1) <= t[N]
    BY <2>2, <2>3, <2>4
  <2>. QED
    BY <2>1, <2>5
<1>4. \A k \in 0..N : k \in T
  <2> HIDE DEF T
  <2>. QED
    BY <1>2, <1>3, Ascent
<1>5. ASSUME NEW i \in 0..N PROVE t[i] + (N - i) <= t[N]
  BY <1>4
<1>. QED
  BY <1>5

\* The tree is flat when all the shards fit in the top meta; it then has one entry for each.
LEMMA TreeFlat ==
  ASSUME NEW bands, NEW N \in Nat, Len(bands) = N, NEW t, Counts(t, bands, N),
         NEW es, es = BuildProofTree(bands).entries
  PROVE  /\ IsSeq(es)
         /\ t[N] <= TopMaxEntries => Flat(es)
         /\ Flat(es) => Len(es) = t[N]
<1> DEFINE F == CHOOSE f : Placing(f, bands)
<1>1. Placing(F, bands)
  BY PlacingExists
<1>2. es = F[N].entries
  BY DEF BuildProofTree, Placing
<1> HIDE DEF F
<1>3. /\ F[0] = [files |-> <<>>, entries |-> <<>>, later |-> N]
      /\ \A i \in 1..N : F[i] = PlaceBand(F[i - 1], bands[i])
  BY <1>1 DEF Placing
<1>4. /\ t \in [0..N -> Nat] /\ t[0] = 0
      /\ \A i \in 1..N : /\ Len(ShardGroups(bands[i])) \in Nat \ {0}
                         /\ IsSeq(ShardGroups(bands[i]))
                         /\ t[i] = t[i - 1] + Len(ShardGroups(bands[i]))
  BY DEF Counts
<1> DEFINE Ok(i) == /\ IsSeq(F[i].entries) /\ F[i].later = N - i
                    /\ Flat(F[i].entries) => Len(F[i].entries) = t[i]
                    /\ t[N] <= TopMaxEntries => Flat(F[i].entries)
           T == {i \in 0..N : Ok(i)}
<1>5. 0 \in T
  <2>1. F[0].entries = <<>> /\ F[0].later = N
    BY <1>3
  <2>2. IsSeq(<<>>) /\ Len(<<>>) = 0 /\ Flat(<<>>)
    BY DEF IsSeq, Flat
  <2>3. 0 \in 0..N /\ N - 0 = N
    OBVIOUS
  <2>. QED
    BY <1>4, <2>1, <2>2, <2>3
<1>6. ASSUME NEW k \in 0..N, k \in T, k < N PROVE k + 1 \in T
  <2> DEFINE i == k + 1
             tree == F[k]
             new == F[i]
             m == Len(ShardGroups(bands[i]))
             l == Len(tree.entries)
  <2>1. i \in 1..N /\ i \in 0..N /\ i - 1 = k /\ k \in Nat /\ i = k + 1 /\ N \in 0..N
    BY <1>6
  <2>2. Ok(k)
    BY <1>6
  <2> HIDE DEF i
  <2>3. m \in Nat \ {0} /\ IsSeq(ShardGroups(bands[i])) /\ t[i] = t[k] + m /\ new = PlaceBand(tree, bands[i])
    BY <1>3, <1>4, <2>1
  <2>4. {t[k], t[i], t[N]} \subseteq Nat /\ l \in Nat
    BY <1>4, <2>1, <2>2, SMTT(30) DEF IsSeq
  <2>5. t[i] + (N - i) <= t[N]
    BY <2>1, CountsGrow
  <2>6. IsSeq(tree.entries) /\ tree.later \in Int /\ tree.later - 1 = N - i
    BY <2>1, <2>2
  <2>7. /\ Flat(tree.entries) => l = t[k]
        /\ t[N] <= TopMaxEntries => Flat(tree.entries)
    BY <2>2
  <2> HIDE DEF tree, new, Ok
  <2>8. /\ IsSeq(new.entries) /\ new.later = tree.later - 1
        /\ IF m <= MetaMaxEntries /\ l + m + (tree.later - 1) <= TopMaxEntries
           THEN Len(new.entries) = l + m /\ (Flat(new.entries) <=> Flat(tree.entries))
           ELSE ~Flat(new.entries)
    BY <2>3, <2>6, PlacedFlat
  <2> DEFINE w == new.entries
             Room == m <= MetaMaxEntries /\ l + m + (tree.later - 1) <= TopMaxEntries
  <2>9. /\ Room => Len(w) = l + m /\ (Flat(w) <=> Flat(tree.entries))
        /\ ~Room => ~Flat(w)
    BY <2>8
  <2>10. ASSUME t[N] <= TopMaxEntries PROVE Room
    <3>1. l = t[k]
      BY <2>7, <2>10
    <3>2. TopMaxEntries <= MetaMaxEntries /\ TopMaxEntries \in Nat /\ MetaMaxEntries \in Nat
      BY TreeAssumption
    <3> HIDE DEF m, l
    <3>3. l + m + (tree.later - 1) <= TopMaxEntries
      BY <2>1, <2>3, <2>4, <2>5, <2>6, <2>10, <3>1, <3>2, SMTT(30)
    <3>4. m <= MetaMaxEntries
      BY <2>1, <2>3, <2>4, <2>5, <2>10, <3>1, <3>2, SMTT(30)
    <3>. QED
      BY <3>3, <3>4
  <2> HIDE DEF Room, m, l
  <2>11. Flat(w) => Len(w) = t[i]
    BY <2>3, <2>4, <2>7, <2>9
  <2>12. t[N] <= TopMaxEntries => Flat(w)
    BY <2>7, <2>9, <2>10
  <2>13. Ok(i)
    BY <2>6, <2>8, <2>11, <2>12 DEF Ok, new
  <2>. QED
    BY <2>1, <2>13 DEF i
<1> HIDE DEF T
<1>7. \A k \in 0..N : k \in T
  BY <1>5, <1>6, Ascent
<1>8. N \in T
  BY <1>7
<1>. QED
  BY <1>2, <1>8 DEF T

\* The shards that shardTotal counts are those of the digested bands.
LEMMA TotalIs ==
  ASSUME NEW f, NEW bands, NEW N \in Nat, NEW digested, DigestedBands(digested, f, bands, N)
  PROVE  \E t : Counts(t, digested, N) /\ t[N] = TotalShards(bands)
<1> DEFINE m(i) == Len(ShardRanges(bands[i]))
           G == [i \in 1..N |-> [q \in Nat |-> q + m(i)]]
           C == CHOOSE t : TotalOf(t, bands)
<1>1. ASSUME NEW i \in 1..N
      PROVE  /\ m(i) \in Nat \ {0} /\ IsSeq(ShardGroups(digested[i]))
             /\ Len(ShardGroups(digested[i])) = m(i)
  <2> DEFINE s == bands[i]
  <2>1. IsSeq(s) /\ Len(s) # 0 /\ digested[i] = Digested(f, s)
    BY DEF DigestedBands
  <2> HIDE DEF s
  <2>2. /\ Len(ShardRanges(s)) \in Nat \ {0} /\ IsSeq(ShardGroups(Digested(f, s)))
        /\ Len(ShardGroups(Digested(f, s))) = Len(ShardRanges(s))
    BY <2>1, ShardsCounted
  <2>. QED
    BY <2>1, <2>2 DEF s
<1> HIDE DEF m
<1>2. G \in [1..N -> [Nat -> Nat]] /\ \A i \in 1..N, q \in Nat : G[i][q] = q + m(i)
  BY <1>1
<1> HIDE DEF G
<1>3. PICK t \in [0..N -> Nat] : t[0] = 0 /\ \A i \in 1..N : t[i] = G[i][t[i - 1]]
  <2> DEFINE S == Nat
             base == 0
  <2>1. base \in S /\ N \in Nat
    OBVIOUS
  <2>2. G \in [1..N -> [S -> S]]
    BY <1>2
  <2> HIDE DEF S, base
  <2>3. \E t \in [0..N -> S] : t[0] = base /\ \A i \in 1..N : t[i] = G[i][t[i - 1]]
    BY ONLY <2>1, <2>2, Recursion
  <2>. QED
    BY <2>3 DEF S, base
<1>4. ASSUME NEW i \in 1..N PROVE t[i] = t[i - 1] + m(i)
  <2>1. i - 1 \in 0..N
    OBVIOUS
  <2>2. t[i - 1] \in Nat
    BY <2>1
  <2>. QED
    BY <1>2, <1>3, <2>2
<1>5. Len(bands) = N
  BY DEF DigestedBands
<1>6. TotalOf(t, bands)
  BY <1>3, <1>4, <1>5 DEF m, TotalOf
<1>7. TotalOf(C, bands)
  BY <1>6
<1> HIDE DEF C
<1>8. C[0] = 0 /\ \A i \in 1..N : C[i] = C[i - 1] + m(i)
  BY <1>5, <1>7 DEF TotalOf, m
<1> DEFINE T == {i \in 0..N : C[i] = t[i]}
<1>9. 0 \in T
  BY <1>3, <1>8
<1>10. ASSUME NEW k \in 0..N, k \in T, k < N PROVE k + 1 \in T
  <2> DEFINE i == k + 1
  <2>1. i \in 1..N /\ i \in 0..N /\ i - 1 = k
    BY <1>10
  <2> HIDE DEF i
  <2>2. C[i] = C[k] + m(i) /\ t[i] = t[k] + m(i) /\ C[k] = t[k]
    BY <1>4, <1>8, <1>10, <2>1
  <2>. QED
    BY <2>1, <2>2 DEF i
<1>11. \A k \in 0..N : k \in T
  <2> HIDE DEF T
  <2>. QED
    BY <1>9, <1>10, Ascent
<1>12. t[N] = TotalShards(bands)
  BY <1>11, <1>5 DEF C, TotalShards
<1>13. Counts(t, digested, N)
  BY <1>1, <1>3, <1>4 DEF Counts
<1>. QED
  BY <1>12, <1>13

\* What pack makes of an archive cut with a budget.
LEMMA ArchivePack ==
  ASSUME NEW j \in MemoryJobs \cup DiskJobs, Pack(j).ok, Pack(j).budget # Unset,
         NEW f, f = j.file, NEW b, b = Pack(j).budget
  PROVE  /\ f.length \in Nat \ {0} /\ IsArchive(f) /\ Parses(f)
         /\ Cut(j) = CutAt(f, b) /\ Pack(j) = PackWithChunker(f, CutAt(f, b)[1])
         /\ b = IF j.opts.tileGroup = Unset THEN ChoosePmtilesTileGroup(f) ELSE j.opts.tileGroup
<1> DEFINE opts == j.opts
           cut == Cut(j)[1]
<1>1. Cut(j) # <<>> /\ Pack(j) = PackWithChunker(f, cut)
  BY DEF Pack, PackCut, Refused
<1>2. b = cut.budget
  BY <1>1 DEF PackWithChunker, Finished, Refused
<1>3. Cut(j) = CutPmtiles(f, opts)
  BY <1>1, <1>2, JobsAssumption DEF CutMp4, CutFixed, Profile, Cut
<1> DEFINE budget == IF opts.tileGroup = Unset THEN ChoosePmtilesTileGroup(f) ELSE opts.tileGroup
<1>4. Parses(f) /\ Cut(j) = CutAt(f, budget)
  BY <1>1, <1>3 DEF CutPmtiles
<1>5. cut.budget = budget
  <2> HIDE DEF budget
  <2>. QED
    BY <1>4 DEF CutAt
<1>6. IsArchive(f)
  BY <1>4, JobsAssumption DEF Parses
<1>7. f.length \in Nat \ {0}
  <2>1. [offset |-> 0, length |-> HeaderSize] \in Sections(f)
    BY DEF Sections
  <2>2. HeaderSize <= f.length
    BY <1>4, <2>1, CutsAssumption DEF Parses, End
  <2>3. f.length \in Nat /\ HeaderSize \in Nat \ {0}
    BY JobsAssumption, CutsAssumption
  <2>. QED
    BY <2>2, <2>3
<1> HIDE DEF budget
<1>. QED
  BY <1>1, <1>2, <1>4, <1>5, <1>6, <1>7 DEF budget

\* The entries of an archive's tree, and the shards that are counted.
LEMMA ArchiveFlat ==
  ASSUME NEW j \in MemoryJobs \cup DiskJobs, Pack(j).ok, Pack(j).budget # Unset,
         NEW es, es = Pack(j).entries
  PROVE  IsSeq(es) /\ (Flat(es) <=> ShardTotal(j.file, Pack(j).budget) <= TopMaxEntries)
<1> DEFINE f == j.file
           b == Pack(j).budget
           cut == CutAt(f, b)[1]
           groups == GroupedTileRanges(TileRanges(f), b)
           leaves == PmtilesLeaves(f, b)
           bands == PmtilesBands(f, leaves, groups)
           digested == [k \in DOMAIN bands |-> Digested(f, bands[k])]
           tree == BuildProofTree(digested)
           total == TotalShards(bands)
<1>1. /\ f.length \in Nat \ {0} /\ IsArchive(f) /\ Parses(f)
      /\ Cut(j) = CutAt(f, b) /\ Pack(j) = PackWithChunker(f, cut)
  BY ArchivePack
<1>2. cut.bands = bands /\ cut.leaves = leaves
  BY DEF CutAt
<1>3. ShardTotal(f, b) = total
  BY DEF ShardTotal, TotalOf, TotalShards
<1>4. Pack(j) = Finished(f, cut, tree)
  BY <1>1, <1>2 DEF PackWithChunker
<1> HIDE DEF tree, cut
<1>5. es = tree.entries /\ Len(es) <= TopMaxEntries
  BY <1>4 DEF Finished, Refused, TreeEncodes
<1>6. PICK p : LineTo(leaves, p, f.length)
  BY <1>1, ArchiveLines DEF CutsLine, PmtilesLeaves
<1> HIDE DEF leaves, groups
<1>7. IsSeq(leaves) /\ Len(leaves) # 0
  BY <1>6 DEF LineTo, IsLine, Placed
<1>8. PICK c, g : CutInto(bands, leaves, c, g)
  BY <1>7, PmtilesCut
<1> HIDE DEF bands
<1>9. /\ c \in Nat \ {0} /\ Runs(g, c, 1, Len(leaves)) /\ IsSeq(bands) /\ Len(bands) = c
      /\ \A k \in 1..c : bands[k] = SubSeq(leaves, g[k][1], g[k][2])
  BY <1>8 DEF CutInto
<1>10. ASSUME NEW k \in 1..c PROVE IsSeq(bands[k]) /\ Len(bands[k]) # 0
  <2> DEFINE x == g[k][1]
             y == g[k][2]
             n == Len(leaves)
  <2>1. n \in Nat
    BY <1>7 DEF IsSeq
  <2>2. x \in 1..n /\ y \in x..n
    BY <1>9, RunsParts
  <2> HIDE DEF x, y, n
  <2>3. x \in Nat \ {0} /\ y \in Nat /\ x <= y /\ y <= n
    BY <2>1, <2>2
  <2>4. x <= y + 1 /\ y <= Len(leaves)
    BY <2>3 DEF n
  <2>5. IsSeq(SubSeq(leaves, x, y)) /\ Len(SubSeq(leaves, x, y)) = y - x + 1
    BY ONLY <1>7, <2>3, <2>4, SubSeqIs
  <2>6. bands[k] = SubSeq(leaves, x, y)
    BY <1>9 DEF x, y
  <2>. QED
    BY <2>3, <2>5, <2>6
<1>11. DOMAIN bands = 1..c
  BY <1>9 DEF IsSeq
<1>12. (\A k \in 1..c : digested[k] = Digested(f, bands[k])) /\ digested = [k \in 1..c |-> digested[k]]
  BY <1>11
<1> HIDE DEF digested, total, f
<1>13. Len(digested) = c /\ c \in Nat
  BY <1>9, <1>12, ValuesAreSeq
<1>14. PICK t : Counts(t, digested, c) /\ t[c] = total
  <2>1. DigestedBands(digested, f, bands, c)
    BY <1>9, <1>10, <1>12 DEF DigestedBands
  <2>. QED
    BY <1>13, <2>1, TotalIs DEF total
<1>15. /\ IsSeq(es)
       /\ t[c] <= TopMaxEntries => Flat(es)
       /\ Flat(es) => Len(es) = t[c]
  BY <1>5, <1>13, <1>14, TreeFlat DEF tree
<1>16. Flat(es) <=> ShardTotal(f, b) <= TopMaxEntries
  BY <1>3, <1>5, <1>14, <1>15
<1>. QED
  BY <1>15, <1>16 DEF f

\* The budget chosen by counting: the first whose shards fit in the top meta.
LEMMA ChosenIs ==
  ASSUME NEW f, NEW b, b = ChoosePmtilesTileGroup(f), ~(ShardTotal(f, b) <= TopMaxEntries)
  PROVE  b = Last(TileGroupCandidates)
<1> DEFINE n == Len(TileGroupCandidates)
           flat == {i \in DOMAIN TileGroupCandidates : ShardTotal(f, TileGroupCandidates[i]) <= TopMaxEntries}
<1> SUFFICES ASSUME flat # {} PROVE FALSE
  BY DEF ChoosePmtilesTileGroup
<1>1. flat \in SUBSET Nat
  BY CutsAssumption
<1>2. \E i \in flat : \A k \in flat : i <= k
  <2> HIDE DEF flat
  <2>. QED
    BY <1>1, LeastNat
<1> DEFINE i == CHOOSE i \in flat : \A k \in flat : i <= k
<1>3. i \in flat
  BY <1>2
<1>4. b = TileGroupCandidates[i]
  BY DEF ChoosePmtilesTileGroup
<1> HIDE DEF i
<1>. QED
  BY <1>3, <1>4

\* FlatWhenFits, for every archive: the budget chosen by counting is right.
THEOREM CountsAreRight == Spec => []FlatWhenFits
<1>1. VerifyInv => FlatWhenFits
  <2> SUFFICES ASSUME VerifyInv, phase = "verify", packed.budget # Unset,
                      NEW flat, flat = \A i \in DOMAIN packed.entries : packed.entries[i].kind = Shard
               PROVE  /\ flat <=> ShardTotal(job.file, packed.budget) <= TopMaxEntries
                      /\ job.opts.tileGroup = Unset /\ ~flat => packed.budget = Last(TileGroupCandidates)
    BY DEF FlatWhenFits
  <2> DEFINE es == packed.entries
             b == packed.budget
             f == job.file
  <2>1. job \in MemoryJobs \cup DiskJobs /\ packed = Pack(job) /\ packed.ok
    BY DEF VerifyInv
  <2>2. IsSeq(es) /\ (Flat(es) <=> ShardTotal(f, b) <= TopMaxEntries)
    BY <2>1, ArchiveFlat
  <2>3. b = IF job.opts.tileGroup = Unset THEN ChoosePmtilesTileGroup(f) ELSE job.opts.tileGroup
    BY <2>1, ArchivePack
  <2>4. flat <=> Flat(es)
    <3>1. DOMAIN es = 1..Len(es)
      BY <2>2 DEF IsSeq
    <3> HIDE DEF es
    <3>2. Flat(es) <=> \A i \in DOMAIN es : es[i].kind = Shard
      BY <3>1 DEF Flat
    <3>. QED
      BY <3>2 DEF es
  <2> HIDE DEF es, b, f
  <2>5. flat <=> ShardTotal(f, b) <= TopMaxEntries
    BY <2>2, <2>4
  <2>6. ASSUME job.opts.tileGroup = Unset, ~flat PROVE b = Last(TileGroupCandidates)
    BY <2>3, <2>6, <2>5, ChosenIs
  <2>. QED
    BY <2>5, <2>6 DEF b, f
<1>. QED
  BY <1>1, VerifyHolds, PTL

-----------------------------------------------------------------------------
(***************************************************************************)
(* What is fetched for a tile.                                             *)
(***************************************************************************)
\* A tile that is grouped is held, and so are the tiles before it.
LEMMA GroupedHolds ==
  ASSUME NEW T, NEW M \in Int, NEW q \in Seq(Ranges(T, M)), NEW tile \in Ranges(T, M), NEW budget \in Nat
  PROVE  /\ InGroup(GroupedWith(q, tile, budget), tile, budget)
         /\ \A t \in Ranges(T, M) : InGroup(q, t, budget) => InGroup(GroupedWith(q, tile, budget), t, budget)
<1> DEFINE n == Len(q)
           B == Ranges(T, M)
           last == q[n]
           sum == last.length + tile.length
           new == [last EXCEPT !.length = sum]
           more == [q EXCEPT ![n] = new]
           grouped == GroupedWith(q, tile, budget)
           joins == q # <<>> /\ tile.offset = End(last) /\ sum <= budget
<1>1. n \in Nat /\ DOMAIN q = 1..n /\ \A i \in 1..n : q[i] \in B
  OBVIOUS
<1>2. tile.offset \in Nat /\ tile.length \in Nat
  BY RangesAre
<1>3. \A i \in 1..n : q[i].offset \in Nat /\ q[i].length \in Nat
  BY <1>1, RangesAre
<1>4. grouped = Append(q, tile) \/ (joins /\ grouped = more)
  <2>1. GroupedWith(q, tile, budget) = IF \/ q = <<>> \/ tile.offset # End(last) \/ budget = 0
                                          \/ last.length + tile.length > budget
                                       THEN Append(q, tile) ELSE [q EXCEPT ![n].length = @ + tile.length]
    BY DEF GroupedWith, Last
  <2>2. ASSUME q # <<>>, ~(last.length + tile.length > budget) PROVE sum <= budget
    BY <1>1, <2>2, <1>3, <1>2
  <2>3. [q EXCEPT ![n].length = @ + tile.length] = more
    OBVIOUS
  <2> HIDE DEF more, sum, last, grouped
  <2>. QED
    BY <2>1, <2>2, <2>3 DEF grouped, sum
<1> HIDE DEF grouped, more, new
<1>5. CASE grouped = Append(q, tile)
  <2>1. Len(grouped) = n + 1 /\ grouped[n + 1] = tile /\ \A i \in 1..n : grouped[i] = q[i]
    BY <1>5
  <2>2. Holds(tile, tile, budget)
    BY <1>2 DEF Holds, End
  <2>3. n + 1 \in 1..(n + 1) /\ \A i \in 1..n : i \in 1..(n + 1)
    BY <1>1
  <2> HIDE DEF n
  <2>4. InGroup(grouped, tile, budget)
    BY <2>1, <2>2, <2>3 DEF InGroup
  <2>5. ASSUME NEW t \in B, InGroup(q, t, budget) PROVE InGroup(grouped, t, budget)
    BY <2>1, <2>3, <2>5 DEF InGroup, n
  <2>. QED
    BY <2>4, <2>5 DEF grouped
<1>6. CASE joins /\ grouped = more
  <2>1. n \in 1..n /\ n # 0
    BY <1>1, <1>6
  <2>2. last \in B
    BY <1>1, <2>1
  <2>3. new.offset = last.offset /\ new.length = sum
    <3>1. B = {r \in [offset : Nat, length : Nat, tileId : T] : End(r) <= M}
      BY DEF Ranges
    <3>2. last \in [offset : Nat, length : Nat, tileId : T]
      BY <2>2, <3>1
    <3> HIDE DEF last, sum
    <3>. QED
      BY <3>2 DEF new
  <2>4. Len(grouped) = n /\ grouped[n] = new /\ \A i \in 1..n : i # n => grouped[i] = q[i]
    BY <1>6, <2>1 DEF more
  <2>5. last.offset \in Nat /\ last.length \in Nat
    BY <1>3, <2>1
  <2>6. tile.offset = last.offset + last.length /\ sum <= budget
    BY <1>6 DEF End
  <2> HIDE DEF last, n
  <2>7. sum = last.length + tile.length /\ sum \in Nat
    BY <1>2, <2>5
  <2> HIDE DEF sum
  <2>8. Holds(new, tile, budget)
    BY <1>2, <2>3, <2>5, <2>6, <2>7 DEF Holds, End
  <2>9. ASSUME NEW t \in B, Holds(last, t, budget) PROVE Holds(new, t, budget)
    <3>1. t.offset \in Nat /\ t.length \in Nat
      BY RangesAre
    <3>2. last.offset <= t.offset /\ End(t) <= End(last)
          /\ (last.length <= budget \/ last.length <= t.length)
      BY <2>9 DEF Holds
    <3>3. End(last) <= End(new) /\ new.length <= budget
      BY <1>2, <2>3, <2>5, <2>6, <2>7 DEF End
    <3>. QED
      BY ONLY <2>3, <2>5, <2>7, <3>1, <3>2, <3>3 DEF Holds, End
  <2>10. InGroup(grouped, tile, budget)
    BY <2>1, <2>4, <2>8 DEF InGroup
  <2>11. ASSUME NEW t \in B, InGroup(q, t, budget) PROVE InGroup(grouped, t, budget)
    <3>1. PICK i \in 1..n : Holds(q[i], t, budget)
      BY <2>11 DEF InGroup, n
    <3>2. CASE i = n
      BY <3>1, <3>2, <2>1, <2>4, <2>9 DEF last, InGroup
    <3>3. CASE i # n
      BY <2>4, <3>1, <3>3 DEF InGroup
    <3>. QED
      BY <3>2, <3>3
  <2>. QED
    BY <2>10, <2>11 DEF grouped
<1>. QED
  BY <1>4, <1>5, <1>6

\* The groups hold every tile.
LEMMA TilesAreHeld ==
  ASSUME NEW T, NEW M, M \in Int, NEW ranges \in Seq(Ranges(T, M)), NEW budget \in Nat, NEW i \in 1..Len(ranges)
  PROVE  InGroup(GroupedTileRanges(ranges, budget), ranges[i], budget)
<1> DEFINE B == Ranges(T, M)
<1>1. PICK h, tiles : Grouping(h, tiles, ranges, budget, B)
  BY GroupingExists, Zenon
<1> DEFINE n == Len(tiles)
           U == {m \in 0..n : \A k \in 1..m : InGroup(h[m], tiles[k], budget)}
<1>2. /\ n \in Nat /\ \A k \in 1..n : tiles[k] \in B
      /\ \A k \in 1..n : h[k] = GroupedWith(h[k - 1], tiles[k], budget)
      /\ \A k \in 0..n : h[k] \in Seq(B)
  BY <1>1 DEF Grouping, GroupingOf
<1>3. PICK at \in 1..n : tiles[at] = ranges[i]
  BY <1>1 DEF Grouping, SortedFrom
<1>4. GroupedTileRanges(ranges, budget) = h[n]
  BY <1>1 DEF Grouping
<1> HIDE DEF n
<1>5. 0 \in U
  BY <1>2
<1>6. ASSUME NEW m \in 0..n, m \in U, m < n PROVE m + 1 \in U
  <2> DEFINE j == m + 1
             q == h[m]
             tile == tiles[j]
  <2>1. j \in 1..n /\ j \in 0..n /\ j - 1 = m
    BY <1>2, <1>6
  <2>2. q \in Seq(B) /\ tile \in B
    BY <1>2, <2>1
  <2>3. h[j] = GroupedWith(q, tile, budget)
    BY <1>2, <2>1
  <2>4. \A k \in 1..m : InGroup(q, tiles[k], budget)
    BY <1>6
  <2>5. \A k \in 1..j : k = j \/ k \in 1..m
    BY <2>1
  <2>6. \A k \in 1..m : tiles[k] \in B
    BY <1>2
  <2> HIDE DEF j, q
  <2>7. InGroup(h[j], tile, budget) /\ \A t \in B : InGroup(q, t, budget) => InGroup(h[j], t, budget)
    <3> HIDE DEF tile
    <3>. QED
      BY <2>2, <2>3, GroupedHolds
  <2> HIDE DEF B
  <2>8. \A k \in 1..j : InGroup(h[j], tiles[k], budget)
    BY <2>4, <2>5, <2>6, <2>7
  <2>9. j \in U
    BY <2>1, <2>8
  <2>. QED
    BY <2>9 DEF j
<1> HIDE DEF U
<1>7. \A m \in 0..n : m \in U
  BY <1>2, <1>5, <1>6, Ascent
<1>8. n \in 0..n
  BY <1>2
<1>9. \A k \in 1..n : InGroup(h[n], tiles[k], budget)
  BY <1>7, <1>8 DEF U
<1>. QED
  BY <1>3, <1>4, <1>9

\* Leaves chosen between two positions span no more than lies between them.
LEMMA SpanWithin ==
  ASSUME NEW D, NEW p, IsLine(D, p), NEW a \in 1..(Len(D) + 1), NEW z \in 1..(Len(D) + 1), a <= z,
         NEW at \in SUBSET (a..(z - 1))
  PROVE  SpanOf(Selected(D, at)) \in Nat /\ SpanOf(Selected(D, at)) <= p[z] - p[a]
<1> DEFINE n == Len(D)
           m == Cardinality(at)
           e == Ascending(at)
           s == Selected(D, at)
           o == Offsets(s)
<1>1. /\ p \in [1..(n + 1) -> Nat] /\ n \in Nat
      /\ \A i \in 1..n : D[i].length \in Nat \ {0} /\ p[i + 1] = p[i] + D[i].length
  BY DEF IsLine, Placed, IsSeq
<1>2. \A i, j \in 1..(n + 1) : i <= j => p[i] <= p[j]
  <2>1. Ascends(p, n + 1)
    BY LineAscends
  <2> SUFFICES ASSUME NEW i \in 1..(n + 1), NEW j \in 1..(n + 1), i <= j PROVE p[i] <= p[j]
    OBVIOUS
  <2>2. p[i] \in Nat /\ p[j] \in Nat
    BY <1>1
  <2>3. i = j \/ i < j
    BY <1>1
  <2>4. i < j => p[i] < p[j]
    BY <2>1 DEF Ascends
  <2> HIDE DEF n
  <2>. QED
    BY <2>2, <2>3, <2>4
<1>3. IsFiniteSet(at) /\ at \in SUBSET Nat
  <2> DEFINE I == a..(z - 1)
  <2>1. IsFiniteSet(I) /\ I \in SUBSET Nat
    BY FS_Interval
  <2> HIDE DEF I
  <2>2. at \in SUBSET I
    BY DEF I
  <2>. QED
    BY <2>1, <2>2, FS_Subset
<1>4. m \in Nat /\ e \in [1..m -> Nat] /\ \A k \in 1..m : e[k] \in at
  BY <1>3, AscendingIs
<1>5. Ascends(e, m)
  BY <1>3, AscendingIs
<1>6. s = [k \in 1..m |-> D[e[k]]]
  BY DEF Selected
<1> HIDE DEF m, e, s
<1>7. \A k \in 1..m : e[k] \in 1..n /\ e[k] + 1 \in 1..(n + 1) /\ a <= e[k] /\ e[k] + 1 <= z
  <2> SUFFICES ASSUME NEW k \in 1..m
               PROVE  e[k] \in 1..n /\ e[k] + 1 \in 1..(n + 1) /\ a <= e[k] /\ e[k] + 1 <= z
    OBVIOUS
  <2> DEFINE x == e[k]
  <2>1. x \in a..(z - 1)
    BY <1>4
  <2> HIDE DEF x
  <2>2. x \in 1..n /\ x + 1 \in 1..(n + 1) /\ a <= x /\ x + 1 <= z
    BY <1>1, <2>1
  <2>. QED
    BY <2>2 DEF x
<1>8. s = [k \in 1..m |-> s[k]] /\ \A k \in 1..m : s[k] = D[e[k]]
  BY <1>6
<1>9. IsSeq(s) /\ Len(s) = m /\ DOMAIN s = 1..m
  BY <1>4, <1>8, ValuesAreSeq
<1>10. \A k \in 1..m : s[k].length \in Nat \ {0} /\ p[e[k] + 1] = p[e[k]] + s[k].length
  BY <1>1, <1>7, <1>8
<1>11. Lengths(s)
  BY <1>9, <1>10 DEF Lengths, IsSeq
<1>12. o \in [1..(m + 1) -> Nat] /\ o[1] = 0 /\ \A k \in 1..m : o[k + 1] = o[k] + s[k].length
  BY <1>9, <1>11, OffsetsAre
<1>13. SpanOf(s) = o[m + 1]
  BY <1>9 DEF SpanOf
<1> HIDE DEF o
<1> DEFINE U == {k \in 0..m : k # 0 => o[k + 1] + p[a] <= p[e[k] + 1]}
<1>14. 0 \in U
  BY <1>4
<1>15. ASSUME NEW k \in 0..m, k \in U, k < m PROVE k + 1 \in U
  <2> DEFINE j == k + 1
             x == e[j]
  <2>1. j \in 1..m /\ j \in 0..m /\ j \in 1..(m + 1) /\ j # 0
    BY <1>4, <1>15
  <2>2. x \in 1..n /\ x \in 1..(n + 1) /\ x + 1 \in 1..(n + 1) /\ a <= x
    BY <1>1, <1>7, <2>1
  <2>3. p[x + 1] = p[x] + s[j].length /\ s[j].length \in Nat /\ o[j + 1] = o[j] + s[j].length
    BY <1>10, <1>12, <2>1
  <2>4. p[x] \in Nat /\ p[x + 1] \in Nat /\ p[a] \in Nat /\ o[j] \in Nat /\ p[a] <= p[x]
    BY <1>1, <1>2, <1>12, <2>1, <2>2
  <2>5. o[j] + p[a] <= p[x]
    <3>1. CASE k = 0
      BY <1>12, <2>4, <3>1
    <3>2. CASE k # 0
      <4> DEFINE w == e[k]
      <4>1. k \in 1..m /\ k < j
        BY <1>4, <2>1, <3>2
      <4>2. w < x
        BY <1>5, <2>1, <4>1 DEF Ascends
      <4>3. w \in 1..n /\ w + 1 \in 1..(n + 1)
        BY <1>7, <4>1
      <4>4. o[j] + p[a] <= p[w + 1]
        BY <1>15, <3>2
      <4> HIDE DEF w, x, j
      <4>5. p[w + 1] <= p[x] /\ p[w + 1] \in Nat
        <5>1. w + 1 <= x
          BY <1>1, <2>2, <4>2, <4>3
        <5>2. p[w + 1] \in Nat
          BY <1>1, <4>3
        <5>. QED
          BY ONLY <1>2, <2>2, <4>3, <5>1, <5>2
      <4>. QED
        BY <2>4, <4>4, <4>5
    <3>. QED
      BY <3>1, <3>2
  <2> HIDE DEF x, j
  <2>6. o[j + 1] + p[a] <= p[x + 1]
    BY <2>3, <2>4, <2>5
  <2>7. j \in U
    BY <2>1, <2>6 DEF x
  <2>. QED
    BY <2>7 DEF j
<1> HIDE DEF U
<1>16. \A k \in 0..m : k \in U
  BY <1>4, <1>14, <1>15, Ascent
<1>17. m # 0 => o[m + 1] + p[a] <= p[e[m] + 1]
  BY <1>4, <1>16 DEF U
<1>18. p[a] \in Nat /\ p[z] \in Nat /\ p[a] <= p[z] /\ o[m + 1] \in Nat
  <2>1. m + 1 \in 1..(m + 1)
    BY <1>4
  <2>. QED
    BY <1>1, <1>2, <1>12, <2>1
<1>19. o[m + 1] <= p[z] - p[a]
  <2>1. CASE m = 0
    BY <1>12, <1>18, <2>1
  <2>2. CASE m # 0
    <3> DEFINE w == e[m] + 1
    <3>1. m \in 1..m
      BY <1>4, <2>2
    <3>2. w \in 1..(n + 1) /\ w <= z
      BY <1>7, <3>1
    <3>3. p[w] <= p[z] /\ p[w] \in Nat
      BY <1>1, <1>2, <3>2
    <3>4. o[m + 1] + p[a] <= p[w]
      BY <1>17, <2>2
    <3> HIDE DEF w
    <3>. QED
      BY <1>18, <3>3, <3>4
  <2>. QED
    BY <2>1, <2>2
<1>. QED
  BY <1>13, <1>18, <1>19 DEF s

\* The leaves a tile needs lie in the group that holds it.
LEMMA HeldIsCheap ==
  ASSUME NEW D, NEW p, IsLine(D, p), NEW a \in 1..(Len(D) + 1), NEW z \in 1..(Len(D) + 1),
         NEW group, IsSection(group), p[a] = group.offset, p[z] = End(group),
         NEW tile, IsSection(tile), NEW budget \in Nat, Holds(group, tile, budget),
         NEW bytes, bytes = SpanOf(Selected(D, {i \in DOMAIN D : Overlaps(D[i], tile.offset, End(tile))}))
  PROVE  bytes <= budget \/ bytes <= tile.length
<1> DEFINE n == Len(D)
           at == {i \in DOMAIN D : Overlaps(D[i], tile.offset, End(tile))}
<1>1. /\ p \in [1..(n + 1) -> Nat] /\ n \in Nat /\ DOMAIN D = 1..n
      /\ \A i \in 1..n : /\ D[i].length \in Nat \ {0} /\ p[i + 1] = p[i] + D[i].length
                         /\ D[i].offset = p[i]
  BY DEF IsLine, Placed, IsSeq
<1>2. Ascends(p, n + 1)
  BY LineAscends
<1>3. /\ group.offset \in Nat /\ group.length \in Nat /\ tile.offset \in Nat /\ tile.length \in Nat
      /\ End(group) = group.offset + group.length /\ End(tile) = tile.offset + tile.length
      /\ group.offset <= tile.offset /\ End(tile) <= End(group)
      /\ group.length <= budget \/ group.length <= tile.length
  BY DEF IsSection, End, Holds
<1>4. a <= z
  BY <1>1, <1>2, <1>3 DEF Ascends
<1>5. ASSUME NEW i \in at PROVE i \in a..(z - 1)
  <2>1. i \in 1..n /\ i + 1 \in 1..(n + 1) /\ i \in 1..(n + 1)
    BY <1>1
  <2>2. p[i] < End(tile) /\ p[i + 1] > tile.offset
    BY <1>1, <2>1 DEF Overlaps, End
  <2>3. p[i] \in Nat /\ p[i + 1] \in Nat /\ End(tile) \in Nat /\ End(group) \in Nat
    <3>1. p[i] \in Nat /\ p[i + 1] \in Nat
      BY ONLY <1>1, <2>1
    <3>2. End(tile) \in Nat /\ End(group) \in Nat
      BY ONLY <1>3
    <3>. QED
      BY <3>1, <3>2
  <2>4. p[i] < p[z] /\ p[a] < p[i + 1]
    BY ONLY <1>3, <2>2, <2>3, p[a] = group.offset, p[z] = End(group)
  <2>5. ~(z < i) /\ z # i
    BY <1>1, <1>2, <2>1, <2>3, <2>4 DEF Ascends
  <2>6. ~(i + 1 < a) /\ i + 1 # a
    BY <1>1, <1>2, <2>1, <2>3, <2>4 DEF Ascends
  <2>. QED
    BY <1>1, <2>1, <2>5, <2>6
<1>6. bytes \in Nat /\ bytes <= p[z] - p[a]
  <2>1. at \in SUBSET (a..(z - 1))
    BY <1>5
  <2> HIDE DEF at
  <2>2. bytes = SpanOf(Selected(D, at))
    BY DEF at
  <2>. QED
    BY <1>4, <2>1, <2>2, SpanWithin
<1>7. p[z] - p[a] = group.length
  BY <1>3
<1>. QED
  BY <1>3, <1>6, <1>7

\* The ends of a group are positions of the leaves.
LEMMA GroupEnds ==
  ASSUME NEW f, f.length \in Nat \ {0}, IsArchive(f), Parses(f), NEW budget,
         NEW groups, groups = GroupedTileRanges(TileRanges(f), budget),
         NEW S, S = PmtilesCutPoints(f, groups), NEW g \in DOMAIN groups
  PROVE  Among(Ascending(S), Len(LeavesBetween(S)) + 1, groups[g].offset, End(groups[g]))
<1> DEFINE s == LeavesBetween(S)
           p == Ascending(S)
           x == groups[g].offset
           y == End(groups[g])
           n == Cardinality(S)
<1>1. PointsTo(S, f.length)
  BY ArchivePoints
<1>2. S \in SUBSET Nat /\ IsFiniteSet(S)
  BY <1>1 DEF PointsTo
<1>3. n \in Nat /\ p \in [1..n -> Nat] /\ \A v \in S : \E k \in 1..n : p[k] = v
  BY <1>2, AscendingIs
<1>4. x \in S /\ y \in S
  BY DEF PmtilesCutPoints
<1>5. LineTo(s, p, f.length)
  BY ArchiveLines DEF CutsLine
<1>6. p \in [1..(Len(s) + 1) -> Nat] /\ Len(s) \in Nat
  BY <1>5 DEF LineTo, IsLine, Placed, IsSeq
<1>7. 1..n = 1..(Len(s) + 1)
  BY <1>3, <1>6
<1> HIDE DEF n, p, s, x, y
<1>8. PICK a \in 1..n : p[a] = x
  BY <1>3, <1>4
<1>9. PICK z \in 1..n : p[z] = y
  BY <1>3, <1>4
<1>10. Among(p, Len(s) + 1, x, y)
  BY <1>7, <1>8, <1>9 DEF Among
<1>. QED
  BY <1>10 DEF p, s, x, y

\* A budget that a pack reports is a number of bytes.
LEMMA BudgetIs ==
  ASSUME NEW j \in MemoryJobs \cup DiskJobs, Pack(j).ok, Pack(j).budget # Unset
  PROVE  Pack(j).budget \in Nat
<1> DEFINE f == j.file
           b == Pack(j).budget
<1>1. b = IF j.opts.tileGroup = Unset THEN ChoosePmtilesTileGroup(f) ELSE j.opts.tileGroup
  BY ArchivePack
<1>2. CASE j.opts.tileGroup # Unset
  <2>1. j.opts.tileGroup \in Nat \cup {Unset}
    BY JobsAssumption
  <2> HIDE DEF b
  <2>2. b \in Nat
    BY <1>1, <1>2, <2>1
  <2>. QED
    BY <2>2 DEF b
<1>3. CASE j.opts.tileGroup = Unset
  <2> DEFINE n == Len(TileGroupCandidates)
             flat == {i \in DOMAIN TileGroupCandidates : ShardTotal(f, TileGroupCandidates[i]) <= TopMaxEntries}
  <2>1. n \in Nat \ {0} /\ DOMAIN TileGroupCandidates = 1..n /\ \A i \in 1..n : TileGroupCandidates[i] \in Nat
    BY CutsAssumption
  <2>2. ChoosePmtilesTileGroup(f) = IF flat = {} THEN TileGroupCandidates[n]
                                    ELSE TileGroupCandidates[CHOOSE i \in flat : \A k \in flat : i <= k]
    BY DEF ChoosePmtilesTileGroup, Last
  <2>3. flat # {} => \E i \in flat : \A k \in flat : i <= k
    <3>1. flat \in SUBSET Nat
      BY <2>1
    <3> HIDE DEF flat
    <3>. QED
      BY <3>1, LeastNat
  <2>4. flat \in SUBSET (1..n)
    BY <2>1
  <2> DEFINE at == CHOOSE i \in flat : \A k \in flat : i <= k
  <2>5. flat # {} => at \in flat
    <3> HIDE DEF flat
    <3>. QED
      BY <2>3
  <2> HIDE DEF flat, n, at
  <2>6. ChoosePmtilesTileGroup(f) \in Nat
    <3>1. CASE flat = {}
      BY <2>1, <2>2, <3>1
    <3>2. CASE flat # {}
      BY <2>4, <2>5, <3>2, <2>2, <2>1 DEF at
    <3>. QED
      BY <3>1, <3>2
  <2> HIDE DEF b
  <2>7. b \in Nat
    BY <1>1, <1>3, <2>6
  <2>. QED
    BY <2>7 DEF b
<1>. QED
  BY <1>2, <1>3

\* The leaves of a packed archive, and the groups its tiles are in.
LEMMA ArchiveGroups ==
  ASSUME NEW j \in MemoryJobs \cup DiskJobs, Pack(j).ok, Pack(j).budget # Unset,
         NEW f, f = j.file, NEW b, b = Pack(j).budget,
         NEW i \in DOMAIN TileRanges(f), NEW tile, tile = TileRanges(f)[i],
         NEW D, D = Pack(j).leaves
  PROVE  \E p, group : \E a, z \in 1..(Len(D) + 1) :
            /\ IsLine(D, p) /\ IsSection(group) /\ IsSection(tile)
            /\ p[a] = group.offset /\ p[z] = End(group) /\ Holds(group, tile, b)
<1> DEFINE ranges == TileRanges(f)
           groups == GroupedTileRanges(ranges, b)
           S == PmtilesCutPoints(f, groups)
           cut == CutAt(f, b)[1]
           leaves == PmtilesLeaves(f, b)
           p == Ascending(S)
<1>1. /\ f.length \in Nat \ {0} /\ IsArchive(f) /\ Parses(f)
      /\ Pack(j) = PackWithChunker(f, cut)
  BY ArchivePack
<1>2. b \in Nat
  BY BudgetIs
<1>3. End(f.tiles) \in Int
  BY <1>1 DEF IsArchive, IsSection, End
<1> DEFINE M == End(f.tiles)
<1>4. M \in Int /\ \A k \in DOMAIN ranges : End(ranges[k]) <= M
  BY <1>1, <1>3 DEF Parses
<1> HIDE DEF M
<1>5. PICK T : ranges \in Seq(Ranges(T, M))
  BY <1>1, <1>4, TileRangesIn
<1>6. groups \in Seq(Ranges(T, M))
  <2> HIDE DEF ranges
  <2>. QED
    BY <1>4, <1>5, GroupsIn
<1>7. i \in 1..Len(ranges) /\ tile = ranges[i]
  BY <1>5
<1>8. InGroup(groups, tile, b)
  <2> HIDE DEF ranges
  <2>. QED
    BY <1>2, <1>4, <1>5, <1>7, TilesAreHeld
<1>9. IsSection(tile)
  <2> HIDE DEF ranges
  <2>1. tile \in Ranges(T, M)
    BY <1>5, <1>7
  <2>. QED
    BY <1>4, <2>1, RangesAre DEF IsSection
<1>10. PICK g \in 1..Len(groups) : Holds(groups[g], tile, b)
  BY <1>8 DEF InGroup
<1> DEFINE group == groups[g]
<1>11. g \in DOMAIN groups /\ group \in Ranges(T, M)
  <2> HIDE DEF groups
  <2>. QED
    BY <1>6, <1>10
<1>12. IsSection(group)
  <2> HIDE DEF group
  <2>. QED
    BY <1>4, <1>11, RangesAre DEF IsSection
<1>13. leaves = LeavesBetween(S)
  BY DEF PmtilesLeaves
<1>14. PICK a \in 1..(Len(leaves) + 1), z \in 1..(Len(leaves) + 1) : p[a] = group.offset /\ p[z] = End(group)
  <2>1. Among(p, Len(LeavesBetween(S)) + 1, groups[g].offset, End(groups[g]))
    BY <1>1, <1>11, GroupEnds
  <2>2. Among(p, Len(leaves) + 1, group.offset, End(group))
    BY <1>13, <2>1
  <2> HIDE DEF p, leaves, group
  <2>. QED
    BY <2>2 DEF Among
<1>15. LineTo(leaves, p, f.length)
  BY <1>1, ArchiveLines, <1>13 DEF CutsLine
<1>16. cut.leaves = leaves /\ cut.bands = PmtilesBands(f, leaves, groups)
  BY DEF CutAt
<1> HIDE DEF leaves, groups, p, group, cut, S
<1>17. PICK c, q : CutInto(cut.bands, cut.leaves, c, q)
  BY <1>15, <1>16, PmtilesCut DEF LineTo, IsLine, Placed
<1>18. IsLine(D, p) /\ Len(D) = Len(leaves)
  <2>1. IsLine(cut.leaves, p)
    BY <1>15, <1>16 DEF LineTo
  <2> DEFINE pack == PackWithChunker(f, cut)
  <2>2. D = pack.leaves /\ pack.ok
    BY <1>1
  <2>3. pack = PackWithChunker(f, cut)
    OBVIOUS
  <2> HIDE DEF pack
  <2>4. IsLine(pack.leaves, p) /\ Len(pack.leaves) = Len(cut.leaves)
    BY ONLY <1>17, <2>1, <2>2, <2>3, PackSays
  <2>. QED
    BY <1>16, <2>2, <2>4
<1>. QED
  BY <1>9, <1>10, <1>12, <1>14, <1>18 DEF group

\* TilesAreCheap, for every archive: the leaves a tile needs are no larger than
\* the budget, or than the tile.
THEOREM TilesCostLittle == Spec => []TilesAreCheap
<1>1. VerifyInv => TilesAreCheap
  <2> SUFFICES ASSUME VerifyInv, phase = "verify", packed.budget # Unset,
                      NEW i \in DOMAIN TileRanges(job.file), NEW tile, tile = TileRanges(job.file)[i],
                      NEW bytes, bytes = SpanOf(Wanted(packed, tile.offset, End(tile)))
               PROVE  bytes <= packed.budget \/ bytes <= tile.length
    BY DEF TilesAreCheap
  <2> DEFINE D == packed.leaves
             b == packed.budget
             f == job.file
  <2>1. job \in MemoryJobs \cup DiskJobs /\ packed = Pack(job) /\ packed.ok
    BY DEF VerifyInv
  <2>2. D = Pack(job).leaves /\ b = Pack(job).budget /\ b # Unset /\ Pack(job).ok
    BY <2>1
  <2>3. bytes = SpanOf(Selected(D, {k \in DOMAIN D : Overlaps(D[k], tile.offset, End(tile))}))
    BY DEF Wanted
  <2>4. b \in Nat
    BY <2>1, <2>2, BudgetIs
  <2> HIDE DEF D, b
  <2>5. PICK p, group : \E a, z \in 1..(Len(D) + 1) :
            /\ IsLine(D, p) /\ IsSection(group) /\ IsSection(tile)
            /\ p[a] = group.offset /\ p[z] = End(group) /\ Holds(group, tile, b)
    BY <2>1, <2>2, ArchiveGroups
  <2>6. bytes <= b \/ bytes <= tile.length
    BY <2>3, <2>4, <2>5, HeldIsCheap
  <2>. QED
    BY <2>6 DEF b
<1>. QED
  BY <1>1, VerifyHolds, PTL
=============================================================================
